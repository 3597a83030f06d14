------------------ MODULE ShardReaderSelectStrategy_proofs ------------------
(***************************************************************************)
(* The consumer's choice of a shard loses none and keeps its heap in       *)
(* order, for any number of shards, infos, nodes and times.                *)
(***************************************************************************)
EXTENDS ShardReaderSelectStrategy, SequenceTheorems, FiniteSetTheorems,
        WellFoundedInduction, TLAPS

----------------------------------------------------------------------------
(* The loops *)

\* A non-empty set of numbers has a least element.
LEMMA LeastNumber ==
    ASSUME NEW T \in SUBSET Nat, T # {}
    PROVE  \E n \in T : \A m \in T : n <= m
<1> DEFINE R == {pair \in Nat \X Nat : pair[1] < pair[2]}
<1>1. IsWellFoundedOn(R, Nat)
  BY NatLessThanWellFounded DEF OpToRel
<1>2. PICK n \in T : \A m \in T : ~ (<<m, n>> \in R)
  <2>1. T \subseteq Nat
    OBVIOUS
  <2> HIDE DEF R
  <2> QED
    BY <1>1, <2>1, WFMin
<1>3. \A m \in T : ~ (m < n)
  BY <1>2
<1>4. \A m \in T : m \in Nat /\ n \in Nat
  OBVIOUS
<1> QED
  BY <1>3, <1>4

\* f has the results of the first n passes.
Passes(f, pass, a, n) ==
    /\ DOMAIN f = 0 .. n
    /\ \A k \in 0 .. n : f[k] = IF k = 0 THEN a ELSE pass[f[k - 1]]

LEMMA PassesExist ==
    ASSUME NEW pass, NEW a, NEW n \in Nat
    PROVE  \E f : Passes(f, pass, a, n)
<1> DEFINE T == {m \in Nat : ~ \E f : Passes(f, pass, a, m)}
<1> SUFFICES ASSUME T # {} PROVE FALSE
  OBVIOUS
<1>1. PICK m \in T : \A k \in T : m <= k
  <2>1. T \in SUBSET Nat
    OBVIOUS
  <2> HIDE DEF T
  <2> QED
    BY <2>1, LeastNumber
<1>2. m # 0
  <2>1. Passes([k \in 0 .. 0 |-> a], pass, a, 0)
    BY DEF Passes
  <2> QED
    BY <2>1
<1>3. m \in Nat /\ m - 1 \in Nat /\ m - 1 \notin T
  <2>1. m \in Nat
    OBVIOUS
  <2>2. m - 1 \in Nat /\ ~ (m <= m - 1)
    BY <1>2, <2>1
  <2> HIDE DEF T
  <2> QED
    BY <1>1, <2>1, <2>2
<1>4. PICK g : Passes(g, pass, a, m - 1)
  BY <1>3
<1> DEFINE f == [k \in 0 .. m |-> IF k < m THEN g[k] ELSE pass[g[k - 1]]]
<1>5. ASSUME NEW k \in 0 .. m
      PROVE  f[k] = IF k = 0 THEN a ELSE pass[f[k - 1]]
  <2>1. k # 0 => k - 1 \in 0 .. m /\ k - 1 < m
    BY <1>3
  <2>2. CASE k < m
    <3>1. k \in 0 .. m - 1
      BY <1>3, <2>2
    <3> QED
      BY <1>4, <2>1, <2>2, <3>1 DEF Passes
  <2>3. CASE k = m
    BY <1>2, <2>1, <2>3
  <2> QED
    BY <1>3, <2>2, <2>3
<1>6. Passes(f, pass, a, m)
  BY <1>5 DEF Passes
<1> QED
  BY <1>1, <1>6

\* What the k-th pass leaves is in T[k]: induction over the passes of a loop.
LEMMA IterateInduction ==
    ASSUME NEW pass, NEW a, NEW n \in Nat, NEW T,
           a \in T[0], \A k \in 0 .. n - 1 : \A x \in T[k] : pass[x] \in T[k + 1]
    PROVE  Iterate(pass, a, n) \in T[n]
<1> DEFINE IsAfter(f) == f = [k \in 0 .. n |-> IF k = 0 THEN a ELSE pass[f[k - 1]]]
           F == CHOOSE f : IsAfter(f)
<1>1. PICK g : Passes(g, pass, a, n)
  BY PassesExist
<1>2. IsAfter([k \in 0 .. n |-> g[k]])
  <2> DEFINE h == [k \in 0 .. n |-> g[k]]
  <2>1. ASSUME NEW k \in 0 .. n
        PROVE  h[k] = IF k = 0 THEN a ELSE pass[h[k - 1]]
    <3>1. k # 0 => k - 1 \in 0 .. n
      OBVIOUS
    <3> QED
      BY <1>1, <3>1 DEF Passes
  <2> QED
    BY <2>1
<1>3. IsAfter(F)
  BY <1>2
<1>4. Passes(F, pass, a, n)
  <2> HIDE DEF F
  <2> QED
    BY <1>3 DEF Passes
<1>5. Iterate(pass, a, n) = F[n]
  BY DEF Iterate
<1> HIDE DEF F
<1> DEFINE Bad == {k \in 0 .. n : F[k] \notin T[k]}
<1>6. Bad = {}
  <2> SUFFICES ASSUME Bad # {} PROVE FALSE
    OBVIOUS
  <2>1. PICK k \in Bad : \A j \in Bad : k <= j
    <3>1. Bad \in SUBSET Nat
      OBVIOUS
    <3> HIDE DEF Bad
    <3> QED
      BY <3>1, LeastNumber
  <2>2. k \in 0 .. n /\ F[k] \notin T[k]
    OBVIOUS
  <2>3. k # 0
    <3>1. 0 \in 0 .. n
      OBVIOUS
    <3> QED
      BY <1>4, <2>2, <3>1 DEF Passes
  <2>4. k - 1 \in 0 .. n - 1 /\ k - 1 \in 0 .. n /\ ~ (k <= k - 1) /\ k - 1 + 1 = k
    BY <2>2, <2>3
  <2>5. F[k - 1] \in T[k - 1]
    <3>1. k - 1 \notin Bad
      <4> HIDE DEF Bad
      <4> QED
        BY <2>1, <2>4
    <3> QED
      BY <2>4, <3>1
  <2>6. F[k] = pass[F[k - 1]]
    BY <1>4, <2>2, <2>3 DEF Passes
  <2>7. pass[F[k - 1]] \in T[k]
    BY <2>4, <2>5
  <2> QED
    BY <2>2, <2>6, <2>7
<1>7. n \in 0 .. n
  OBVIOUS
<1> QED
  BY <1>5, <1>6, <1>7

----------------------------------------------------------------------------
(* What is kept while nodes are swapped *)

Injective(entries) ==
    \A i, j \in 1 .. Len(entries) : entries[i] = entries[j] => i = j

\* An info that has an index lies there.
Pointing(heap) ==
    \A x \in Infos :
        heap.index[x] # -1 =>
            heap.index[x] \in 0 .. Size(heap) - 1 /\ NodeAt(heap, heap.index[x]) = x

\* Every node knows its index.
Indexed(heap) == \A i \in 0 .. Size(heap) - 1 : heap.index[NodeAt(heap, i)] = i

\* The same nodes in another order.
Rearranged(new, heap) ==
    /\ new \in Heaps
    /\ Size(new) = Size(heap)
    /\ ToSet(new.nodes) = ToSet(heap.nodes)
    /\ Pointing(heap) => Pointing(new)
    /\ Indexed(heap) => Indexed(new)
    /\ Injective(new.nodes) => Injective(heap.nodes)

LEMMA HeapFacts ==
    ASSUME NEW heap \in Heaps
    PROVE  /\ heap = [nodes |-> heap.nodes, index |-> heap.index]
           /\ heap.nodes \in Seq(Infos) /\ heap.index \in [Infos -> Int]
           /\ Size(heap) \in Nat /\ Len(heap.nodes) = Size(heap)
           /\ DOMAIN heap.nodes = 1 .. Size(heap)
           /\ \A i \in 1 .. Size(heap) : heap.nodes[i] \in Infos
           /\ \A i \in 0 .. Size(heap) - 1 : NodeAt(heap, i) \in Infos
<1>1. heap.nodes \in Seq(Infos) /\ heap.index \in [Infos -> Int]
  BY DEF Heaps
<1>2. /\ Len(heap.nodes) \in Nat /\ DOMAIN heap.nodes = 1 .. Len(heap.nodes)
      /\ \A i \in 1 .. Len(heap.nodes) : heap.nodes[i] \in Infos
  BY <1>1, LenProperties
<1>3. ASSUME NEW i \in 0 .. Len(heap.nodes) - 1 PROVE NodeAt(heap, i) \in Infos
  <2>1. i + 1 \in 1 .. Len(heap.nodes)
    BY <1>2
  <2> QED
    BY <1>2, <2>1 DEF NodeAt
<1> QED
  BY <1>1, <1>2, <1>3 DEF Heaps, Size

LEMMA SwapNodes ==
    ASSUME NEW heap \in Heaps, NEW i \in 0 .. Size(heap) - 1, NEW j \in 0 .. Size(heap) - 1
    PROVE  /\ Swapped(heap, i, j) \in Heaps
           /\ Size(Swapped(heap, i, j)) = Size(heap)
           /\ NodeAt(Swapped(heap, i, j), i) = NodeAt(heap, j)
           /\ NodeAt(Swapped(heap, i, j), j) = NodeAt(heap, i)
           /\ \A k \in 0 .. Size(heap) - 1 :
                  k # i /\ k # j => NodeAt(Swapped(heap, i, j), k) = NodeAt(heap, k)
<1> DEFINE new == Swapped(heap, i, j)
           n == Size(heap)
<1>1. /\ n \in Nat /\ heap.nodes \in Seq(Infos) /\ Len(heap.nodes) = n
      /\ DOMAIN heap.nodes = 1 .. n /\ heap.index \in [Infos -> Int]
      /\ NodeAt(heap, i) \in Infos /\ NodeAt(heap, j) \in Infos
  BY HeapFacts
<1>2. i + 1 \in 1 .. n /\ j + 1 \in 1 .. n
  BY <1>1
<1> HIDE DEF n
<1>3. /\ new.nodes \in Seq(Infos) /\ Len(new.nodes) = n
      /\ \A k \in 1 .. n : new.nodes[k] = IF k = j + 1 THEN NodeAt(heap, i)
                                         ELSE IF k = i + 1 THEN NodeAt(heap, j)
                                         ELSE heap.nodes[k]
  <2> DEFINE half == [heap.nodes EXCEPT ![i + 1] = NodeAt(heap, j)]
  <2>1. /\ half \in Seq(Infos) /\ Len(half) = n
        /\ \A k \in 1 .. n : half[k] = IF k = i + 1 THEN NodeAt(heap, j) ELSE heap.nodes[k]
    BY <1>1, <1>2, ExceptSeq
  <2>2. new.nodes = [half EXCEPT ![j + 1] = NodeAt(heap, i)]
    BY <1>1 DEF Swapped
  <2> HIDE DEF half, new
  <2>3. /\ new.nodes \in Seq(Infos) /\ Len(new.nodes) = n
        /\ \A k \in 1 .. n : new.nodes[k] = IF k = j + 1 THEN NodeAt(heap, i) ELSE half[k]
    BY <1>1, <1>2, <2>1, <2>2, ExceptSeq
  <2> QED
    BY <2>1, <2>3
<1>4. new.index \in [Infos -> Int]
  BY <1>1 DEF Swapped, n
<1>5. new \in Heaps
  BY <1>3, <1>4 DEF Swapped, Heaps
<1>6. Size(new) = n
  BY <1>3 DEF Size
<1>7. NodeAt(new, j) = NodeAt(heap, i)
  BY <1>2, <1>3 DEF NodeAt
<1>8. NodeAt(new, i) = NodeAt(heap, j)
  BY <1>2, <1>3 DEF NodeAt
<1>9. ASSUME NEW k \in 0 .. n - 1, k # i, k # j PROVE NodeAt(new, k) = NodeAt(heap, k)
  <2>1. k + 1 \in 1 .. n /\ k + 1 # i + 1 /\ k + 1 # j + 1
    BY <1>1, <1>9
  <2> QED
    BY <1>3, <2>1 DEF NodeAt
<1> QED
  BY <1>5, <1>6, <1>7, <1>8, <1>9 DEF n

\* Swapping two nodes rearranges a heap.
LEMMA SwapRearranges ==
    ASSUME NEW heap \in Heaps, NEW i \in 0 .. Size(heap) - 1, NEW j \in 0 .. Size(heap) - 1
    PROVE  Rearranged(Swapped(heap, i, j), heap)
<1> DEFINE new == Swapped(heap, i, j)
           n == Size(heap)
           u == NodeAt(heap, i)
           v == NodeAt(heap, j)
           Other(k) == IF k = i THEN j ELSE IF k = j THEN i ELSE k
<1>1. /\ new \in Heaps /\ Size(new) = n /\ NodeAt(new, i) = v /\ NodeAt(new, j) = u
      /\ \A k \in 0 .. n - 1 : k # i /\ k # j => NodeAt(new, k) = NodeAt(heap, k)
  BY SwapNodes
<1>2. /\ n \in Nat /\ heap.index \in [Infos -> Int] /\ u \in Infos /\ v \in Infos
      /\ \A k \in 0 .. n - 1 : NodeAt(heap, k) \in Infos
  BY HeapFacts
<1>3. \A x \in Infos : new.index[x] = IF x = u THEN j ELSE IF x = v THEN i ELSE heap.index[x]
  BY <1>2 DEF Swapped
<1>4. \A k \in 0 .. n - 1 : NodeAt(new, k) \in Infos
  BY <1>1, HeapFacts
<1> HIDE DEF new, u, v, n
<1>5. \A k \in 0 .. n - 1 : Other(k) \in 0 .. n - 1 /\ Other(Other(k)) = k
  BY DEF n
<1>6. \A k \in 0 .. n - 1 : NodeAt(new, k) = NodeAt(heap, Other(k))
  BY <1>1, <1>2 DEF u, v
<1> HIDE DEF Other
<1>7. ToSet(new.nodes) = ToSet(heap.nodes)
  <2>1. ASSUME NEW h \in Heaps, Size(h) = n
        PROVE  ToSet(h.nodes) = {NodeAt(h, k) : k \in 0 .. n - 1}
    <3>1. DOMAIN h.nodes = 1 .. n
      BY <2>1, HeapFacts
    <3>2. ASSUME NEW k \in 1 .. n PROVE h.nodes[k] \in {NodeAt(h, l) : l \in 0 .. n - 1}
      <4>1. k - 1 \in 0 .. n - 1 /\ k - 1 + 1 = k
        BY <1>2
      <4> QED
        BY <4>1 DEF NodeAt
    <3>3. ASSUME NEW k \in 0 .. n - 1 PROVE NodeAt(h, k) \in {h.nodes[l] : l \in 1 .. n}
      <4>1. k + 1 \in 1 .. n
        BY <1>2
      <4> QED
        BY <4>1 DEF NodeAt
    <3> QED
      BY <3>1, <3>2, <3>3 DEF ToSet
  <2>2. {NodeAt(new, k) : k \in 0 .. n - 1} = {NodeAt(heap, k) : k \in 0 .. n - 1}
    BY <1>5, <1>6
  <2> QED
    BY <1>1, <2>1, <2>2 DEF n
<1>8. ASSUME Pointing(heap) PROVE Pointing(new)
  <2> SUFFICES ASSUME NEW x \in Infos, new.index[x] # -1
               PROVE  new.index[x] \in 0 .. n - 1 /\ NodeAt(new, new.index[x]) = x
    BY <1>1 DEF Pointing
  <2>1. CASE x = u
    BY <1>1, <1>3, <2>1 DEF n
  <2>2. CASE x # u /\ x = v
    BY <1>1, <1>3, <2>2 DEF n
  <2>3. CASE x # u /\ x # v
    <3>1. new.index[x] = heap.index[x]
      BY <1>3, <2>3
    <3>2. heap.index[x] \in 0 .. n - 1 /\ NodeAt(heap, heap.index[x]) = x
      BY <1>8, <3>1 DEF Pointing, n
    <3>3. heap.index[x] # i /\ heap.index[x] # j
      BY <2>3, <3>2 DEF u, v
    <3> QED
      BY <1>1, <3>1, <3>2, <3>3
  <2> QED
    BY <2>1, <2>2, <2>3
<1>9. ASSUME Indexed(heap) PROVE Indexed(new)
  <2> SUFFICES ASSUME NEW k \in 0 .. n - 1 PROVE new.index[NodeAt(new, k)] = k
    BY <1>1 DEF Indexed
  <2>1. heap.index[u] = i /\ heap.index[v] = j
    BY <1>9 DEF Indexed, u, v, n
  <2>2. CASE k = j
    BY <1>1, <1>2, <1>3, <2>2
  <2>3. CASE k = i /\ k # j
    <3>1. u # v
      BY <2>1, <2>3
    <3> QED
      BY <1>1, <1>2, <1>3, <2>3, <3>1
  <2>4. CASE k # i /\ k # j
    <3>1. heap.index[NodeAt(heap, k)] = k
      BY <1>9 DEF Indexed, n
    <3>2. NodeAt(heap, k) # u /\ NodeAt(heap, k) # v
      BY <2>1, <2>4, <3>1
    <3> QED
      BY <1>1, <1>2, <1>3, <2>4, <3>1, <3>2
  <2> QED
    BY <2>2, <2>3, <2>4
<1>10. ASSUME Injective(new.nodes) PROVE Injective(heap.nodes)
  <2>1. Len(heap.nodes) = n /\ Len(new.nodes) = n
    BY <1>1 DEF Size, n
  <2> SUFFICES ASSUME NEW k \in 1 .. n, NEW l \in 1 .. n, heap.nodes[k] = heap.nodes[l]
               PROVE  k = l
    BY <2>1 DEF Injective
  <2> DEFINE K == Other(k - 1)
             L == Other(l - 1)
  <2>2. /\ k - 1 \in 0 .. n - 1 /\ l - 1 \in 0 .. n - 1
        /\ k - 1 + 1 = k /\ l - 1 + 1 = l
    BY <1>2
  <2>3. /\ K \in 0 .. n - 1 /\ L \in 0 .. n - 1
        /\ Other(K) = k - 1 /\ Other(L) = l - 1
    BY <1>5, <2>2
  <2> HIDE DEF K, L
  <2>4. NodeAt(new, K) = NodeAt(heap, k - 1) /\ NodeAt(new, L) = NodeAt(heap, l - 1)
    BY <1>6, <2>3
  <2>5. NodeAt(new, K) = NodeAt(new, L)
    BY <2>2, <2>4 DEF NodeAt
  <2>6. K + 1 \in 1 .. n /\ L + 1 \in 1 .. n
    BY <1>2, <2>3
  <2>7. K + 1 = L + 1
    BY <1>10, <2>1, <2>5, <2>6 DEF Injective, NodeAt
  <2>8. K = L
    BY <2>3, <2>7
  <2> QED
    BY <2>2, <2>3, <2>8
<1> QED
  BY <1>1, <1>7, <1>8, <1>9, <1>10 DEF Rearranged, new, n

LEMMA RearrangedTransitive ==
    ASSUME NEW a, NEW b, NEW c, Rearranged(b, a), Rearranged(c, b)
    PROVE  Rearranged(c, a)
  BY DEF Rearranged

LEMMA RearrangedReflexive ==
    ASSUME NEW a \in Heaps
    PROVE  Rearranged(a, a)
  BY DEF Rearranged

LEMMA ParentFacts ==
    /\ \A i \in Nat \ {0} : Parent(i) \in Nat /\ Parent(i) < i
    /\ \A i, j \in Int : Parent(j) = i <=> j = 2 * i + 1 \/ j = 2 * i + 2
<1>1. ASSUME NEW j \in Int
      PROVE  Parent(j) \in Int /\ 2 * Parent(j) <= j - 1 /\ j - 1 <= 2 * Parent(j) + 1
  BY DEF Parent
<1>2. \A i \in Nat \ {0} : Parent(i) \in Nat /\ Parent(i) < i
  BY <1>1
<1>3. ASSUME NEW i \in Int, NEW j \in Int
      PROVE  Parent(j) = i <=> j = 2 * i + 1 \/ j = 2 * i + 2
  <2> DEFINE p == Parent(j)
  <2>1. p \in Int /\ 2 * p <= j - 1 /\ j - 1 <= 2 * p + 1
    BY <1>1
  <2> HIDE DEF p
  <2>2. p = i <=> j = 2 * i + 1 \/ j = 2 * i + 2
    BY <2>1
  <2> QED
    BY <2>2 DEF p
<1> QED
  BY <1>2, <1>3

UpEnds(c, time) ==
    \/ c.at <= 0 \/ c.at >= Size(c.heap)
    \/ time[NodeAt(c.heap, c.at)] >= time[NodeAt(c.heap, Parent(c.at))]

\* A call of HeapUp swaps a node with its parent, or ends.
LEMMA UpCallStep ==
    ASSUME NEW time, NEW c \in Calls
    PROVE  \/ UpEnds(c, time) /\ UpCall(time)[c] = c
           \/ /\ ~ UpEnds(c, time)
              /\ c.at \in 1 .. Size(c.heap) - 1
              /\ Parent(c.at) \in 0 .. Size(c.heap) - 1 /\ Parent(c.at) < c.at
              /\ ~ (time[NodeAt(c.heap, c.at)] >= time[NodeAt(c.heap, Parent(c.at))])
              /\ UpCall(time)[c] =
                     [heap |-> Swapped(c.heap, c.at, Parent(c.at)), at |-> Parent(c.at)]
<1>1. c.heap \in Heaps /\ c.at \in Int /\ Size(c.heap) \in Nat
  BY HeapFacts DEF Calls
<1>2. UpCall(time)[c] =
        IF \/ c.at <= 0 \/ c.at >= Size(c.heap)
           \/ time[NodeAt(c.heap, c.at)] >= time[NodeAt(c.heap, Parent(c.at))]
        THEN c
        ELSE [heap |-> Swapped(c.heap, c.at, Parent(c.at)), at |-> Parent(c.at)]
  BY DEF UpCall
<1>3. ASSUME ~ (c.at <= 0), ~ (c.at >= Size(c.heap))
      PROVE  /\ c.at \in 1 .. Size(c.heap) - 1
             /\ Parent(c.at) \in 0 .. Size(c.heap) - 1 /\ Parent(c.at) < c.at
  <2>1. c.at \in Nat \ {0} /\ c.at \in 1 .. Size(c.heap) - 1
    BY <1>1, <1>3
  <2> QED
    BY <1>1, <2>1, ParentFacts
<1> QED
  BY <1>2, <1>3 DEF UpEnds

\* Child is the smallest of a node and its children.
LEMMA ChildFacts ==
    ASSUME NEW heap \in Heaps, NEW time \in [Infos -> Int], NEW i \in 0 .. Size(heap) - 1
    PROVE  LET least == Child(heap, time, i)
           IN  /\ least \in 0 .. Size(heap) - 1
               /\ least # i => /\ (least = 2 * i + 1 \/ least = 2 * i + 2)
                               /\ time[NodeAt(heap, least)] < time[NodeAt(heap, i)]
               /\ \A j \in {2 * i + 1, 2 * i + 2} : j < Size(heap) =>
                      time[NodeAt(heap, least)] <= time[NodeAt(heap, j)]
<1> DEFINE n == Size(heap)
           t(j) == time[NodeAt(heap, j)]
           Smaller(j, k) == IF k < n /\ t(k) < t(j) THEN k ELSE j
<1>1. n \in Nat /\ i \in 0 .. n - 1 /\ \A j \in 0 .. n - 1 : NodeAt(heap, j) \in Infos
  BY HeapFacts
<1>2. \A j \in 0 .. n - 1 : t(j) \in Int
  BY <1>1
<1>3. Child(heap, time, i) = Smaller(Smaller(i, 2 * i + 1), 2 * i + 2)
  BY DEF Child
<1> HIDE DEF n, t
<1>4. \A j \in {2 * i + 1, 2 * i + 2} : j < n => j \in 0 .. n - 1 /\ j # i
  BY <1>1
<1>5. /\ Smaller(i, 2 * i + 1) \in {i, 2 * i + 1} \cap (0 .. n - 1)
      /\ t(Smaller(i, 2 * i + 1)) <= t(i)
      /\ Smaller(i, 2 * i + 1) # i => t(Smaller(i, 2 * i + 1)) < t(i)
      /\ 2 * i + 1 < n => t(Smaller(i, 2 * i + 1)) <= t(2 * i + 1)
  BY <1>1, <1>2, <1>4
<1> DEFINE m == Smaller(i, 2 * i + 1)
           least == Smaller(m, 2 * i + 2)
<1>6. /\ m \in 0 .. n - 1 /\ (m = i \/ m = 2 * i + 1)
      /\ t(m) \in Int /\ t(i) \in Int /\ t(m) <= t(i) /\ (m # i => t(m) < t(i))
      /\ 2 * i + 1 < n => t(m) <= t(2 * i + 1) /\ t(2 * i + 1) \in Int
      /\ 2 * i + 2 < n => 2 * i + 2 \in 0 .. n - 1 /\ t(2 * i + 2) \in Int /\ 2 * i + 2 # i
      /\ n \in Nat /\ i \in 0 .. n - 1
  BY <1>1, <1>2, <1>4, <1>5
<1> HIDE DEF m
<1>7. /\ least \in 0 .. n - 1
      /\ least # i => (least = 2 * i + 1 \/ least = 2 * i + 2) /\ t(least) < t(i)
      /\ 2 * i + 1 < n => t(least) <= t(2 * i + 1)
      /\ 2 * i + 2 < n => t(least) <= t(2 * i + 2)
  BY <1>6
<1>8. Child(heap, time, i) = least
  BY <1>3 DEF m
<1> HIDE DEF least
<1> QED
  BY <1>7, <1>8 DEF n, t

DownEnds(c, time) ==
    c.at < 0 \/ c.at >= Size(c.heap) \/ Child(c.heap, time, c.at) = c.at

\* A call of HeapDown swaps a node with its smallest child, or ends.
LEMMA DownCallStep ==
    ASSUME NEW time \in [Infos -> Int], NEW c \in Calls
    PROVE  LET smallest == Child(c.heap, time, c.at)
           IN  \/ DownEnds(c, time) /\ DownCall(time)[c] = c
               \/ /\ ~ DownEnds(c, time)
                  /\ c.at \in 0 .. Size(c.heap) - 1
                  /\ smallest \in 0 .. Size(c.heap) - 1 /\ smallest > c.at
                  /\ DownCall(time)[c] = [heap |-> Swapped(c.heap, c.at, smallest), at |-> smallest]
<1> DEFINE smallest == Child(c.heap, time, c.at)
<1>1. c.heap \in Heaps /\ c.at \in Int /\ Size(c.heap) \in Nat
  BY HeapFacts DEF Calls
<1>2. DownCall(time)[c] =
        IF c.at < 0 \/ c.at >= Size(c.heap) THEN c
        ELSE IF smallest = c.at THEN c
             ELSE [heap |-> Swapped(c.heap, c.at, smallest), at |-> smallest]
  BY DEF DownCall
<1>3. ASSUME ~ (c.at < 0), ~ (c.at >= Size(c.heap)), smallest # c.at
      PROVE  /\ c.at \in 0 .. Size(c.heap) - 1
             /\ smallest \in 0 .. Size(c.heap) - 1 /\ smallest > c.at
  <2>1. c.at \in 0 .. Size(c.heap) - 1
    BY <1>1, <1>3
  <2>2. /\ smallest \in 0 .. Size(c.heap) - 1
        /\ smallest = 2 * c.at + 1 \/ smallest = 2 * c.at + 2
    BY <1>1, <1>3, <2>1, ChildFacts
  <2> QED
    BY <2>1, <2>2
<1> HIDE DEF smallest
<1> QED
  BY <1>2, <1>3 DEF DownEnds, smallest

LEMMA UpRearranges ==
    ASSUME NEW heap \in Heaps, NEW time, NEW i \in Int
    PROVE  Rearranged(HeapUp(heap, time, i), heap)
<1> DEFINE Good == {c \in Calls : Rearranged(c.heap, heap)}
           T == [k \in Nat |-> Good]
           start == [heap |-> heap, at |-> i]
           n == Size(heap)
<1>1. n \in Nat
  BY HeapFacts
<1>2. start \in Good
  BY RearrangedReflexive DEF Calls
<1>3. ASSUME NEW c \in Good PROVE UpCall(time)[c] \in Good
  <2>1. c \in Calls /\ Rearranged(c.heap, heap) /\ c.heap \in Heaps
    BY DEF Calls
  <2>2. CASE UpCall(time)[c] = c
    BY <2>2
  <2>3. CASE /\ c.at \in 0 .. Size(c.heap) - 1 /\ Parent(c.at) \in 0 .. Size(c.heap) - 1
             /\ UpCall(time)[c] =
                    [heap |-> Swapped(c.heap, c.at, Parent(c.at)), at |-> Parent(c.at)]
    <3>1. Rearranged(Swapped(c.heap, c.at, Parent(c.at)), c.heap)
      BY <2>1, <2>3, SwapRearranges
    <3>2. /\ Rearranged(Swapped(c.heap, c.at, Parent(c.at)), heap)
          /\ Swapped(c.heap, c.at, Parent(c.at)) \in Heaps
      BY <2>1, <3>1, RearrangedTransitive DEF Rearranged
    <3>3. Parent(c.at) \in Int
      BY <2>3
    <3> QED
      BY <2>3, <3>2, <3>3 DEF Calls
  <2>4. c.at \in 1 .. Size(c.heap) - 1 => c.at \in 0 .. Size(c.heap) - 1
    BY <2>1, HeapFacts DEF Calls
  <2> QED
    BY <2>1, <2>2, <2>3, <2>4, UpCallStep
<1>4. Iterate(UpCall(time), start, n) \in T[n]
  <2> HIDE DEF start, n, Good
  <2>1. start \in T[0] /\ \A k \in 0 .. n - 1 : \A c \in T[k] : UpCall(time)[c] \in T[k + 1]
    BY <1>1, <1>2, <1>3
  <2> HIDE DEF T
  <2> QED
    BY <1>1, <2>1, IterateInduction
<1> QED
  BY <1>1, <1>4 DEF HeapUp

LEMMA DownRearranges ==
    ASSUME NEW heap \in Heaps, NEW time \in [Infos -> Int], NEW i \in Int
    PROVE  Rearranged(HeapDown(heap, time, i), heap)
<1> DEFINE Good == {c \in Calls : Rearranged(c.heap, heap)}
           T == [k \in Nat |-> Good]
           start == [heap |-> heap, at |-> i]
           n == Size(heap)
<1>1. n \in Nat
  BY HeapFacts
<1>2. start \in Good
  BY RearrangedReflexive DEF Calls
<1>3. ASSUME NEW c \in Good PROVE DownCall(time)[c] \in Good
  <2> DEFINE smallest == Child(c.heap, time, c.at)
  <2>1. c \in Calls /\ Rearranged(c.heap, heap) /\ c.heap \in Heaps
    BY DEF Calls
  <2>2. CASE DownCall(time)[c] = c
    BY <2>2
  <2>3. CASE /\ c.at \in 0 .. Size(c.heap) - 1 /\ smallest \in 0 .. Size(c.heap) - 1
             /\ DownCall(time)[c] = [heap |-> Swapped(c.heap, c.at, smallest), at |-> smallest]
    <3> HIDE DEF smallest
    <3>1. Rearranged(Swapped(c.heap, c.at, smallest), c.heap)
      BY <2>1, <2>3, SwapRearranges
    <3>2. /\ Rearranged(Swapped(c.heap, c.at, smallest), heap)
          /\ Swapped(c.heap, c.at, smallest) \in Heaps
      BY <2>1, <3>1, RearrangedTransitive DEF Rearranged
    <3>3. smallest \in Int
      BY <2>3
    <3> QED
      BY <2>3, <3>2, <3>3 DEF Calls
  <2> QED
    BY <2>1, <2>2, <2>3, DownCallStep
<1>4. Iterate(DownCall(time), start, n) \in T[n]
  <2> HIDE DEF start, n, Good
  <2>1. start \in T[0] /\ \A k \in 0 .. n - 1 : \A c \in T[k] : DownCall(time)[c] \in T[k + 1]
    BY <1>1, <1>2, <1>3
  <2> HIDE DEF T
  <2> QED
    BY <1>1, <2>1, IterateInduction
<1> QED
  BY <1>1, <1>4 DEF HeapDown

----------------------------------------------------------------------------
(* The order of the heap *)

TimeAt(heap, time, i) == time[NodeAt(heap, i)]

InOrder(heap, time, i) == TimeAt(heap, time, Parent(i)) <= TimeAt(heap, time, i)

Ordered(heap, time) == \A i \in 1 .. Size(heap) - 1 : InOrder(heap, time, i)

\* The children of the node at i are in order with the parent of that node.
Bridged(heap, time, i) ==
    i > 0 => \A j \in 1 .. Size(heap) - 1 :
                 Parent(j) = i => TimeAt(heap, time, Parent(i)) <= TimeAt(heap, time, j)

\* Only the node at i may be out of order, with its parent ...
OrderedButUp(heap, time, i) ==
    /\ \A j \in 1 .. Size(heap) - 1 : j # i => InOrder(heap, time, j)
    /\ Bridged(heap, time, i)

\* ... or with its children.
OrderedButDown(heap, time, i) ==
    /\ \A j \in 1 .. Size(heap) - 1 : Parent(j) # i => InOrder(heap, time, j)
    /\ Bridged(heap, time, i)

LEMMA TimeFacts ==
    ASSUME NEW heap \in Heaps, NEW time \in [Infos -> Int]
    PROVE  \A i \in 0 .. Size(heap) - 1 : TimeAt(heap, time, i) \in Int
  BY HeapFacts DEF TimeAt

LEMMA SwapTimes ==
    ASSUME NEW heap \in Heaps, NEW time,
           NEW i \in 0 .. Size(heap) - 1, NEW j \in 0 .. Size(heap) - 1
    PROVE  LET new == Swapped(heap, i, j)
           IN  /\ Size(new) = Size(heap)
               /\ TimeAt(new, time, i) = TimeAt(heap, time, j)
               /\ TimeAt(new, time, j) = TimeAt(heap, time, i)
               /\ \A k \in 0 .. Size(heap) - 1 :
                      k # i /\ k # j => TimeAt(new, time, k) = TimeAt(heap, time, k)
  BY SwapNodes DEF TimeAt

LEMMA ParentBelow ==
    ASSUME NEW n \in Nat, NEW j \in 1 .. n - 1
    PROVE  Parent(j) \in 0 .. n - 1 /\ Parent(j) < j /\ j \in 0 .. n - 1
<1>1. j \in Nat \ {0} /\ j \in 0 .. n - 1
  OBVIOUS
<1> QED
  BY <1>1, ParentFacts

LEMMA SwapUpOrdered ==
    ASSUME NEW heap \in Heaps, NEW time \in [Infos -> Int],
           NEW i \in 1 .. Size(heap) - 1, OrderedButUp(heap, time, i),
           ~ (TimeAt(heap, time, i) >= TimeAt(heap, time, Parent(i)))
    PROVE  OrderedButUp(Swapped(heap, i, Parent(i)), time, Parent(i))
<1> DEFINE n == Size(heap)
           p == Parent(i)
           new == Swapped(heap, i, p)
           old(j) == TimeAt(heap, time, j)
           at(j) == TimeAt(new, time, j)
<1>1. n \in Nat /\ i \in 1 .. n - 1 /\ i \in 0 .. n - 1 /\ p \in 0 .. n - 1 /\ p < i
  <2>1. n \in Nat /\ i \in 1 .. n - 1
    BY HeapFacts
  <2> HIDE DEF n
  <2> QED
    BY <2>1, ParentBelow
<1>2. \A j \in 0 .. n - 1 : old(j) \in Int
  BY TimeFacts
<1>3. /\ Size(new) = n /\ at(i) = old(p) /\ at(p) = old(i)
      /\ \A k \in 0 .. n - 1 : k # i /\ k # p => at(k) = old(k)
  BY <1>1, SwapTimes
<1>4. \A j \in 1 .. n - 1 : Parent(j) \in 0 .. n - 1 /\ Parent(j) < j /\ j \in 0 .. n - 1
  <2> HIDE DEF n
  <2> QED
    BY <1>1, ParentBelow
<1>5. /\ \A j \in 1 .. n - 1 : j # i => old(Parent(j)) <= old(j)
      /\ \A j \in 1 .. n - 1 : Parent(j) = i => old(p) <= old(j)
      /\ old(i) < old(p)
  <2>1. i > 0
    BY <1>1
  <2> QED
    BY <1>1, <1>2, <2>1 DEF OrderedButUp, InOrder, Bridged
<1> HIDE DEF n, new, old, at
<1>6. ASSUME NEW j \in 1 .. n - 1, j # p PROVE at(Parent(j)) <= at(j)
  <2>1. /\ Parent(j) \in 0 .. n - 1 /\ Parent(j) < j /\ j \in 0 .. n - 1
        /\ old(Parent(j)) \in Int /\ old(j) \in Int /\ old(p) \in Int /\ old(i) \in Int
    BY <1>1, <1>2, <1>4
  <2>2. CASE j = i
    BY <1>3, <1>5, <2>1, <2>2
  <2>3. CASE j # i /\ Parent(j) = i
    BY <1>3, <1>5, <1>6, <2>1, <2>3
  <2>4. CASE j # i /\ Parent(j) = p
    <3>1. at(j) = old(j) /\ old(p) <= old(j)
      BY <1>3, <1>5, <1>6, <2>1, <2>4
    <3> QED
      BY <1>3, <1>5, <2>1, <2>4, <3>1
  <2>5. CASE j # i /\ Parent(j) # i /\ Parent(j) # p
    BY <1>3, <1>5, <1>6, <2>1, <2>5
  <2> QED
    BY <2>2, <2>3, <2>4, <2>5
<1>7. ASSUME p > 0, NEW j \in 1 .. n - 1, Parent(j) = p PROVE at(Parent(p)) <= at(j)
  <2>1. /\ p \in 1 .. n - 1 /\ Parent(p) \in 0 .. n - 1 /\ Parent(p) < p
        /\ j \in 0 .. n - 1 /\ p < j
        /\ old(Parent(p)) \in Int /\ old(p) \in Int /\ old(j) \in Int
    <3>1. p \in 1 .. n - 1
      BY <1>1, <1>7
    <3> QED
      BY <1>1, <1>2, <1>4, <1>7, <3>1
  <2>2. at(Parent(p)) = old(Parent(p)) /\ old(Parent(p)) <= old(p)
    BY <1>1, <1>3, <1>5, <2>1
  <2>3. CASE j = i
    BY <1>3, <2>2, <2>3
  <2>4. CASE j # i
    <3>1. at(j) = old(j) /\ old(p) <= old(j)
      BY <1>3, <1>5, <1>7, <2>1, <2>4
    <3> QED
      BY <2>1, <2>2, <3>1
  <2> QED
    BY <2>3, <2>4
<1> QED
  BY <1>3, <1>6, <1>7 DEF OrderedButUp, InOrder, Bridged, n, new, at

LEMMA SwapDownOrdered ==
    ASSUME NEW heap \in Heaps, NEW time \in [Infos -> Int],
           NEW i \in 0 .. Size(heap) - 1, OrderedButDown(heap, time, i),
           Child(heap, time, i) # i
    PROVE  OrderedButDown(Swapped(heap, i, Child(heap, time, i)), time, Child(heap, time, i))
<1> DEFINE n == Size(heap)
           c == Child(heap, time, i)
           new == Swapped(heap, i, c)
           old(j) == TimeAt(heap, time, j)
           at(j) == TimeAt(new, time, j)
<1>1. /\ n \in Nat /\ i \in 0 .. n - 1 /\ c \in 0 .. n - 1 /\ (c = 2 * i + 1 \/ c = 2 * i + 2)
      /\ old(c) < old(i)
      /\ \A j \in {2 * i + 1, 2 * i + 2} : j < n => old(c) <= old(j)
  BY HeapFacts, ChildFacts DEF TimeAt
<1>2. \A j \in 0 .. n - 1 : old(j) \in Int
  BY TimeFacts
<1>3. /\ Size(new) = n /\ at(i) = old(c) /\ at(c) = old(i)
      /\ \A k \in 0 .. n - 1 : k # i /\ k # c => at(k) = old(k)
  BY <1>1, SwapTimes
<1>4. \A j \in 1 .. n - 1 : Parent(j) \in 0 .. n - 1 /\ Parent(j) < j /\ j \in 0 .. n - 1
  <2> HIDE DEF n
  <2> QED
    BY <1>1, ParentBelow
<1>5. /\ \A j \in 1 .. n - 1 : Parent(j) # i => old(Parent(j)) <= old(j)
      /\ i > 0 => \A j \in 1 .. n - 1 : Parent(j) = i => old(Parent(i)) <= old(j)
  BY DEF OrderedButDown, InOrder, Bridged
<1> HIDE DEF n, c, new, old, at
<1>6. /\ c \in 1 .. n - 1 /\ i < c /\ Parent(c) = i
      /\ \A j \in 1 .. n - 1 : Parent(j) = i => old(c) <= old(j)
  <2>1. c \in 1 .. n - 1 /\ i < c
    BY <1>1
  <2>2. Parent(c) = i
    BY <1>1, ParentFacts
  <2>3. ASSUME NEW j \in 1 .. n - 1, Parent(j) = i PROVE old(c) <= old(j)
    <3>1. j \in {2 * i + 1, 2 * i + 2} /\ j < n
      BY <1>1, <2>3, ParentFacts
    <3> QED
      BY <1>1, <3>1
  <2> QED
    BY <2>1, <2>2, <2>3
<1>7. ASSUME NEW j \in 1 .. n - 1, Parent(j) # c PROVE at(Parent(j)) <= at(j)
  <2>1. /\ Parent(j) \in 0 .. n - 1 /\ Parent(j) < j /\ j \in 0 .. n - 1
        /\ old(Parent(j)) \in Int /\ old(j) \in Int /\ old(c) \in Int /\ old(i) \in Int
    BY <1>1, <1>2, <1>4
  <2>2. CASE j = c
    BY <1>1, <1>3, <1>6, <2>1, <2>2
  <2>3. CASE j # c /\ Parent(j) = i
    <3>1. at(j) = old(j) /\ old(c) <= old(j)
      BY <1>1, <1>3, <1>6, <2>1, <2>3
    <3> QED
      BY <1>3, <2>3, <3>1
  <2>4. CASE j = i
    <3>1. i > 0 /\ old(Parent(i)) <= old(c) /\ Parent(i) # i
      BY <1>1, <1>5, <1>6, <2>1, <2>4
    <3>2. at(Parent(i)) = old(Parent(i))
      BY <1>3, <1>7, <2>1, <2>4, <3>1
    <3> QED
      BY <1>3, <2>4, <3>1, <3>2
  <2>5. CASE j # c /\ j # i /\ Parent(j) # i
    BY <1>3, <1>5, <1>7, <2>1, <2>5
  <2> QED
    BY <2>2, <2>3, <2>4, <2>5
<1>8. ASSUME c > 0, NEW j \in 1 .. n - 1, Parent(j) = c PROVE at(Parent(c)) <= at(j)
  <2>1. j \in 0 .. n - 1 /\ c < j /\ j # i /\ Parent(j) # i
    BY <1>1, <1>4, <1>6, <1>8
  <2>2. old(c) <= old(j) /\ at(j) = old(j)
    BY <1>3, <1>5, <1>8, <2>1
  <2> QED
    BY <1>3, <1>6, <2>2
<1> QED
  BY <1>3, <1>7, <1>8 DEF OrderedButDown, InOrder, Bridged, n, c, new, at

LEMMA UpEndsOrdered ==
    ASSUME NEW c \in Calls, NEW time \in [Infos -> Int],
           OrderedButUp(c.heap, time, c.at), UpEnds(c, time)
    PROVE  Ordered(c.heap, time)
<1> SUFFICES ASSUME NEW j \in 1 .. Size(c.heap) - 1 PROVE InOrder(c.heap, time, j)
  BY DEF Ordered
<1>1. c.heap \in Heaps /\ c.at \in Int /\ Size(c.heap) \in Nat
  BY HeapFacts DEF Calls
<1>2. CASE j # c.at
  BY <1>2 DEF OrderedButUp
<1>3. CASE j = c.at
  <2>1. TimeAt(c.heap, time, j) >= TimeAt(c.heap, time, Parent(j))
    BY <1>1, <1>3 DEF UpEnds, TimeAt
  <2>2. TimeAt(c.heap, time, j) \in Int /\ TimeAt(c.heap, time, Parent(j)) \in Int
    BY <1>1, ParentBelow, TimeFacts
  <2> QED
    BY <2>1, <2>2 DEF InOrder
<1> QED
  BY <1>2, <1>3

LEMMA DownEndsOrdered ==
    ASSUME NEW c \in Calls, NEW time \in [Infos -> Int],
           OrderedButDown(c.heap, time, c.at), DownEnds(c, time)
    PROVE  Ordered(c.heap, time)
<1> SUFFICES ASSUME NEW j \in 1 .. Size(c.heap) - 1 PROVE InOrder(c.heap, time, j)
  BY DEF Ordered
<1>1. c.heap \in Heaps /\ c.at \in Int /\ Size(c.heap) \in Nat
  BY HeapFacts DEF Calls
<1>2. CASE Parent(j) # c.at
  BY <1>2 DEF OrderedButDown
<1>3. CASE Parent(j) = c.at
  <2>1. c.at \in 0 .. Size(c.heap) - 1
    BY <1>1, <1>3, ParentBelow
  <2>2. Child(c.heap, time, c.at) = c.at
    BY <1>1, <2>1 DEF DownEnds
  <2>3. j \in {2 * c.at + 1, 2 * c.at + 2} /\ j < Size(c.heap)
    BY <1>1, <1>3, ParentFacts
  <2> QED
    BY <1>1, <1>3, <2>1, <2>2, <2>3, ChildFacts DEF InOrder, TimeAt
<1> QED
  BY <1>2, <1>3

\* HeapUp puts a heap in order in which one node may be too old for its place.
LEMMA UpOrders ==
    ASSUME NEW heap \in Heaps, NEW time \in [Infos -> Int], NEW i \in Int,
           OrderedButUp(heap, time, i)
    PROVE  Ordered(HeapUp(heap, time, i), time)
<1> DEFINE n == Size(heap)
           Good(k) == {c \in Calls : /\ Size(c.heap) = n
                                     /\ OrderedButUp(c.heap, time, c.at)
                                     /\ UpEnds(c, time) \/ c.at < n - k}
           T == [k \in Nat |-> Good(k)]
           start == [heap |-> heap, at |-> i]
<1>1. n \in Nat
  BY HeapFacts
<1>2. start \in Good(0)
  <2>1. start \in Calls /\ start.heap = heap /\ start.at = i
    BY DEF Calls
  <2>2. UpEnds(start, time) \/ i < n - 0
    BY <1>1, <2>1 DEF UpEnds
  <2> QED
    BY <2>1, <2>2
<1>3. ASSUME NEW k \in 0 .. n - 1, NEW c \in Good(k) PROVE UpCall(time)[c] \in Good(k + 1)
  <2>1. /\ c \in Calls /\ c.heap \in Heaps /\ c.at \in Int /\ Size(c.heap) = n
        /\ OrderedButUp(c.heap, time, c.at)
        /\ UpEnds(c, time) \/ c.at < n - k
    BY DEF Calls
  <2>2. CASE UpEnds(c, time) /\ UpCall(time)[c] = c
    BY <2>1, <2>2
  <2>3. CASE ~ UpEnds(c, time)
    <3> DEFINE p == Parent(c.at)
               new == Swapped(c.heap, c.at, p)
    <3>1. /\ c.at \in 1 .. n - 1 /\ p \in 0 .. n - 1 /\ p < c.at
          /\ ~ (TimeAt(c.heap, time, c.at) >= TimeAt(c.heap, time, p))
          /\ UpCall(time)[c] = [heap |-> new, at |-> p]
      BY <2>1, <2>3, UpCallStep DEF TimeAt
    <3>2. OrderedButUp(new, time, p)
      BY <2>1, <3>1, SwapUpOrdered
    <3>3. new \in Heaps /\ Size(new) = n
      <4>1. c.at \in 0 .. Size(c.heap) - 1 /\ p \in 0 .. Size(c.heap) - 1
        BY <1>1, <2>1, <3>1
      <4> QED
        BY <2>1, <4>1, SwapNodes
    <3>4. p \in Int /\ p < n - (k + 1)
      <4>1. c.at < n - k
        BY <2>1, <2>3
      <4> QED
        BY <1>1, <2>1, <3>1, <4>1
    <3> HIDE DEF p, new
    <3> QED
      BY <3>1, <3>2, <3>3, <3>4 DEF Calls
  <2> QED
    BY <2>1, <2>2, <2>3, UpCallStep
<1> DEFINE end == Iterate(UpCall(time), start, n)
<1>4. end \in T[n]
  <2> HIDE DEF start, n, Good, end
  <2>1. start \in T[0] /\ \A k \in 0 .. n - 1 : \A c \in T[k] : UpCall(time)[c] \in T[k + 1]
    BY <1>1, <1>2, <1>3
  <2> HIDE DEF T
  <2> QED
    BY <1>1, <2>1, IterateInduction DEF end
<1>5. /\ end \in Calls /\ OrderedButUp(end.heap, time, end.at)
      /\ UpEnds(end, time) \/ end.at < n - n
  BY <1>1, <1>4
<1> HIDE DEF end
<1>6. UpEnds(end, time)
  <2>1. end.at \in Int
    BY <1>5 DEF Calls
  <2> QED
    BY <1>1, <1>5, <2>1 DEF UpEnds
<1>7. Ordered(end.heap, time)
  BY <1>5, <1>6, UpEndsOrdered
<1> QED
  BY <1>7 DEF HeapUp, end

\* HeapDown puts a heap in order in which one node may be too young for its place.
LEMMA DownOrders ==
    ASSUME NEW heap \in Heaps, NEW time \in [Infos -> Int], NEW i \in Int,
           OrderedButDown(heap, time, i)
    PROVE  Ordered(HeapDown(heap, time, i), time)
<1> DEFINE n == Size(heap)
           Good(k) == {c \in Calls : /\ Size(c.heap) = n
                                     /\ OrderedButDown(c.heap, time, c.at)
                                     /\ DownEnds(c, time) \/ c.at >= k}
           T == [k \in Nat |-> Good(k)]
           start == [heap |-> heap, at |-> i]
<1>1. n \in Nat
  BY HeapFacts
<1>2. start \in Good(0)
  <2>1. start \in Calls /\ start.heap = heap /\ start.at = i
    BY DEF Calls
  <2>2. DownEnds(start, time) \/ i >= 0
    BY <1>1, <2>1 DEF DownEnds
  <2> QED
    BY <2>1, <2>2
<1>3. ASSUME NEW k \in 0 .. n - 1, NEW c \in Good(k) PROVE DownCall(time)[c] \in Good(k + 1)
  <2>1. /\ c \in Calls /\ c.heap \in Heaps /\ c.at \in Int /\ Size(c.heap) = n
        /\ OrderedButDown(c.heap, time, c.at)
        /\ DownEnds(c, time) \/ c.at >= k
    BY DEF Calls
  <2>2. CASE DownEnds(c, time) /\ DownCall(time)[c] = c
    BY <2>1, <2>2
  <2>3. CASE ~ DownEnds(c, time)
    <3> DEFINE m == Child(c.heap, time, c.at)
               new == Swapped(c.heap, c.at, m)
    <3>1. /\ c.at \in 0 .. n - 1 /\ m \in 0 .. n - 1 /\ m > c.at /\ m # c.at
          /\ DownCall(time)[c] = [heap |-> new, at |-> m]
      BY <1>1, <2>1, <2>3, DownCallStep
    <3>2. OrderedButDown(new, time, m)
      BY <2>1, <3>1, SwapDownOrdered
    <3>3. new \in Heaps /\ Size(new) = n
      <4> HIDE DEF m
      <4> QED
        BY <2>1, <3>1, SwapNodes DEF new
    <3>4. m \in Int /\ m >= k + 1
      <4>1. c.at >= k
        BY <2>1, <2>3
      <4> HIDE DEF m
      <4> QED
        BY <1>1, <2>1, <3>1, <4>1
    <3> HIDE DEF m, new
    <3> QED
      BY <3>1, <3>2, <3>3, <3>4 DEF Calls
  <2> QED
    BY <2>1, <2>2, <2>3, DownCallStep
<1> DEFINE end == Iterate(DownCall(time), start, n)
<1>4. end \in T[n]
  <2> HIDE DEF start, n, Good, end
  <2>1. start \in T[0] /\ \A k \in 0 .. n - 1 : \A c \in T[k] : DownCall(time)[c] \in T[k + 1]
    BY <1>1, <1>2, <1>3
  <2> HIDE DEF T
  <2> QED
    BY <1>1, <2>1, IterateInduction DEF end
<1>5. /\ end \in Calls /\ OrderedButDown(end.heap, time, end.at) /\ Size(end.heap) = n
      /\ DownEnds(end, time) \/ end.at >= n
  BY <1>1, <1>4
<1> HIDE DEF end
<1>6. DownEnds(end, time)
  BY <1>5 DEF DownEnds
<1>7. Ordered(end.heap, time)
  BY <1>5, <1>6, DownEndsOrdered
<1> QED
  BY <1>7 DEF HeapDown, end

----------------------------------------------------------------------------
(* The operations of the heap *)

LEMMA RangeOfNodes ==
    ASSUME NEW heap \in Heaps
    PROVE  ToSet(heap.nodes) = {NodeAt(heap, i) : i \in 0 .. Size(heap) - 1}
<1>1. DOMAIN heap.nodes = 1 .. Size(heap) /\ Size(heap) \in Nat
  BY HeapFacts
<1>2. ASSUME NEW k \in 1 .. Size(heap)
      PROVE  heap.nodes[k] \in {NodeAt(heap, i) : i \in 0 .. Size(heap) - 1}
  <2>1. k - 1 \in 0 .. Size(heap) - 1 /\ k - 1 + 1 = k
    BY <1>1
  <2> QED
    BY <2>1 DEF NodeAt
<1>3. ASSUME NEW i \in 0 .. Size(heap) - 1
      PROVE  NodeAt(heap, i) \in {heap.nodes[k] : k \in 1 .. Size(heap)}
  <2>1. i + 1 \in 1 .. Size(heap)
    BY <1>1
  <2> QED
    BY <2>1 DEF NodeAt
<1> QED
  BY <1>1, <1>2, <1>3 DEF ToSet

\* The order looks at the times of the nodes only.
LEMMA OrderedByNodes ==
    ASSUME NEW heap \in Heaps, NEW time, NEW other,
           \A x \in ToSet(heap.nodes) : other[x] = time[x]
    PROVE  Ordered(heap, time) => Ordered(heap, other)
<1>1. \A i \in 0 .. Size(heap) - 1 : TimeAt(heap, other, i) = TimeAt(heap, time, i)
  BY RangeOfNodes DEF TimeAt
<1>2. \A i \in 1 .. Size(heap) - 1 : i \in 0 .. Size(heap) - 1 /\ Parent(i) \in 0 .. Size(heap) - 1
  BY HeapFacts, ParentBelow
<1> QED
  BY <1>1, <1>2 DEF Ordered, InOrder

LEMMA PushFacts ==
    ASSUME NEW heap \in Heaps, NEW time \in [Infos -> Int], NEW x \in Infos
    PROVE  LET new == Push(heap, time, x)
           IN  /\ new \in Heaps
               /\ ToSet(new.nodes) = ToSet(heap.nodes) \cup {x}
               /\ Pointing(heap) => Pointing(new)
               /\ Injective(new.nodes) =>
                      Injective(heap.nodes) /\ x \notin ToSet(heap.nodes)
               /\ Indexed(heap) /\ x \notin ToSet(heap.nodes) => Indexed(new)
               /\ Ordered(heap, time) => Ordered(new, time)
<1> DEFINE n == Size(heap)
           mid == [nodes |-> Append(heap.nodes, x), index |-> [heap.index EXCEPT ![x] = n]]
           new == Push(heap, time, x)
<1>1. /\ n \in Nat /\ heap.nodes \in Seq(Infos) /\ Len(heap.nodes) = n
      /\ heap.index \in [Infos -> Int]
      /\ \A i \in 0 .. n - 1 : NodeAt(heap, i) \in Infos
  BY HeapFacts
<1>2. /\ mid.nodes = Append(heap.nodes, x) /\ mid.index = [heap.index EXCEPT ![x] = n]
      /\ mid.nodes \in Seq(Infos) /\ Len(mid.nodes) = n + 1
      /\ mid.nodes[n + 1] = x
      /\ \A i \in 1 .. n : mid.nodes[i] = heap.nodes[i]
  BY <1>1, AppendProperties
<1>3. new = HeapUp(mid, time, n)
  BY DEF Push
<1>4. mid \in Heaps /\ Size(mid) = n + 1
  BY <1>1, <1>2 DEF Heaps, Size
<1> HIDE DEF mid, n, new
<1>5. NodeAt(mid, n) = x /\ \A i \in 0 .. n - 1 : NodeAt(mid, i) = NodeAt(heap, i)
  <2>1. ASSUME NEW i \in 0 .. n - 1 PROVE NodeAt(mid, i) = NodeAt(heap, i)
    <3>1. i + 1 \in 1 .. n
      BY <1>1
    <3> QED
      BY <1>2, <3>1 DEF NodeAt
  <2> QED
    BY <1>2, <2>1 DEF NodeAt
<1>6. \A y \in Infos : mid.index[y] = IF y = x THEN n ELSE heap.index[y]
  BY <1>1, <1>2
<1>7. 0 .. n = (0 .. n - 1) \cup {n} /\ 0 .. Size(mid) - 1 = 0 .. n /\ n \in 0 .. n
  BY <1>1, <1>4
<1>8. Rearranged(new, mid)
  BY <1>1, <1>3, <1>4, UpRearranges
<1>9. ToSet(mid.nodes) = ToSet(heap.nodes) \cup {x}
  <2>1. ToSet(heap.nodes) = {NodeAt(heap, i) : i \in 0 .. n - 1}
    BY RangeOfNodes DEF n
  <2>2. ToSet(mid.nodes) = {NodeAt(mid, i) : i \in 0 .. n}
    BY <1>4, <1>7, RangeOfNodes
  <2> QED
    BY <1>5, <1>7, <2>1, <2>2
<1>10. ASSUME Pointing(heap) PROVE Pointing(mid)
  <2> SUFFICES ASSUME NEW y \in Infos, mid.index[y] # -1
               PROVE  mid.index[y] \in 0 .. n /\ NodeAt(mid, mid.index[y]) = y
    BY <1>7 DEF Pointing
  <2>1. CASE y = x
    BY <1>5, <1>6, <1>7, <2>1
  <2>2. CASE y # x
    BY <1>5, <1>6, <1>7, <1>10, <2>2 DEF Pointing, n
  <2> QED
    BY <2>1, <2>2
<1>11. ASSUME Injective(mid.nodes) PROVE Injective(heap.nodes) /\ x \notin ToSet(heap.nodes)
  <2>1. \A i, j \in 1 .. n + 1 : mid.nodes[i] = mid.nodes[j] => i = j
    BY <1>2, <1>11 DEF Injective
  <2>2. \A i \in 1 .. n : i \in 1 .. n + 1 /\ i # n + 1 /\ n + 1 \in 1 .. n + 1
    BY <1>1
  <2>3. Injective(heap.nodes)
    BY <1>1, <1>2, <2>1, <2>2 DEF Injective
  <2>4. \A i \in 1 .. n : heap.nodes[i] # x
    BY <1>2, <2>1, <2>2
  <2>5. DOMAIN heap.nodes = 1 .. n
    BY HeapFacts DEF n
  <2> QED
    BY <2>3, <2>4, <2>5 DEF ToSet
<1>12. ASSUME Indexed(heap), x \notin ToSet(heap.nodes) PROVE Indexed(mid)
  <2> SUFFICES ASSUME NEW i \in 0 .. n PROVE mid.index[NodeAt(mid, i)] = i
    BY <1>7 DEF Indexed
  <2>1. CASE i = n
    BY <1>5, <1>6, <2>1
  <2>2. CASE i \in 0 .. n - 1
    <3>1. NodeAt(mid, i) # x
      BY <1>5, <1>12, <2>2, RangeOfNodes DEF n
    <3> QED
      BY <1>1, <1>5, <1>6, <1>12, <2>2, <3>1 DEF Indexed, n
  <2> QED
    BY <1>7, <2>1, <2>2
<1>13. ASSUME Ordered(heap, time) PROVE Ordered(new, time)
  <2>1. ASSUME NEW j \in 1 .. Size(mid) - 1, j # n PROVE InOrder(mid, time, j)
    <3>1. j \in 1 .. n - 1
      BY <1>1, <1>4, <2>1
    <3>2. j \in 0 .. n - 1 /\ Parent(j) \in 0 .. n - 1
      BY <1>1, <3>1, ParentBelow
    <3>3. InOrder(heap, time, j)
      BY <1>13, <3>1 DEF Ordered, n
    <3> QED
      BY <1>5, <3>2, <3>3 DEF InOrder, TimeAt
  <2>2. Bridged(mid, time, n)
    <3>1. ASSUME NEW j \in 1 .. Size(mid) - 1 PROVE Parent(j) # n
      <4> DEFINE m == Size(mid)
      <4>1. m \in Nat /\ m = n + 1 /\ j \in 1 .. m - 1
        BY <1>1, <1>4
      <4> HIDE DEF m
      <4>2. Parent(j) \in 0 .. m - 1 /\ Parent(j) < j
        BY <4>1, ParentBelow
      <4> QED
        BY <1>1, <4>1, <4>2
    <3> QED
      BY <3>1 DEF Bridged
  <2>3. OrderedButUp(mid, time, n)
    BY <2>1, <2>2 DEF OrderedButUp
  <2> QED
    BY <1>1, <1>3, <1>4, <2>3, UpOrders
<1> QED
  BY <1>8, <1>9, <1>10, <1>11, <1>12, <1>13 DEF Rearranged, new

LEMMA PopFacts ==
    ASSUME NEW heap \in Heaps, NEW time \in [Infos -> Int], heap.nodes # <<>>
    PROVE  LET new == Pop(heap, time)
           IN  /\ new \in Heaps
               /\ ToSet(new.nodes) \subseteq ToSet(heap.nodes)
               /\ ToSet(heap.nodes) \subseteq ToSet(new.nodes) \cup {heap.nodes[1]}
               /\ Pointing(heap) => Pointing(new)
               /\ Indexed(heap) => Indexed(new)
               /\ Ordered(heap, time) => Ordered(new, time)
<1> DEFINE n == Size(heap)
           x == heap.nodes[1]
           swapped == Swapped(heap, 0, n - 1)
           mid == [nodes |-> Front(swapped.nodes), index |-> [swapped.index EXCEPT ![x] = -1]]
           new == Pop(heap, time)
<1>1. /\ n \in Nat /\ heap.nodes \in Seq(Infos) /\ Len(heap.nodes) = n
      /\ \A i \in 0 .. n - 1 : NodeAt(heap, i) \in Infos
  BY HeapFacts
<1>2. n > 0 /\ 0 \in 0 .. n - 1 /\ n - 1 \in 0 .. n - 1
  BY <1>1, EmptySeq
<1>3. NodeAt(heap, 0) = x /\ x \in Infos
  <2>1. NodeAt(heap, 0) = x
    BY DEF NodeAt
  <2> QED
    BY <1>1, <1>2, <2>1
<1>4. /\ swapped \in Heaps /\ Size(swapped) = n
      /\ NodeAt(swapped, n - 1) = x
      /\ \A i \in 0 .. n - 1 : i # 0 /\ i # n - 1 => NodeAt(swapped, i) = NodeAt(heap, i)
  BY <1>2, <1>3, SwapNodes
<1>5. Rearranged(swapped, heap)
  BY <1>2, SwapRearranges
<1>6. new = HeapDown(mid, time, 0)
  BY DEF Pop
<1> HIDE DEF n, x, swapped, new
<1>7. swapped.nodes \in Seq(Infos) /\ Len(swapped.nodes) = n /\ swapped.index \in [Infos -> Int]
  BY <1>4, HeapFacts
<1>8. /\ Front(swapped.nodes) \in Seq(Infos) /\ Len(Front(swapped.nodes)) = n - 1
      /\ \A i \in 1 .. n - 1 : Front(swapped.nodes)[i] = swapped.nodes[i]
  <2>1. Front(swapped.nodes) = SubSeq(swapped.nodes, 1, n - 1)
    BY <1>7 DEF Front
  <2>2. /\ SubSeq(swapped.nodes, 1, n - 1) \in Seq(Infos)
        /\ Len(SubSeq(swapped.nodes, 1, n - 1)) = n - 1
        /\ \A i \in 1 .. n - 1 : SubSeq(swapped.nodes, 1, n - 1)[i] = swapped.nodes[i]
    BY <1>1, <1>2, <1>7, SubSeqProperties
  <2> QED
    BY <2>1, <2>2
<1>9. mid \in Heaps /\ Size(mid) = n - 1
  <2> DEFINE entries == Front(swapped.nodes)
             indices == [swapped.index EXCEPT ![x] = -1]
  <2>1. entries \in Seq(Infos) /\ Len(entries) = n - 1
    BY <1>8
  <2>2. indices \in [Infos -> Int]
    <3> DEFINE before == swapped.index
    <3>1. before \in [Infos -> Int] /\ -1 \in Int
      BY <1>7
    <3> HIDE DEF before
    <3>2. [before EXCEPT ![x] = -1] \in [Infos -> Int]
      BY <3>1
    <3> QED
      BY <3>2 DEF before
  <2>3. mid = [nodes |-> entries, index |-> indices]
    OBVIOUS
  <2> HIDE DEF entries, indices, mid
  <2> QED
    BY <2>1, <2>2, <2>3 DEF Heaps, Size
<1>10. \A i \in 0 .. n - 2 : NodeAt(mid, i) = NodeAt(swapped, i)
  <2> SUFFICES ASSUME NEW i \in 0 .. n - 2 PROVE NodeAt(mid, i) = NodeAt(swapped, i)
    OBVIOUS
  <2>1. i + 1 \in 1 .. n - 1
    BY <1>1
  <2> QED
    BY <1>8, <2>1 DEF NodeAt
<1>11. \A y \in Infos : mid.index[y] = IF y = x THEN -1 ELSE swapped.index[y]
  BY <1>7
<1> HIDE DEF mid
<1>12. /\ 0 .. n - 1 = (0 .. n - 2) \cup {n - 1} /\ 0 .. Size(mid) - 1 = 0 .. n - 2
       /\ n - 1 \notin 0 .. n - 2
  BY <1>1, <1>2, <1>9
<1>13. Rearranged(new, mid)
  BY <1>6, <1>9, DownRearranges
<1>14. /\ ToSet(mid.nodes) \subseteq ToSet(heap.nodes)
       /\ ToSet(heap.nodes) \subseteq ToSet(mid.nodes) \cup {x}
  <2>1. ToSet(swapped.nodes) = {NodeAt(swapped, i) : i \in 0 .. n - 1}
    BY <1>4, RangeOfNodes
  <2>2. ToSet(mid.nodes) = {NodeAt(mid, i) : i \in 0 .. n - 2}
    BY <1>9, <1>12, RangeOfNodes
  <2>3. ToSet(swapped.nodes) = ToSet(heap.nodes)
    BY <1>5 DEF Rearranged
  <2> QED
    BY <1>4, <1>10, <1>12, <2>1, <2>2, <2>3
<1>15. ASSUME Pointing(heap) PROVE Pointing(mid)
  <2> SUFFICES ASSUME NEW y \in Infos, mid.index[y] # -1
               PROVE  mid.index[y] \in 0 .. n - 2 /\ NodeAt(mid, mid.index[y]) = y
    BY <1>12 DEF Pointing
  <2>1. y # x /\ mid.index[y] = swapped.index[y]
    BY <1>11
  <2>2. swapped.index[y] \in 0 .. n - 1 /\ NodeAt(swapped, swapped.index[y]) = y
    BY <1>4, <1>5, <1>15, <2>1 DEF Rearranged, Pointing
  <2>3. swapped.index[y] \in 0 .. n - 2
    BY <1>4, <1>12, <2>1, <2>2
  <2> QED
    BY <1>10, <2>1, <2>2, <2>3
<1>16. ASSUME Indexed(heap) PROVE Indexed(mid)
  <2> SUFFICES ASSUME NEW i \in 0 .. n - 2 PROVE mid.index[NodeAt(mid, i)] = i
    BY <1>12 DEF Indexed
  <2>1. \A j \in 0 .. n - 1 : swapped.index[NodeAt(swapped, j)] = j
    BY <1>4, <1>5, <1>16 DEF Rearranged, Indexed
  <2>2. i \in 0 .. n - 1 /\ i # n - 1
    BY <1>12
  <2>3. NodeAt(swapped, i) # x
    BY <1>2, <1>4, <2>1, <2>2
  <2>4. NodeAt(swapped, i) \in Infos
    BY <1>4, <2>2, HeapFacts
  <2> QED
    BY <1>10, <1>11, <2>1, <2>2, <2>3, <2>4
<1>17. ASSUME Ordered(heap, time) PROVE Ordered(new, time)
  <2>1. ASSUME NEW j \in 1 .. Size(mid) - 1, Parent(j) # 0 PROVE InOrder(mid, time, j)
    <3>1. j \in 1 .. n - 1 /\ j \in 0 .. n - 2 /\ j # 0 /\ j # n - 1 /\ j \in 0 .. n - 1
      BY <1>1, <1>9
    <3>2. /\ Parent(j) \in 0 .. n - 1 /\ Parent(j) \in 0 .. n - 2
          /\ Parent(j) # 0 /\ Parent(j) # n - 1
      BY <1>1, <2>1, <3>1, ParentBelow
    <3>3. InOrder(heap, time, j)
      BY <1>17, <3>1 DEF Ordered, n
    <3>4. /\ NodeAt(mid, j) = NodeAt(heap, j)
          /\ NodeAt(mid, Parent(j)) = NodeAt(heap, Parent(j))
      BY <1>4, <1>10, <3>1, <3>2
    <3> QED
      BY <3>3, <3>4 DEF InOrder, TimeAt
  <2>2. OrderedButDown(mid, time, 0)
    BY <2>1 DEF OrderedButDown, Bridged
  <2> QED
    BY <1>6, <1>9, <2>2, DownOrders
<1> QED
  BY <1>13, <1>14, <1>15, <1>16, <1>17 DEF Rearranged, new, x

LEMMA UpdateRearranges ==
    ASSUME NEW heap \in Heaps, NEW time \in [Infos -> Int], NEW x \in Infos,
           NEW isDown \in BOOLEAN
    PROVE  Rearranged(Updated(heap, time, x, isDown), heap)
<1>1. heap.index[x] \in Int
  BY HeapFacts
<1> QED
  BY <1>1, UpRearranges, DownRearranges DEF Updated

\* A node whose time changes is moved to its place, which Update finds by the node's index.
LEMMA UpdateOrders ==
    ASSUME NEW heap \in Heaps, NEW time \in [Infos -> Int], NEW x \in Infos, NEW new \in Int,
           Pointing(heap), Indexed(heap), Ordered(heap, time)
    PROVE  LET other == [time EXCEPT ![x] = new]
           IN  Ordered(Updated(heap, other, x, new > time[x]), other)
<1> DEFINE other == [time EXCEPT ![x] = new]
           n == Size(heap)
           k == heap.index[x]
           old(i) == TimeAt(heap, time, i)
           at(i) == TimeAt(heap, other, i)
<1>1. /\ n \in Nat /\ k \in Int
      /\ \A i \in 0 .. n - 1 : NodeAt(heap, i) \in Infos
  BY HeapFacts
<1>2. other \in [Infos -> Int] /\ \A y \in Infos : other[y] = IF y = x THEN new ELSE time[y]
  OBVIOUS
<1>3. \A i \in 0 .. n - 1 : NodeAt(heap, i) = x <=> i = k
  <2>1. k # -1 => k \in 0 .. n - 1 /\ NodeAt(heap, k) = x
    BY DEF Pointing
  <2>2. \A i \in 0 .. n - 1 : heap.index[NodeAt(heap, i)] = i
    BY DEF Indexed
  <2>3. -1 \notin 0 .. n - 1
    BY <1>1
  <2> QED
    BY <2>1, <2>2, <2>3
<1>4. ASSUME NEW i \in 0 .. n - 1
      PROVE  /\ old(i) \in Int /\ at(i) \in Int
             /\ i # k => at(i) = old(i)
             /\ i = k => old(i) = time[x] /\ at(i) = new
  BY <1>1, <1>2, <1>3 DEF TimeAt
<1>5. ASSUME NEW j \in 1 .. n - 1
      PROVE  /\ Parent(j) \in 0 .. n - 1 /\ Parent(j) < j /\ j \in 0 .. n - 1
             /\ old(Parent(j)) <= old(j)
  <2>1. /\ Parent(j) \in 0 .. n - 1 /\ Parent(j) < j /\ j \in 0 .. n - 1
    <3> HIDE DEF n
    <3> QED
      BY <1>1, ParentBelow
  <2> QED
    BY <2>1 DEF Ordered, InOrder
<1> HIDE DEF other, n, k, old, at
<1>6. ASSUME k > 0, NEW j \in 1 .. n - 1, Parent(j) = k PROVE at(Parent(k)) <= at(j)
  <2>1. /\ k \in 1 .. n - 1 /\ Parent(k) \in 0 .. n - 1 /\ Parent(k) # k /\ j # k
        /\ j \in 0 .. n - 1 /\ k \in 0 .. n - 1
        /\ old(Parent(k)) <= old(k) /\ old(k) <= old(j)
    <3>1. k \in 0 .. n - 1 /\ k < j /\ old(k) <= old(j) /\ j \in 0 .. n - 1
      BY <1>5, <1>6
    <3>2. k \in 1 .. n - 1
      BY <1>1, <1>6, <3>1
    <3> QED
      BY <1>1, <1>5, <3>1, <3>2
  <2>2. /\ at(Parent(k)) = old(Parent(k)) /\ at(j) = old(j)
        /\ old(Parent(k)) \in Int /\ old(j) \in Int /\ old(k) \in Int
    BY <1>4, <2>1
  <2> QED
    BY <2>1, <2>2
<1>7. Bridged(heap, other, k)
  BY <1>6 DEF Bridged, at, n
<1>8. CASE new > time[x]
  <2>1. ASSUME NEW j \in 1 .. n - 1, Parent(j) # k PROVE at(Parent(j)) <= at(j)
    <3>1. /\ Parent(j) \in 0 .. n - 1 /\ j \in 0 .. n - 1 /\ old(Parent(j)) <= old(j)
          /\ at(Parent(j)) = old(Parent(j)) /\ old(j) \in Int /\ old(Parent(j)) \in Int
      BY <1>4, <1>5, <2>1
    <3>2. CASE j = k
      BY <1>2, <1>4, <1>8, <3>1, <3>2
    <3>3. CASE j # k
      BY <1>4, <3>1, <3>3
    <3> QED
      BY <3>2, <3>3
  <2>2. OrderedButDown(heap, other, k)
    BY <1>7, <2>1 DEF OrderedButDown, InOrder, at, n
  <2>3. Updated(heap, other, x, new > time[x]) = HeapDown(heap, other, k)
    BY <1>8 DEF Updated, k
  <2> QED
    BY <1>1, <1>2, <2>2, <2>3, DownOrders DEF other
<1>9. CASE ~ (new > time[x])
  <2>1. ASSUME NEW j \in 1 .. n - 1, j # k PROVE at(Parent(j)) <= at(j)
    <3>1. /\ Parent(j) \in 0 .. n - 1 /\ j \in 0 .. n - 1 /\ old(Parent(j)) <= old(j)
          /\ at(j) = old(j) /\ old(j) \in Int /\ old(Parent(j)) \in Int
      BY <1>4, <1>5, <2>1
    <3>2. CASE Parent(j) = k
      <4>1. old(k) = time[x] /\ at(k) = new /\ time[x] \in Int
        BY <1>4, <3>1, <3>2
      <4> QED
        BY <1>9, <3>1, <3>2, <4>1
    <3>3. CASE Parent(j) # k
      BY <1>4, <3>1, <3>3
    <3> QED
      BY <3>2, <3>3
  <2>2. OrderedButUp(heap, other, k)
    BY <1>7, <2>1 DEF OrderedButUp, InOrder, at, n
  <2>3. Updated(heap, other, x, new > time[x]) = HeapUp(heap, other, k)
    BY <1>9 DEF Updated, k
  <2> QED
    BY <1>1, <1>2, <2>2, <2>3, UpOrders DEF other
<1> QED
  BY <1>8, <1>9

\* The first loop of GetNextShard drops invalid infos only.
LEMMA ValidFacts ==
    ASSUME NEW heap \in Heaps, timestamp \in [Infos -> Int]
    PROVE  /\ Valid(heap) \in Heaps
           /\ ToSet(Valid(heap).nodes) \subseteq ToSet(heap.nodes)
           /\ \A x \in ToSet(heap.nodes) : valid[x] => x \in ToSet(Valid(heap).nodes)
           /\ Pointing(heap) => Pointing(Valid(heap))
           /\ Indexed(heap) => Indexed(Valid(heap))
           /\ Ordered(heap, timestamp) => Ordered(Valid(heap), timestamp)
<1> DEFINE Good == {h \in Heaps :
                      /\ ToSet(h.nodes) \subseteq ToSet(heap.nodes)
                      /\ \A x \in ToSet(heap.nodes) : valid[x] => x \in ToSet(h.nodes)
                      /\ Pointing(heap) => Pointing(h)
                      /\ Indexed(heap) => Indexed(h)
                      /\ Ordered(heap, timestamp) => Ordered(h, timestamp)}
           T == [k \in Nat |-> Good]
           n == Size(heap)
           pass == [h \in Heaps |-> IF h.nodes = <<>> \/ valid[h.nodes[1]] THEN h
                                    ELSE Pop(h, timestamp)]
<1>1. n \in Nat
  BY HeapFacts
<1>2. heap \in Good
  OBVIOUS
<1>3. ASSUME NEW h \in Good PROVE pass[h] \in Good
  <2>1. h \in Heaps /\ pass[h] = IF h.nodes = <<>> \/ valid[h.nodes[1]] THEN h
                                 ELSE Pop(h, timestamp)
    OBVIOUS
  <2>2. CASE h.nodes = <<>> \/ valid[h.nodes[1]]
    BY <2>1, <2>2
  <2>3. CASE h.nodes # <<>> /\ ~ valid[h.nodes[1]]
    <3> DEFINE new == Pop(h, timestamp)
    <3>1. /\ new \in Heaps
          /\ ToSet(new.nodes) \subseteq ToSet(h.nodes)
          /\ ToSet(h.nodes) \subseteq ToSet(new.nodes) \cup {h.nodes[1]}
          /\ Pointing(h) => Pointing(new)
          /\ Indexed(h) => Indexed(new)
          /\ Ordered(h, timestamp) => Ordered(new, timestamp)
      BY <2>1, <2>3, PopFacts
    <3> HIDE DEF new
    <3>2. new \in Good
      BY <2>3, <3>1
    <3> QED
      BY <2>1, <2>3, <3>2 DEF new
  <2> QED
    BY <2>2, <2>3
<1>4. Iterate(pass, heap, n) \in T[n]
  <2> HIDE DEF n, Good, pass
  <2>1. heap \in T[0] /\ \A k \in 0 .. n - 1 : \A h \in T[k] : pass[h] \in T[k + 1]
    BY <1>1, <1>2, <1>3
  <2> HIDE DEF T
  <2> QED
    BY <1>1, <2>1, IterateInduction
<1>5. Valid(heap) = Iterate(pass, heap, n)
  BY DEF Valid
<1>6. Valid(heap) \in Good
  BY <1>1, <1>4, <1>5
<1> QED
  BY <1>6

\* The second pushes the given infos; if no info lies in the heap twice then, they were new.
LEMMA PushAllFacts ==
    ASSUME NEW heap \in Heaps, timestamp \in [Infos -> Int],
           NEW n \in Nat, NEW infos \in [1 .. n -> Infos]
    PROVE  LET new == PushAll(heap, infos)
           IN  /\ new \in Heaps
               /\ ToSet(new.nodes) = ToSet(heap.nodes) \cup {infos[i] : i \in 1 .. n}
               /\ Pointing(heap) => Pointing(new)
               /\ Indexed(heap) /\ Injective(new.nodes) => Indexed(new)
               /\ Ordered(heap, timestamp) => Ordered(new, timestamp)
<1> DEFINE Good(k) == {c \in Calls :
                        /\ c.at = k + 1
                        /\ ToSet(c.heap.nodes) = ToSet(heap.nodes) \cup {infos[i] : i \in 1 .. k}
                        /\ Pointing(heap) => Pointing(c.heap)
                        /\ Indexed(heap) /\ Injective(c.heap.nodes) => Indexed(c.heap)
                        /\ Ordered(heap, timestamp) => Ordered(c.heap, timestamp)}
           T == [k \in Nat |-> Good(k)]
           pass == [c \in Calls |-> [heap |-> Push(c.heap, timestamp, infos[c.at]),
                                     at |-> c.at + 1]]
           start == [heap |-> heap, at |-> 1]
<1>1. start \in Good(0)
  <2>1. start \in Calls /\ start.heap = heap /\ start.at = 1
    BY DEF Calls
  <2>2. {infos[i] : i \in 1 .. 0} = {}
    OBVIOUS
  <2> QED
    BY <2>1, <2>2
<1>2. ASSUME NEW k \in 0 .. n - 1, NEW c \in Good(k) PROVE pass[c] \in Good(k + 1)
  <2> DEFINE x == infos[k + 1]
             new == Push(c.heap, timestamp, x)
  <2>1. /\ c \in Calls /\ c.heap \in Heaps /\ c.at = k + 1
        /\ ToSet(c.heap.nodes) = ToSet(heap.nodes) \cup {infos[i] : i \in 1 .. k}
        /\ Pointing(heap) => Pointing(c.heap)
        /\ Indexed(heap) /\ Injective(c.heap.nodes) => Indexed(c.heap)
        /\ Ordered(heap, timestamp) => Ordered(c.heap, timestamp)
    BY DEF Calls
  <2>2. x \in Infos /\ k + 1 \in Int /\ k + 1 + 1 \in Int
    <3>1. k + 1 \in 1 .. n
      OBVIOUS
    <3> QED
      BY <3>1
  <2>3. pass[c] = [heap |-> new, at |-> k + 1 + 1]
    BY <2>1
  <2> HIDE DEF x
  <2>4. /\ new \in Heaps
        /\ ToSet(new.nodes) = ToSet(c.heap.nodes) \cup {x}
        /\ Pointing(c.heap) => Pointing(new)
        /\ Injective(new.nodes) => Injective(c.heap.nodes) /\ x \notin ToSet(c.heap.nodes)
        /\ Indexed(c.heap) /\ x \notin ToSet(c.heap.nodes) => Indexed(new)
        /\ Ordered(c.heap, timestamp) => Ordered(new, timestamp)
    BY <2>1, <2>2, PushFacts
  <2>5. {infos[i] : i \in 1 .. k + 1} = {infos[i] : i \in 1 .. k} \cup {x}
    <3>1. 1 .. k + 1 = (1 .. k) \cup {k + 1}
      OBVIOUS
    <3> QED
      BY <3>1 DEF x
  <2> HIDE DEF new
  <2>6. pass[c] \in Calls /\ pass[c].heap = new /\ pass[c].at = k + 1 + 1
    BY <2>2, <2>3, <2>4 DEF Calls
  <2> HIDE DEF pass
  <2> QED
    BY <2>1, <2>4, <2>5, <2>6
<1> DEFINE end == Iterate(pass, start, n)
<1>3. end \in T[n]
  <2> HIDE DEF start, Good, pass, end
  <2>1. start \in T[0] /\ \A k \in 0 .. n - 1 : \A c \in T[k] : pass[c] \in T[k + 1]
    BY <1>1, <1>2
  <2> HIDE DEF T
  <2> QED
    BY <2>1, IterateInduction DEF end
<1>4. Len(infos) = n
  OBVIOUS
<1>5. PushAll(heap, infos) = end.heap
  BY <1>4 DEF PushAll
<1>6. end \in Good(n)
  BY <1>3
<1> HIDE DEF end
<1>7. end.heap \in Heaps
  BY <1>6 DEF Calls
<1> QED
  BY <1>5, <1>6, <1>7

----------------------------------------------------------------------------
(* The inductive invariant *)

\* The info of a shard is its own: no two shards share one.
OwnInfo == \A s \in Shards : Known(s) => shardOf[shardOffset[s]] = s

HeapInOrder == ~ doubled => Indexed(Heap) /\ Ordered(Heap, timestamp)

IInv ==
    /\ TypeOK
    /\ Pointing(Heap)
    /\ IsFiniteSet(emptyShards)
    /\ OwnInfo
    /\ NoShardForgotten
    /\ HeapInOrder

LEMMA StateFacts ==
    ASSUME IInv
    PROVE  /\ Heap \in Heaps /\ Heap.nodes = nodes /\ Heap.index = index
           /\ timestamp \in [Infos -> Int] /\ timestamp \in [Infos -> -1 .. MaxTime]
           /\ MaxTime \in Nat
           /\ NoInfo \notin Infos
           /\ ToSet(nodes) \subseteq Infos
           /\ \A s \in Shards : Known(s) =>
                  shardOffset[s] \in Infos /\ shardOffset[s] \in Held
           /\ \A r, s \in Shards :
                  Known(r) /\ Known(s) /\ shardOffset[r] = shardOffset[s] => r = s
<1>1. /\ nodes \in Seq(Infos) /\ index \in [Infos -> -1 .. Len(nodes) - 1]
      /\ timestamp \in [Infos -> -1 .. MaxTime] /\ MaxTime \in Nat
      /\ shardOffset \in [Shards -> Infos \cup {NoInfo}]
      /\ NoInfo \notin Infos
  BY NoneAssumption, BoundsAssumption DEF IInv, TypeOK, NoneAssumption, BoundsAssumption
<1>2. index \in [Infos -> Int] /\ timestamp \in [Infos -> Int]
  <2>1. Len(nodes) \in Nat
    BY <1>1, LenProperties
  <2>2. -1 .. Len(nodes) - 1 \subseteq Int /\ -1 .. MaxTime \subseteq Int
    BY <1>1, <2>1
  <2> QED
    BY <1>1, <2>2
<1>3. Heap \in Heaps /\ Heap.nodes = nodes /\ Heap.index = index
  BY <1>1, <1>2 DEF Heap, Heaps
<1>4. ToSet(nodes) \subseteq Infos
  BY <1>1, LenProperties DEF ToSet
<1>5. \A s \in Shards : Known(s) => shardOffset[s] \in Infos /\ shardOffset[s] \in Held
  BY <1>1 DEF Known, Held, ToSet
<1>6. \A r, s \in Shards :
          Known(r) /\ Known(s) /\ shardOffset[r] = shardOffset[s] => r = s
  BY DEF IInv, OwnInfo
<1> QED
  BY <1>1, <1>2, <1>3, <1>4, <1>5, <1>6

LEMMA NewHeap ==
    ASSUME NEW heap \in Heaps, SetHeap(heap), Pointing(heap)
    PROVE  /\ Heap' = heap /\ nodes' = heap.nodes /\ index' = heap.index
           /\ nodes' \in Seq(Infos) /\ index' \in [Infos -> -1 .. Len(nodes') - 1]
           /\ ToSet(nodes') \subseteq Infos
<1>1. /\ nodes' = heap.nodes /\ index' = heap.index
      /\ heap = [nodes |-> heap.nodes, index |-> heap.index]
      /\ heap.nodes \in Seq(Infos) /\ heap.index \in [Infos -> Int] /\ Len(heap.nodes) = Size(heap)
      /\ Size(heap) \in Nat
  BY HeapFacts DEF SetHeap
<1>2. Heap' = heap
  BY <1>1 DEF Heap
<1>3. \A x \in Infos : heap.index[x] \in -1 .. Size(heap) - 1
  BY <1>1 DEF Pointing
<1>4. index' \in [Infos -> -1 .. Len(nodes') - 1]
  BY <1>1, <1>3
<1>5. ToSet(nodes') \subseteq Infos
  BY <1>1, LenProperties DEF ToSet
<1> QED
  BY <1>1, <1>2, <1>4, <1>5

LEMMA KeepFacts ==
    ASSUME TypeOK, NEW newValid \in [Infos -> BOOLEAN], KeepInfos(newValid)
    PROVE  /\ valid' \in [Infos -> BOOLEAN]
           /\ timestamp' \in [Infos -> -1 .. MaxTime]
           /\ shardOf' \in [Infos -> Shards \cup {NoShard}]
           /\ \A i \in Infos : i \in Held' =>
                  /\ valid'[i] = newValid[i]
                  /\ timestamp'[i] = timestamp[i]
                  /\ shardOf'[i] = shardOf[i]
<1>1. -1 \in -1 .. MaxTime
  BY BoundsAssumption DEF BoundsAssumption
<1> QED
  BY <1>1 DEF KeepInfos, Kept, TypeOK

LEMMA InitIInv == Init => IInv
<1> SUFFICES ASSUME Init PROVE IInv
  OBVIOUS
<1>1. nodes = <<>> /\ nodes \in Seq(Infos) /\ Len(nodes) = 0 /\ \A s \in Shards : ~ Known(s)
  BY EmptySeq DEF Init, Known
<1>2. TypeOK
  <2>1. -1 \in -1 .. Len(nodes) - 1 /\ -1 \in -1 .. MaxTime
    BY <1>1, BoundsAssumption DEF BoundsAssumption
  <2> QED
    BY <1>1, <2>1 DEF Init, TypeOK
<1>3. Pointing(Heap)
  BY DEF Init, Pointing, Heap
<1>4. IsFiniteSet(emptyShards)
  BY FS_EmptySet DEF Init
<1>5. Size(Heap) = 0
  BY <1>1 DEF Heap, Size
<1>6. HeapInOrder
  BY <1>5 DEF HeapInOrder, Indexed, Ordered
<1> QED
  BY <1>1, <1>2, <1>3, <1>4, <1>6 DEF IInv, OwnInfo, NoShardForgotten

LEMMA AddKeepsIInv ==
    ASSUME IInv, NEW s \in Shards, AddShard(s)
    PROVE  IInv'
<1>1. PICK i \in Infos \ Held :
          /\ valid' = [valid EXCEPT ![i] = TRUE]
          /\ timestamp' = [timestamp EXCEPT ![i] = -1]
          /\ shardOf' = [shardOf EXCEPT ![i] = s]
          /\ shardOffset' = [shardOffset EXCEPT ![s] = i]
          /\ SetHeap(Push(Heap, timestamp', i))
  BY DEF AddShard
<1>2. /\ Heap \in Heaps /\ Heap.nodes = nodes
      /\ timestamp \in [Infos -> -1 .. MaxTime] /\ MaxTime \in Nat /\ NoInfo \notin Infos
      /\ \A r \in Shards : Known(r) => shardOffset[r] \in Infos /\ shardOffset[r] # i
      /\ i \notin ToSet(nodes) /\ ToSet(nodes) \subseteq Infos
  BY StateFacts DEF Held
<1>3. /\ timestamp' \in [Infos -> -1 .. MaxTime] /\ timestamp' \in [Infos -> Int]
      /\ \A x \in Infos : x # i => timestamp'[x] = timestamp[x]
  <2>1. -1 \in -1 .. MaxTime /\ -1 .. MaxTime \subseteq Int
    BY <1>2
  <2> QED
    BY <1>1, <1>2, <2>1
<1> DEFINE new == Push(Heap, timestamp', i)
<1>4. /\ new \in Heaps
      /\ ToSet(new.nodes) = ToSet(nodes) \cup {i}
      /\ Pointing(new)
      /\ Indexed(Heap) => Indexed(new)
      /\ Ordered(Heap, timestamp') => Ordered(new, timestamp')
  BY <1>2, <1>3, PushFacts DEF IInv
<1>5. SetHeap(new)
  BY <1>1
<1> HIDE DEF new
<1>6. /\ Heap' = new /\ nodes' = new.nodes
      /\ nodes' \in Seq(Infos) /\ index' \in [Infos -> -1 .. Len(nodes') - 1]
  BY <1>4, <1>5, NewHeap
<1>7. \A r \in Shards : shardOffset'[r] = IF r = s THEN i ELSE shardOffset[r]
  BY <1>1 DEF IInv, TypeOK
<1>8. /\ \A r \in Shards : r # s => (Known(r)' <=> Known(r))
      /\ emptyShards' = emptyShards \ {s}
      /\ UNCHANGED <<reading, doubled>>
  BY <1>7 DEF AddShard, Known
<1>9. TypeOK'
  <2>1. emptyShards' \in SUBSET {r \in Shards : Known(r)'}
    BY <1>8 DEF IInv, TypeOK
  <2>2. /\ valid' \in [Infos -> BOOLEAN] /\ shardOf' \in [Infos -> Shards \cup {NoShard}]
        /\ shardOffset' \in [Shards -> Infos \cup {NoInfo}]
    BY <1>1 DEF IInv, TypeOK
  <2>3. reading' \in Shards \cup {NoShard} /\ doubled' \in BOOLEAN
    BY <1>8 DEF IInv, TypeOK
  <2> QED
    BY <1>3, <1>6, <2>1, <2>2, <2>3 DEF TypeOK
<1>10. IsFiniteSet(emptyShards')
  BY <1>8, FS_Subset DEF IInv
<1>11. OwnInfo'
  <2> SUFFICES ASSUME NEW r \in Shards, Known(r)' PROVE shardOf'[shardOffset'[r]] = r
    BY DEF OwnInfo
  <2>1. shardOf \in [Infos -> Shards \cup {NoShard}]
    BY DEF IInv, TypeOK
  <2>2. CASE r = s
    BY <1>1, <1>7, <2>1, <2>2
  <2>3. CASE r # s
    <3>1. Known(r) /\ shardOffset'[r] = shardOffset[r]
      BY <1>7, <1>8, <2>3
    <3>2. shardOffset[r] \in Infos /\ shardOffset[r] # i /\ shardOf[shardOffset[r]] = r
      BY <1>2, <3>1 DEF IInv, OwnInfo
    <3> QED
      BY <1>1, <2>1, <3>1, <3>2
  <2> QED
    BY <2>2, <2>3
<1>12. NoShardForgotten'
  <2> SUFFICES ASSUME NEW r \in Shards, Known(r)'
               PROVE  \/ r \in emptyShards'
                      \/ valid'[shardOffset'[r]] /\ shardOffset'[r] \in ToSet(nodes')
    BY DEF NoShardForgotten
  <2>1. valid \in [Infos -> BOOLEAN] /\ ToSet(nodes') = ToSet(nodes) \cup {i}
    BY <1>4, <1>6 DEF IInv, TypeOK
  <2>2. CASE r = s
    BY <1>1, <1>7, <2>1, <2>2
  <2>3. CASE r # s
    <3>1. Known(r) /\ shardOffset'[r] = shardOffset[r]
      BY <1>7, <1>8, <2>3
    <3>2. shardOffset[r] \in Infos /\ shardOffset[r] # i
      BY <1>2, <3>1
    <3>3. r \in emptyShards \/ (valid[shardOffset[r]] /\ shardOffset[r] \in ToSet(nodes))
      BY <3>1 DEF IInv, NoShardForgotten
    <3> QED
      BY <1>1, <1>8, <2>1, <2>3, <3>1, <3>2, <3>3
  <2> QED
    BY <2>2, <2>3
<1>13. HeapInOrder'
  <2> SUFFICES ASSUME ~ doubled' PROVE Indexed(new) /\ Ordered(new, timestamp')
    BY <1>6 DEF HeapInOrder
  <2>1. Indexed(Heap) /\ Ordered(Heap, timestamp)
    BY <1>8 DEF IInv, HeapInOrder
  <2>2. \A x \in ToSet(Heap.nodes) : timestamp'[x] = timestamp[x]
    BY <1>2, <1>3
  <2>3. Ordered(Heap, timestamp')
    BY <1>2, <2>1, <2>2, OrderedByNodes
  <2> QED
    BY <1>4, <2>1, <2>3
<1> QED
  BY <1>4, <1>6, <1>9, <1>10, <1>11, <1>12, <1>13 DEF IInv

LEMMA RemoveKeepsIInv ==
    ASSUME IInv, NEW s \in Shards, RemoveShard(s)
    PROVE  IInv'
<1> DEFINE newValid == [valid EXCEPT ![shardOffset[s]] = FALSE]
<1>1. /\ Heap \in Heaps /\ Heap.nodes = nodes /\ NoInfo \notin Infos /\ ToSet(nodes) \subseteq Infos
      /\ \A r \in Shards : Known(r) => shardOffset[r] \in Infos
      /\ \A r \in Shards : Known(r) /\ Known(s) /\ shardOffset[r] = shardOffset[s] => r = s
  BY StateFacts
<1>2. /\ Known(s) /\ emptyShards' = emptyShards \ {s}
      /\ UNCHANGED <<nodes, index, reading, doubled>>
      /\ shardOffset' = [shardOffset EXCEPT ![s] = NoInfo]
      /\ newValid \in [Infos -> BOOLEAN]
      /\ KeepInfos(newValid)
  BY DEF RemoveShard, IInv, TypeOK
<1>3. /\ shardOffset' \in [Shards -> Infos \cup {NoInfo}]
      /\ \A r \in Shards : shardOffset'[r] = IF r = s THEN NoInfo ELSE shardOffset[r]
  BY <1>2 DEF IInv, TypeOK
<1>4. /\ valid' \in [Infos -> BOOLEAN]
      /\ timestamp' \in [Infos -> -1 .. MaxTime]
      /\ shardOf' \in [Infos -> Shards \cup {NoShard}]
      /\ \A i \in Infos : i \in Held' => /\ valid'[i] = newValid[i]
                                         /\ timestamp'[i] = timestamp[i]
                                         /\ shardOf'[i] = shardOf[i]
  <2> HIDE DEF newValid
  <2> QED
    BY <1>2, KeepFacts DEF IInv
<1>5. Heap' = Heap /\ ToSet(nodes') = ToSet(nodes)
  BY <1>2 DEF Heap
<1>6. \A r \in Shards : Known(r)' => /\ r # s /\ Known(r)
                                     /\ shardOffset'[r] = shardOffset[r]
                                     /\ shardOffset[r] \in Infos /\ shardOffset[r] # shardOffset[s]
                                     /\ shardOffset[r] \in Held'
  <2> SUFFICES ASSUME NEW r \in Shards, Known(r)'
               PROVE  /\ r # s /\ Known(r) /\ shardOffset'[r] = shardOffset[r]
                      /\ shardOffset[r] \in Infos /\ shardOffset[r] # shardOffset[s]
                      /\ shardOffset[r] \in Held'
    OBVIOUS
  <2>1. r # s /\ Known(r) /\ shardOffset'[r] = shardOffset[r]
    BY <1>3 DEF Known
  <2>2. shardOffset[r] \in Infos /\ shardOffset[r] # shardOffset[s]
    BY <1>1, <1>2, <2>1
  <2>3. shardOffset'[r] \in Held'
    BY <1>3 DEF Held, ToSet
  <2> QED
    BY <2>1, <2>2, <2>3
<1>7. TypeOK'
  <2>1. emptyShards' \in SUBSET {r \in Shards : Known(r)'}
    BY <1>2, <1>3 DEF IInv, TypeOK, Known
  <2> QED
    BY <1>2, <1>3, <1>4, <2>1 DEF IInv, TypeOK
<1>8. Pointing(Heap')
  BY <1>5 DEF IInv
<1>9. IsFiniteSet(emptyShards')
  BY <1>2, FS_Subset DEF IInv
<1>10. OwnInfo'
  <2> SUFFICES ASSUME NEW r \in Shards, Known(r)' PROVE shardOf'[shardOffset'[r]] = r
    BY DEF OwnInfo
  <2>1. /\ Known(r) /\ shardOffset'[r] = shardOffset[r]
        /\ shardOffset[r] \in Infos /\ shardOffset[r] \in Held'
    BY <1>6
  <2>2. shardOf[shardOffset[r]] = r
    BY <2>1 DEF IInv, OwnInfo
  <2> QED
    BY <1>4, <2>1, <2>2
<1>11. NoShardForgotten'
  <2> SUFFICES ASSUME NEW r \in Shards, Known(r)', r \notin emptyShards'
               PROVE  valid'[shardOffset'[r]] /\ shardOffset'[r] \in ToSet(nodes')
    BY DEF NoShardForgotten
  <2>1. /\ r # s /\ Known(r) /\ shardOffset'[r] = shardOffset[r]
        /\ shardOffset[r] \in Infos /\ shardOffset[r] # shardOffset[s]
        /\ shardOffset[r] \in Held'
    BY <1>6
  <2>2. valid[shardOffset[r]] /\ shardOffset[r] \in ToSet(nodes)
    BY <1>2, <2>1 DEF IInv, NoShardForgotten
  <2>3. newValid[shardOffset[r]] = valid[shardOffset[r]]
    BY <2>1 DEF IInv, TypeOK
  <2> HIDE DEF newValid
  <2> QED
    BY <1>4, <1>5, <2>1, <2>2, <2>3
<1>12. HeapInOrder'
  <2>1. \A x \in ToSet(Heap.nodes) : timestamp'[x] = timestamp[x]
    BY <1>1, <1>2, <1>4 DEF Held
  <2> QED
    BY <1>1, <1>2, <1>5, <2>1, OrderedByNodes DEF IInv, HeapInOrder
<1> QED
  BY <1>5, <1>7, <1>8, <1>9, <1>10, <1>11, <1>12 DEF IInv

\* An order in which the infos of the empty shards are pushed has each of them.
LEMMA EmptiedInOrder ==
    ASSUME IInv, NEW order \in SetToSeqs(Emptied)
    PROVE  \E n \in Nat : /\ order \in [1 .. n -> Infos]
                          /\ {order[i] : i \in 1 .. n} = Emptied
<1> DEFINE n == Cardinality(Emptied)
           f == [s \in emptyShards |-> shardOffset[s]]
<1>1. Emptied \subseteq Infos
  BY StateFacts DEF Emptied, IInv, TypeOK
<1>2. IsFiniteSet(Emptied)
  <2>1. f \in Surjection(emptyShards, Emptied)
    BY DEF Surjection, Emptied
  <2> HIDE DEF f
  <2> QED
    BY <2>1, FS_Surjection DEF IInv
<1>3. /\ order \in [1 .. n -> Emptied]
      /\ \A i, j \in 1 .. n : i # j => order[i] # order[j]
  BY DEF SetToSeqs
<1>4. n \in Nat /\ IsFiniteSet(1 .. n) /\ Cardinality(1 .. n) = n
  <2>1. n \in Nat
    BY <1>2, FS_CardinalityType
  <2> HIDE DEF n
  <2> QED
    BY <2>1, FS_Interval
<1>5. order \in Injection(1 .. n, Emptied)
  BY <1>3 DEF Injection, IsInjective
<1>6. order \in Surjection(1 .. n, Emptied)
  <2>1. Cardinality(1 .. n) = Cardinality(Emptied)
    BY <1>4
  <2> HIDE DEF n
  <2> QED
    BY <1>2, <1>5, <2>1, FS_Injection
<1>7. {order[i] : i \in 1 .. n} = Emptied
  BY <1>3, <1>6 DEF Surjection
<1>8. order \in [1 .. n -> Infos]
  BY <1>1, <1>3
<1> QED
  BY <1>4, <1>7, <1>8

\* If there are as many nodes as infos in the heap, none lies there twice.
LEMMA DistinctInjective ==
    ASSUME NEW heap \in Heaps, Distinct(heap)
    PROVE  Injective(heap.nodes)
<1> DEFINE n == Size(heap)
<1>1. /\ n \in Nat /\ Len(heap.nodes) = n /\ DOMAIN heap.nodes = 1 .. n
      /\ heap.nodes \in [1 .. n -> Infos]
  BY HeapFacts, LenProperties
<1>2. Cardinality(ToSet(heap.nodes)) = n
  BY DEF Distinct
<1> HIDE DEF n
<1>3. heap.nodes \in Surjection(1 .. n, ToSet(heap.nodes))
  BY <1>1 DEF Surjection, ToSet
<1>4. IsFiniteSet(1 .. n) /\ Cardinality(1 .. n) = n
  BY <1>1, FS_Interval
<1>5. heap.nodes \in Injection(1 .. n, ToSet(heap.nodes))
  BY <1>2, <1>3, <1>4, FS_SurjSameCardinalityImpliesInj
<1> QED
  BY <1>1, <1>5 DEF Injective, Injection, IsInjective

\* What GetNextShard does to the heap, the infos and the empty shards.
LEMMA SelectKeepsIInv ==
    ASSUME IInv,
           NEW next \in Heaps, SetHeap(next), Pointing(next),
           NEW newValid \in [Infos -> BOOLEAN], KeepInfos(newValid),
           UNCHANGED shardOffset, emptyShards' \subseteq emptyShards,
           reading' \in Shards \cup {NoShard}, doubled' \in BOOLEAN,
           \A s \in Shards : Known(s) /\ s \notin emptyShards' =>
               newValid[shardOffset[s]] /\ shardOffset[s] \in ToSet(next.nodes),
           ~ doubled' => Indexed(next) /\ Ordered(next, timestamp)
    PROVE  IInv'
<1>1. /\ Heap' = next /\ nodes' = next.nodes
      /\ nodes' \in Seq(Infos) /\ index' \in [Infos -> -1 .. Len(nodes') - 1]
      /\ ToSet(nodes') \subseteq Infos
  BY NewHeap
<1>2. /\ valid' \in [Infos -> BOOLEAN]
      /\ timestamp' \in [Infos -> -1 .. MaxTime]
      /\ shardOf' \in [Infos -> Shards \cup {NoShard}]
      /\ \A i \in Infos : i \in Held' => /\ valid'[i] = newValid[i]
                                         /\ timestamp'[i] = timestamp[i]
                                         /\ shardOf'[i] = shardOf[i]
  BY KeepFacts DEF IInv
<1>3. \A s \in Shards : Known(s)' => /\ Known(s) /\ shardOffset'[s] = shardOffset[s]
                                     /\ shardOffset[s] \in Infos /\ shardOffset[s] \in Held'
  <2> SUFFICES ASSUME NEW s \in Shards, Known(s)'
               PROVE  /\ Known(s) /\ shardOffset'[s] = shardOffset[s]
                      /\ shardOffset[s] \in Infos /\ shardOffset[s] \in Held'
    OBVIOUS
  <2>1. Known(s) /\ shardOffset'[s] = shardOffset[s]
    BY DEF Known
  <2>2. shardOffset'[s] \in Held'
    BY DEF Held, ToSet, IInv, TypeOK
  <2> QED
    BY <2>1, <2>2, StateFacts
<1>4. TypeOK'
  <2>1. emptyShards' \in SUBSET {s \in Shards : Known(s)'}
    BY DEF IInv, TypeOK, Known
  <2>2. shardOffset' \in [Shards -> Infos \cup {NoInfo}]
    BY DEF IInv, TypeOK
  <2> QED
    BY <1>1, <1>2, <2>1, <2>2 DEF TypeOK
<1>5. IsFiniteSet(emptyShards')
  BY FS_Subset DEF IInv
<1>6. OwnInfo'
  <2> SUFFICES ASSUME NEW s \in Shards, Known(s)' PROVE shardOf'[shardOffset'[s]] = s
    BY DEF OwnInfo
  <2>1. shardOf[shardOffset[s]] = s
    BY <1>3 DEF IInv, OwnInfo
  <2> QED
    BY <1>2, <1>3, <2>1
<1>7. NoShardForgotten'
  <2> SUFFICES ASSUME NEW s \in Shards, Known(s)', s \notin emptyShards'
               PROVE  valid'[shardOffset'[s]] /\ shardOffset'[s] \in ToSet(nodes')
    BY DEF NoShardForgotten
  <2>1. newValid[shardOffset[s]] /\ shardOffset[s] \in ToSet(next.nodes)
    BY <1>3
  <2> QED
    BY <1>1, <1>2, <1>3, <2>1
<1>8. HeapInOrder'
  <2>1. \A x \in ToSet(next.nodes) : timestamp'[x] = timestamp[x]
    BY <1>1, <1>2 DEF Held
  <2> QED
    BY <1>1, <2>1, OrderedByNodes DEF HeapInOrder
<1> QED
  BY <1>1, <1>4, <1>5, <1>6, <1>7, <1>8 DEF IInv

LEMMA GetNextKeepsIInv ==
    ASSUME IInv, NEW expired \in BOOLEAN, GetNextShard(expired)
    PROVE  IInv'
<1> DEFINE heap == Valid(Heap)
<1>1. /\ Heap \in Heaps /\ Heap.nodes = nodes /\ timestamp \in [Infos -> Int]
      /\ \A s \in Shards : Known(s) => shardOffset[s] \in Infos
  BY StateFacts
<1>2. /\ heap \in Heaps
      /\ \A x \in ToSet(nodes) : valid[x] => x \in ToSet(heap.nodes)
      /\ Pointing(heap)
      /\ ~ doubled => Indexed(heap) /\ Ordered(heap, timestamp)
  BY <1>1, ValidFacts DEF IInv, HeapInOrder
<1>3. /\ IF heap.nodes = <<>> \/ expired
         THEN \E order \in SetToSeqs(Emptied) :
                 /\ SetHeap(PushAll(heap, order))
                 /\ doubled' = (doubled \/ ~ Distinct(PushAll(heap, order)))
                 /\ emptyShards' = {}
         ELSE SetHeap(heap) /\ UNCHANGED <<emptyShards, doubled>>
      /\ IF Chosen(heap) = {} THEN UNCHANGED reading ELSE \E s \in Chosen(heap) : reading' = s
      /\ UNCHANGED shardOffset
      /\ KeepInfos(IF heap.nodes = <<>> \/ expired THEN Revived(Emptied) ELSE valid)
  BY DEF GetNextShard
<1> HIDE DEF heap
<1>4. reading' \in Shards \cup {NoShard}
  <2>1. heap.nodes # <<>> => heap.nodes[1] \in Infos
    <3>1. heap.nodes \in Seq(Infos)
      BY <1>2, HeapFacts
    <3> QED
      BY <3>1, EmptySeq, LenProperties
  <2>2. Chosen(heap) \subseteq Shards \cup {NoShard}
    BY <2>1 DEF Chosen, IInv, TypeOK
  <2>3. reading \in Shards \cup {NoShard}
    BY DEF IInv, TypeOK
  <2> QED
    BY <1>3, <2>2, <2>3
<1>5. \A s \in Shards : Known(s) /\ s \notin emptyShards =>
          valid[shardOffset[s]] /\ shardOffset[s] \in ToSet(heap.nodes)
  BY <1>2 DEF IInv, NoShardForgotten
<1>6. valid \in [Infos -> BOOLEAN] /\ doubled \in BOOLEAN
  BY DEF IInv, TypeOK
<1>7. CASE heap.nodes = <<>> \/ expired
  <2>1. PICK order \in SetToSeqs(Emptied) :
              /\ SetHeap(PushAll(heap, order))
              /\ doubled' = (doubled \/ ~ Distinct(PushAll(heap, order)))
              /\ emptyShards' = {}
    BY <1>3, <1>7
  <2>2. PICK n \in Nat : order \in [1 .. n -> Infos] /\ {order[i] : i \in 1 .. n} = Emptied
    BY EmptiedInOrder
  <2> DEFINE next == PushAll(heap, order)
             newValid == Revived(Emptied)
  <2>3. /\ next \in Heaps
        /\ ToSet(next.nodes) = ToSet(heap.nodes) \cup Emptied
        /\ Pointing(next)
        /\ Indexed(heap) /\ Injective(next.nodes) => Indexed(next)
        /\ Ordered(heap, timestamp) => Ordered(next, timestamp)
    BY <1>1, <1>2, <2>2, PushAllFacts
  <2>4. /\ newValid \in [Infos -> BOOLEAN]
        /\ \A x \in Infos : x \in Emptied \/ valid[x] => newValid[x]
    BY <1>6 DEF Revived
  <2>5. KeepInfos(newValid)
    BY <1>3, <1>7
  <2>6. SetHeap(next) /\ emptyShards' = {}
    BY <2>1
  <2>7. doubled' \in BOOLEAN /\ (~ doubled' => ~ doubled /\ Distinct(next))
    BY <1>6, <2>1
  <2> HIDE DEF next, newValid
  <2>8. \A s \in Shards : Known(s) =>
            newValid[shardOffset[s]] /\ shardOffset[s] \in ToSet(next.nodes)
    <3> SUFFICES ASSUME NEW s \in Shards, Known(s)
                 PROVE  newValid[shardOffset[s]] /\ shardOffset[s] \in ToSet(next.nodes)
      OBVIOUS
    <3>1. CASE s \in emptyShards
      <4>1. shardOffset[s] \in Emptied
        BY <3>1 DEF Emptied
      <4> QED
        BY <1>1, <2>3, <2>4, <4>1
    <3>2. CASE s \notin emptyShards
      BY <1>1, <1>5, <2>3, <2>4, <3>2
    <3> QED
      BY <3>1, <3>2
  <2>9. ~ doubled' => Indexed(next) /\ Ordered(next, timestamp)
    BY <1>2, <2>3, <2>7, DistinctInjective
  <2> QED
    BY <1>3, <1>4, <2>3, <2>4, <2>5, <2>6, <2>7, <2>8, <2>9, SelectKeepsIInv
<1>8. CASE ~ (heap.nodes = <<>> \/ expired)
  <2>1. SetHeap(heap) /\ UNCHANGED <<emptyShards, doubled>> /\ KeepInfos(valid)
    BY <1>3, <1>8
  <2> QED
    BY <1>2, <1>3, <1>4, <1>5, <1>6, <2>1, SelectKeepsIInv
<1> QED
  BY <1>7, <1>8

LEMMA AfterRecordKeepsIInv ==
    ASSUME IInv, NEW time \in 0 .. MaxTime, AfterRecord(time)
    PROVE  IInv'
<1> DEFINE x == shardOffset[reading]
           new == Updated(Heap, timestamp', x, time > timestamp[x])
<1>1. /\ Heap \in Heaps /\ Heap.nodes = nodes /\ timestamp \in [Infos -> Int]
      /\ timestamp \in [Infos -> -1 .. MaxTime] /\ MaxTime \in Nat
      /\ \A s \in Shards : Known(s) => shardOffset[s] \in Infos
  BY StateFacts
<1>2. /\ reading # NoShard /\ Known(reading)
      /\ timestamp' = [timestamp EXCEPT ![x] = time]
      /\ SetHeap(new)
      /\ reading' = NoShard
      /\ UNCHANGED <<valid, shardOf, shardOffset, emptyShards, doubled>>
  BY DEF AfterRecord
<1>3. reading \in Shards /\ x \in Infos
  BY <1>1, <1>2 DEF IInv, TypeOK
<1>4. timestamp' \in [Infos -> -1 .. MaxTime] /\ timestamp' \in [Infos -> Int] /\ time \in Int
  <2>1. time \in -1 .. MaxTime /\ -1 .. MaxTime \subseteq Int /\ time \in Int
    BY <1>1
  <2> QED
    BY <1>1, <1>2, <2>1
<1> HIDE DEF x
<1>5. Rearranged(new, Heap)
  <2>1. (time > timestamp[x]) \in BOOLEAN
    BY <1>1, <1>3, <1>4
  <2> QED
    BY <1>1, <1>3, <1>4, <2>1, UpdateRearranges
<1>6. Indexed(Heap) /\ Ordered(Heap, timestamp) => Ordered(new, timestamp')
  BY <1>1, <1>2, <1>3, <1>4, UpdateOrders DEF IInv
<1> HIDE DEF new
<1>7. /\ Heap' = new /\ nodes' = new.nodes /\ ToSet(nodes') = ToSet(nodes)
      /\ nodes' \in Seq(Infos) /\ index' \in [Infos -> -1 .. Len(nodes') - 1]
      /\ Pointing(new)
  BY <1>1, <1>2, <1>5, NewHeap DEF Rearranged, IInv
<1>8. \A s \in Shards : (Known(s)' <=> Known(s)) /\ shardOffset'[s] = shardOffset[s]
  BY <1>2 DEF Known
<1>9. TypeOK'
  <2>1. emptyShards' \in SUBSET {s \in Shards : Known(s)'}
    BY <1>2, <1>8 DEF IInv, TypeOK
  <2> QED
    BY <1>2, <1>4, <1>7, <2>1 DEF IInv, TypeOK
<1>10. IsFiniteSet(emptyShards') /\ OwnInfo'
  BY <1>2, <1>8 DEF IInv, OwnInfo
<1>11. NoShardForgotten'
  BY <1>2, <1>7, <1>8 DEF IInv, NoShardForgotten
<1>12. HeapInOrder'
  BY <1>2, <1>5, <1>6, <1>7 DEF IInv, HeapInOrder, Rearranged
<1> QED
  BY <1>7, <1>9, <1>10, <1>11, <1>12 DEF IInv

LEMMA AfterNoRecordKeepsIInv ==
    ASSUME IInv, AfterNoRecord
    PROVE  IInv'
<1>1. /\ reading # NoShard /\ Known(reading)
      /\ emptyShards' = emptyShards \cup {reading}
      /\ valid' = [valid EXCEPT ![shardOffset[reading]] = FALSE]
      /\ reading' = NoShard
      /\ UNCHANGED <<nodes, index, timestamp, shardOf, shardOffset, doubled>>
  BY DEF AfterNoRecord
<1>2. reading \in Shards
  BY <1>1 DEF IInv, TypeOK
<1>3. /\ \A s \in Shards : Known(s) => shardOffset[s] \in Infos
      /\ \A s \in Shards : Known(s) /\ shardOffset[s] = shardOffset[reading] => s = reading
  BY <1>1, <1>2, StateFacts
<1>4. Heap' = Heap /\ \A s \in Shards : (Known(s)' <=> Known(s)) /\ shardOffset'[s] = shardOffset[s]
  BY <1>1 DEF Heap, Known
<1>5. TypeOK'
  <2>1. emptyShards' \in SUBSET {s \in Shards : Known(s)'}
    BY <1>1, <1>2, <1>4 DEF IInv, TypeOK
  <2> QED
    BY <1>1, <2>1 DEF IInv, TypeOK
<1>6. IsFiniteSet(emptyShards')
  BY <1>1, FS_AddElement DEF IInv
<1>7. OwnInfo' /\ HeapInOrder' /\ Pointing(Heap)'
  BY <1>1, <1>4 DEF IInv, OwnInfo, HeapInOrder
<1>8. NoShardForgotten'
  <2> SUFFICES ASSUME NEW s \in Shards, Known(s), s \notin emptyShards'
               PROVE  valid'[shardOffset[s]] /\ shardOffset[s] \in ToSet(nodes)
    BY <1>1, <1>4 DEF NoShardForgotten
  <2>1. s \notin emptyShards /\ s # reading
    BY <1>1
  <2>2. valid[shardOffset[s]] /\ shardOffset[s] \in ToSet(nodes)
    BY <2>1 DEF IInv, NoShardForgotten
  <2>3. shardOffset[s] \in Infos /\ shardOffset[s] # shardOffset[reading]
    BY <1>3, <2>1
  <2> QED
    BY <1>1, <2>2, <2>3 DEF IInv, TypeOK
<1> QED
  BY <1>4, <1>5, <1>6, <1>7, <1>8 DEF IInv

LEMMA OthersKeepIInv ==
    ASSUME IInv, UNCHANGED <<nodes, index, info, shardOffset, emptyShards, doubled>>,
           reading' \in Shards \cup {NoShard}
    PROVE  IInv'
<1>1. UNCHANGED <<valid, timestamp, shardOf>>
  BY DEF info
<1>2. Heap' = Heap /\ \A s \in Shards : Known(s)' <=> Known(s)
  BY DEF Heap, Known
<1>3. TypeOK'
  <2>1. emptyShards' \in SUBSET {s \in Shards : Known(s)'}
    BY <1>2 DEF IInv, TypeOK
  <2> QED
    BY <1>1, <2>1 DEF IInv, TypeOK
<1>4. OwnInfo' /\ HeapInOrder' /\ NoShardForgotten'
  BY <1>1, <1>2 DEF IInv, OwnInfo, HeapInOrder, NoShardForgotten
<1> QED
  BY <1>2, <1>3, <1>4 DEF IInv

LEMMA NextIInv == IInv /\ [Next]_vars => IInv'
<1> SUFFICES ASSUME IInv, [Next]_vars PROVE IInv'
  OBVIOUS
<1>0. reading \in Shards \cup {NoShard}
  BY DEF IInv, TypeOK
<1>1. ASSUME NEW s \in Shards, AddShard(s) PROVE IInv'
  BY <1>1, AddKeepsIInv
<1>2. ASSUME NEW s \in Shards, RemoveShard(s) PROVE IInv'
  BY <1>2, RemoveKeepsIInv
<1>3. ASSUME NEW s \in Shards, ReadShard(s) PROVE IInv'
  <2>1. reading' \in Shards \cup {NoShard}
    BY <1>3 DEF ReadShard
  <2> QED
    BY <1>3, <2>1, OthersKeepIInv DEF ReadShard
<1>4. ASSUME NEW expired \in BOOLEAN, GetNextShard(expired) PROVE IInv'
  BY <1>4, GetNextKeepsIInv
<1>5. ASSUME NEW time \in 0 .. MaxTime, AfterRecord(time) PROVE IInv'
  BY <1>5, AfterRecordKeepsIInv
<1>6. CASE AfterNoRecord
  BY <1>6, AfterNoRecordKeepsIInv
<1>7. CASE ReadFails
  <2>1. reading' \in Shards \cup {NoShard}
    BY <1>7 DEF ReadFails
  <2> QED
    BY <1>7, <2>1, OthersKeepIInv DEF ReadFails
<1>8. CASE UNCHANGED vars
  <2>1. reading' \in Shards \cup {NoShard}
    BY <1>0, <1>8 DEF vars
  <2> QED
    BY <1>8, <2>1, OthersKeepIInv DEF vars
<1> QED
  BY <1>1, <1>2, <1>3, <1>4, <1>5, <1>6, <1>7, <1>8 DEF Next

LEMMA SpecIInv == Spec => []IInv
  BY InitIInv, NextIInv, PTL DEF Spec

----------------------------------------------------------------------------
(* The theorems *)

\* The members keep their types, and an index that an info has is one of the heap
\* (shard_offset_heap.cpp), also when an info lies in the heap twice.
THEOREM TypesKept == Spec => []TypeOK
<1>1. IInv => TypeOK
  BY DEF IInv
<1> QED
  BY <1>1, SpecIInv, PTL

\* GetNextShard, AfterRead, AddShard and RemoveShard forget no shard that has a reader
\* (shard_select_strategy.cpp): it is in the heap and valid, or in mEmptyShards.
THEOREM ShardsRemembered == Spec => []NoShardForgotten
<1>1. IInv => NoShardForgotten
  BY DEF IInv
<1> QED
  BY <1>1, SpecIInv, PTL

\* HeapUp and HeapDown keep the order of the heap and the indices of its nodes, through
\* every push, pop and update, until an info is pushed a second time.
THEOREM OldestOnTop == Spec => []OldestFirst
<1>1. IInv => OldestFirst
  <2> SUFFICES ASSUME IInv, ~ doubled, NEW i \in 0 .. Len(nodes) - 1
               PROVE  /\ index[nodes[i + 1]] = i
                      /\ i > 0 => timestamp[nodes[(i - 1) \div 2 + 1]] <= timestamp[nodes[i + 1]]
    BY DEF OldestFirst
  <2>1. Heap.nodes = nodes /\ Heap.index = index /\ Size(Heap) = Len(nodes) /\ Len(nodes) \in Nat
    BY StateFacts, HeapFacts DEF Size
  <2>2. Indexed(Heap) /\ Ordered(Heap, timestamp)
    BY DEF IInv, HeapInOrder
  <2>3. index[nodes[i + 1]] = i
    BY <2>1, <2>2 DEF Indexed, NodeAt
  <2>4. ASSUME i > 0 PROVE InOrder(Heap, timestamp, i)
    <3>1. i \in 1 .. Size(Heap) - 1
      BY <2>1, <2>4
    <3> QED
      BY <2>2, <3>1 DEF Ordered
  <2> QED
    BY <2>1, <2>3, <2>4 DEF InOrder, TimeAt, NodeAt, Parent
<1> QED
  BY <1>1, SpecIInv, PTL

=============================================================================
