---------------------- MODULE ShardGroupWriter_proofs ----------------------
(***************************************************************************)
(* The producers of a topic have the writers of the shards that MetaData   *)
(* knows, and their selectors lose none, for any shards, producers and     *)
(* threads.                                                                *)
(***************************************************************************)
EXTENDS ShardGroupWriter, SequencesExt, SequenceTheorems, FiniteSetTheorems,
        WellFoundedInduction, TLAPS

----------------------------------------------------------------------------
(* The inductive invariant *)

\* The thread that holds a mutex is one of its producer.
OwnersWrite ==
    \A p \in Producers, t \in Threads : writerMutex[p] = t => ProducerOf[t] = p

\* Write gets a writer only while it has attempts left.
AttemptsLeft ==
    \A t \in Threads : stage[t] \in {"get", "put"} /\ ~async[t] => budget[t] > 0

Updates(t) == stage[t] \in {"list", "notify", "create", "remove"}

\* The thread that has set mUpdating is the only one that updates; it may be gone.
OneUpdater ==
    \A t \in Threads : Updates(t) => updating /\ \A u \in Threads : Updates(u) => u = t

RegisteredWhileAlive == \A p \in Producers : life[p] = "absent" <=> p \notin coordinators

\* Whoever is under construction during an update may miss it.
LateUnderConstruction ==
    updating => \A p \in Producers : life[p] \in {"registered", "created"} => p \in late

\* mShardMetaMap does not change under an update.
ChangeIsDifference ==
    \A t \in Threads :
        stage[t] \in {"notify", "create", "remove"} =>
            /\ change[t].add = change[t].shards \ shardMetas
            /\ change[t].del = shardMetas \ change[t].shards
            /\ stage[t] # "notify" => target[t] \in visited[t]

\* The writers that an open producer has while t passes on its change.
Told(t, p) ==
    IF p \notin visited[t] \/ (target[t] = p /\ stage[t] = "create")
    THEN shardMetas
    ELSE IF target[t] = p /\ stage[t] = "remove" THEN shardMetas \cup change[t].shards
         ELSE change[t].shards

WritersAsTold ==
    \A p \in Producers \ late, t \in Threads :
        life[p] = "open" =>
            /\ stage[t] = "list" => writers[p] = shardMetas
            /\ stage[t] \in {"notify", "create", "remove"} => writers[p] = Told(t, p)

\* A producer that is created between two updates has the same writers as the others.
WritersUpToDate ==
    ~updating =>
        \A p \in Producers \ late : life[p] \in {"created", "open"} => writers[p] = shardMetas

\* What concerns the updates of mShardMetaMap.
UpdateInv ==
    /\ OneUpdater
    /\ RegisteredWhileAlive
    /\ LateUnderConstruction
    /\ ChangeIsDifference
    /\ WritersAsTold
    /\ WritersUpToDate

IInv ==
    /\ TypeOK
    /\ OwnersWrite
    /\ AttemptsLeft
    /\ NoWriterForgotten
    /\ UpdateInv

----------------------------------------------------------------------------
(* Induction over the numbers, as the least counterexample of a set *)

\* A non-empty set of numbers has a least element.
LEMMA LeastNumber ==
    ASSUME NEW T \in SUBSET Nat, T # {}
    PROVE  \E n \in T : \A m \in T : n <= m
<1> DEFINE R == {pair \in Nat \X Nat : pair[1] < pair[2]}
<1>1. IsWellFoundedOn(R, Nat)
  BY NatLessThanWellFounded DEF OpToRel
<1>2. PICK n \in T : \A m \in T : ~ (<<m, n>> \in R)
  <2>1. T \subseteq Nat
    OBVIOUS
  <2> HIDE DEF R
  <2> QED
    BY <1>1, <2>1, WFMin
<1>3. \A m \in T : ~ (m < n)
  BY <1>2
<1>4. \A m \in T : m \in Nat /\ n \in Nat
  OBVIOUS
<1> QED
  BY <1>3, <1>4

----------------------------------------------------------------------------
(* Sequences as the sets of their elements *)

LEMMA ToSetConcat ==
    ASSUME NEW S, NEW a \in Seq(S), NEW b \in Seq(S)
    PROVE  ToSet(a \o b) = ToSet(a) \cup ToSet(b)
<1> DEFINE c == a \o b
<1>1. /\ c \in Seq(S) /\ Len(c) = Len(a) + Len(b)
      /\ \A i \in 1 .. Len(a) + Len(b) : c[i] = IF i <= Len(a) THEN a[i] ELSE b[i - Len(a)]
  BY ConcatProperties
<1>2. /\ Len(a) \in Nat /\ Len(b) \in Nat
      /\ DOMAIN a = 1 .. Len(a) /\ DOMAIN b = 1 .. Len(b) /\ DOMAIN c = 1 .. Len(a) + Len(b)
  BY <1>1, LenProperties
<1> HIDE DEF c
<1>3. ASSUME NEW i \in DOMAIN c PROVE c[i] \in ToSet(a) \cup ToSet(b)
  <2>1. CASE i <= Len(a)
    BY <1>1, <1>2, <2>1 DEF ToSet
  <2>2. CASE ~ (i <= Len(a))
    <3>1. i - Len(a) \in DOMAIN b
      BY <1>2, <2>2
    <3> QED
      BY <1>1, <1>2, <2>2, <3>1 DEF ToSet
  <2> QED
    BY <2>1, <2>2
<1>4. ASSUME NEW i \in DOMAIN a PROVE a[i] \in ToSet(c)
  <2>1. i \in 1 .. Len(a) + Len(b) /\ i <= Len(a)
    BY <1>2
  <2> QED
    BY <1>1, <1>2, <2>1 DEF ToSet
<1>5. ASSUME NEW i \in DOMAIN b PROVE b[i] \in ToSet(c)
  <2> DEFINE j == Len(a) + i
  <2>1. j \in 1 .. Len(a) + Len(b) /\ ~ (j <= Len(a)) /\ j - Len(a) = i
    BY <1>2
  <2> HIDE DEF j
  <2> QED
    BY <1>1, <1>2, <2>1 DEF ToSet
<1>6. ToSet(c) \subseteq ToSet(a) \cup ToSet(b)
  BY <1>3 DEF ToSet
<1>7. ToSet(a) \subseteq ToSet(c) /\ ToSet(b) \subseteq ToSet(c)
  BY <1>4, <1>5 DEF ToSet
<1> QED
  BY <1>6, <1>7 DEF c

LEMMA ToSetAppend ==
    ASSUME NEW S, NEW a \in Seq(S), NEW e \in S
    PROVE  ToSet(Append(a, e)) = ToSet(a) \cup {e}
<1>1. /\ Len(a) \in Nat /\ DOMAIN a = 1 .. Len(a)
      /\ DOMAIN Append(a, e) = 1 .. Len(a) + 1
  BY LenProperties
<1>2. /\ Append(a, e)[Len(a) + 1] = e
      /\ \A i \in 1 .. Len(a) : Append(a, e)[i] = a[i]
  BY <1>1
<1>3. 1 .. Len(a) + 1 = (1 .. Len(a)) \cup {Len(a) + 1}
  BY <1>1
<1> QED
  BY <1>1, <1>2, <1>3 DEF ToSet

LEMMA ToSetType ==
    ASSUME NEW S, NEW a \in Seq(S)
    PROVE  ToSet(a) \subseteq S
BY LenProperties DEF ToSet

LEMMA SetToSeqType ==
    ASSUME NEW S, IsFiniteSet(S)
    PROVE  SetToSeq(S) \in Seq(S) /\ ToSet(SetToSeq(S)) = S
<1> DEFINE n == Cardinality(S)
           s == SetToSeq(S)
<1>1. n \in Nat /\ ExistsBijection(1 .. n, S)
  BY FS_CardinalityType
<1>2. PICK f \in Bijection(1 .. n, S) : TRUE
  BY <1>1 DEF ExistsBijection
<1>3. f \in [1 .. n -> S] /\ IsInjective(f)
  BY <1>2 DEF Bijection, Injection
<1>4. s \in [1 .. n -> S] /\ IsInjective(s)
  BY <1>3 DEF SetToSeq
<1> HIDE DEF s
<1>5. s \in Injection(1 .. n, S)
  BY <1>4 DEF Injection
<1>6. Cardinality(1 .. n) = n
  BY <1>1, FS_Interval
<1>7. s \in Surjection(1 .. n, S)
  <2> HIDE DEF n
  <2>1. Cardinality(1 .. n) = Cardinality(S)
    BY <1>6 DEF n
  <2> QED
    BY <1>5, <2>1, FS_Injection
<1>8. ToSet(s) = S
  BY <1>4, <1>7 DEF Surjection, ToSet
<1>9. s \in Seq(S)
  <2> HIDE DEF n
  <2> QED
    BY <1>1, <1>4
<1> QED
  BY <1>8, <1>9 DEF s

----------------------------------------------------------------------------
(* The selector *)

\* f[i] is the first i entries of the list without the shards.
Filters(f, active, shards, n) ==
    /\ DOMAIN f = 0 .. n
    /\ \A i \in 0 .. n :
          f[i] = IF i = 0 THEN <<>>
                 ELSE IF active[i] \in shards THEN f[i - 1] ELSE Append(f[i - 1], active[i])

LEMMA FilterExists ==
    ASSUME NEW S, NEW active \in Seq(S), NEW shards, NEW n \in 0 .. Len(active)
    PROVE  \E f : Filters(f, active, shards, n)
<1>0. Len(active) \in Nat
  BY LenProperties
<1> DEFINE T == {m \in 0 .. Len(active) : ~ \E f : Filters(f, active, shards, m)}
<1> SUFFICES ASSUME T # {} PROVE FALSE
  OBVIOUS
<1>1. PICK m \in T : \A k \in T : m <= k
  BY <1>0, LeastNumber, T \subseteq Nat
<1>2. m # 0
  <2>1. Filters([i \in 0 .. 0 |-> <<>>], active, shards, 0)
    BY DEF Filters
  <2> QED
    BY <1>1, <2>1
<1>3. m \in Nat /\ m - 1 \in 0 .. Len(active) /\ m - 1 \notin T
  <2>1. m \in 0 .. Len(active)
    OBVIOUS
  <2>2. ~ (m <= m - 1)
    BY <1>0, <2>1
  <2>3. m - 1 \notin T
    <3> HIDE DEF T
    <3> QED
      BY <1>1, <2>2
  <2> QED
    BY <1>0, <1>2, <2>1, <2>3
<1>4. PICK g : Filters(g, active, shards, m - 1)
  BY <1>3
<1> DEFINE f == [i \in 0 .. m |->
                   IF i < m THEN g[i]
                   ELSE IF active[i] \in shards THEN g[i - 1] ELSE Append(g[i - 1], active[i])]
<1>5. Filters(f, active, shards, m)
  <2>1. ASSUME NEW i \in 0 .. m
        PROVE  f[i] = IF i = 0 THEN <<>>
                      ELSE IF active[i] \in shards THEN f[i - 1]
                           ELSE Append(f[i - 1], active[i])
    <3>1. i # 0 => i - 1 \in 0 .. m /\ i - 1 < m
      BY <1>3
    <3>2. CASE i < m
      <4>1. i \in 0 .. m - 1
        BY <1>3, <3>2
      <4> QED
        BY <1>4, <3>1, <3>2, <4>1 DEF Filters
    <3>3. CASE i = m
      BY <1>2, <3>1, <3>3
    <3> QED
      BY <1>3, <3>2, <3>3
  <2> QED
    BY <2>1 DEF Filters
<1> QED
  BY <1>1, <1>5

LEMMA FilterDef ==
    ASSUME NEW S, NEW active \in Seq(S), NEW shards
    PROVE  \E f : /\ Filters(f, active, shards, Len(active))
                 /\ WithoutShards(active, shards) = f[Len(active)]
<1> DEFINE n == Len(active)
           IsFilter(f) ==
             f = [i \in 0 .. n |->
                    IF i = 0 THEN <<>>
                    ELSE IF active[i] \in shards THEN f[i - 1] ELSE Append(f[i - 1], active[i])]
           F == CHOOSE f : IsFilter(f)
<1>0. n \in Nat
  BY LenProperties
<1>1. PICK f : Filters(f, active, shards, n)
  <2>1. n \in 0 .. Len(active)
    BY <1>0
  <2> HIDE DEF n
  <2> QED
    BY <2>1, FilterExists
<1>2. IsFilter([i \in 0 .. n |-> f[i]])
  <2> DEFINE h == [i \in 0 .. n |-> f[i]]
  <2>1. ASSUME NEW i \in 0 .. n
        PROVE  h[i] = IF i = 0 THEN <<>>
                      ELSE IF active[i] \in shards THEN h[i - 1]
                           ELSE Append(h[i - 1], active[i])
    <3>1. i # 0 => i - 1 \in 0 .. n
      BY <1>0
    <3> QED
      BY <1>1, <3>1 DEF Filters
  <2> QED
    BY <2>1
<1>3. IsFilter(F)
  BY <1>2
<1>4. Filters(F, active, shards, n)
  <2> HIDE DEF F
  <2> QED
    BY <1>3 DEF Filters
<1>5. WithoutShards(active, shards) = F[n]
  BY DEF WithoutShards
<1> QED
  BY <1>4, <1>5

LEMMA WithoutShardsType ==
    ASSUME NEW S, NEW active \in Seq(S), NEW shards
    PROVE  /\ WithoutShards(active, shards) \in Seq(S)
           /\ ToSet(WithoutShards(active, shards)) = ToSet(active) \ shards
<1> DEFINE n == Len(active)
           First(m) == {active[i] : i \in 1 .. m}
<1>0. n \in Nat /\ DOMAIN active = 1 .. n /\ active \in [1 .. n -> S]
  BY LenProperties
<1>1. PICK f : Filters(f, active, shards, n) /\ WithoutShards(active, shards) = f[n]
  BY FilterDef
<1> DEFINE Good(m) == f[m] \in Seq(S) /\ ToSet(f[m]) = First(m) \ shards
           T == {m \in 0 .. n : ~ Good(m)}
<1>2. T = {}
  <2> SUFFICES ASSUME T # {} PROVE FALSE
    OBVIOUS
  <2>1. PICK m \in T : \A k \in T : m <= k
    BY <1>0, LeastNumber, T \subseteq Nat
  <2>2. Good(0)
    <3>1. f[0] = <<>>
      BY <1>0, <1>1 DEF Filters
    <3>2. ToSet(<<>>) = {} /\ First(0) = {}
      BY DEF ToSet
    <3> QED
      BY <3>1, <3>2
  <2>3. m \in 0 .. n /\ ~ Good(m)
    OBVIOUS
  <2>4. m # 0
    BY <2>2, <2>3
  <2>5. m \in 1 .. n /\ m - 1 \in 0 .. n /\ ~ (m <= m - 1)
    BY <1>0, <2>3, <2>4
  <2>6. Good(m - 1)
    <3>1. m - 1 \notin T
      <4> HIDE DEF T
      <4> QED
        BY <2>1, <2>5
    <3> QED
      BY <2>5, <3>1
  <2>7. f[m] = IF active[m] \in shards THEN f[m - 1] ELSE Append(f[m - 1], active[m])
    BY <1>1, <2>4, <2>5 DEF Filters
  <2>8. active[m] \in S
    BY <1>0, <2>5
  <2>9. First(m) = First(m - 1) \cup {active[m]}
    <3>1. 1 .. m = (1 .. m - 1) \cup {m}
      BY <1>0, <2>5
    <3> QED
      BY <3>1
  <2> HIDE DEF First
  <2>10. CASE active[m] \in shards
    <3>1. f[m] = f[m - 1]
      BY <2>7, <2>10
    <3>2. First(m) \ shards = First(m - 1) \ shards
      BY <2>9, <2>10
    <3> QED
      BY <2>3, <2>6, <3>1, <3>2
  <2>11. CASE active[m] \notin shards
    <3>1. f[m] = Append(f[m - 1], active[m])
      BY <2>7, <2>11
    <3>2. ToSet(f[m]) = ToSet(f[m - 1]) \cup {active[m]}
      BY <2>6, <2>8, <3>1, ToSetAppend
    <3>3. f[m] \in Seq(S)
      BY <2>6, <2>8, <3>1
    <3>4. ToSet(f[m]) = First(m) \ shards
      BY <2>6, <2>9, <2>11, <3>2
    <3> QED
      BY <2>3, <3>3, <3>4
  <2> QED
    BY <2>10, <2>11
<1>3. Good(n)
  <2> HIDE DEF Good
  <2> QED
    BY <1>0, <1>2
<1>4. First(n) = ToSet(active)
  BY <1>0 DEF ToSet
<1> QED
  BY <1>1, <1>3, <1>4

\* The shards that a selector knows.
Known(sel) == ToSet(sel.active) \cup sel.inactive

LEMMA NewSelectorType == ASSUME NEW S PROVE NewSelector \in Selector(S)
BY EmptySeq DEF NewSelector, Selector

LEMMA SelectorExcept ==
    ASSUME NEW S, NEW sel \in Selector(S), NEW a, NEW b
    PROVE  [sel EXCEPT !.active = a, !.inactive = b]
               = [active |-> a, inactive |-> b, index |-> sel.index]
<1>1. DOMAIN sel = {"active", "inactive", "index"}
  BY DEF Selector
<1> DEFINE new == [sel EXCEPT !.active = a, !.inactive = b]
<1>2. /\ DOMAIN new = {"active", "inactive", "index"}
      /\ new = [f \in {"active", "inactive", "index"} |-> new[f]]
  BY <1>1
<1>3. new.active = a /\ new.inactive = b /\ new.index = sel.index
  BY <1>1
<1> HIDE DEF new
<1>4. new = [active |-> a, inactive |-> b, index |-> sel.index]
  BY <1>2, <1>3
<1> QED
  BY <1>4 DEF new

LEMMA AddShardsKnown ==
    ASSUME NEW S, IsFiniteSet(S), NEW sel \in Selector(S), NEW shards \in SUBSET S
    PROVE  /\ AddShards(sel, shards) \in Selector(S)
           /\ Known(AddShards(sel, shards)) = Known(sel) \cup shards
<1>1. IsFiniteSet(shards)
  BY FS_Subset
<1>2. SetToSeq(shards) \in Seq(shards) /\ ToSet(SetToSeq(shards)) = shards
  BY <1>1, SetToSeqType
<1>3. SetToSeq(shards) \in Seq(S)
  BY <1>2, SeqMonotonic
<1>4. sel.active \in Seq(S) /\ sel.inactive \in SUBSET S /\ sel.index \in Int
  BY DEF Selector
<1> DEFINE new == AddShards(sel, shards)
<1>5. new = [active |-> sel.active \o SetToSeq(shards), inactive |-> sel.inactive \ shards,
             index |-> sel.index]
  BY SelectorExcept DEF AddShards
<1>6. sel.active \o SetToSeq(shards) \in Seq(S)
  BY <1>3, <1>4, ConcatProperties
<1>7. new \in Selector(S)
  BY <1>4, <1>5, <1>6 DEF Selector
<1>8. ToSet(new.active) = ToSet(sel.active) \cup shards
  BY <1>2, <1>3, <1>4, <1>5, ToSetConcat
<1> QED
  BY <1>4, <1>5, <1>7, <1>8 DEF Known

LEMMA RemoveShardsKnown ==
    ASSUME NEW S, NEW sel \in Selector(S), NEW shards
    PROVE  /\ RemoveShards(sel, shards) \in Selector(S)
           /\ Known(RemoveShards(sel, shards)) = Known(sel) \ shards
<1>1. sel.active \in Seq(S) /\ sel.inactive \in SUBSET S /\ sel.index \in Int
  BY DEF Selector
<1> DEFINE new == RemoveShards(sel, shards)
           rest == WithoutShards(sel.active, shards)
<1>2. new = [active |-> rest, inactive |-> sel.inactive \ shards, index |-> sel.index]
  BY SelectorExcept DEF RemoveShards
<1>3. rest \in Seq(S) /\ ToSet(rest) = ToSet(sel.active) \ shards
  BY <1>1, WithoutShardsType
<1> HIDE DEF rest, new
<1>4. new \in Selector(S)
  BY <1>1, <1>2, <1>3 DEF Selector
<1>5. Known(new) = Known(sel) \ shards
  BY <1>2, <1>3 DEF Known
<1> QED
  BY <1>4, <1>5 DEF new

LEMMA AddInvalidShardKnown ==
    ASSUME NEW S, NEW sel \in Selector(S), NEW s \in S
    PROVE  /\ AddInvalidShard(sel, s) \in Selector(S)
           /\ Known(AddInvalidShard(sel, s)) = Known(sel) \cup {s}
<1>1. sel.active \in Seq(S) /\ sel.inactive \in SUBSET S /\ sel.index \in Int
  BY DEF Selector
<1> DEFINE new == AddInvalidShard(sel, s)
           rest == WithoutShards(sel.active, {s})
<1>2. new = [active |-> rest, inactive |-> sel.inactive \cup {s}, index |-> sel.index]
  BY SelectorExcept DEF AddInvalidShard
<1>3. rest \in Seq(S) /\ ToSet(rest) = ToSet(sel.active) \ {s}
  BY <1>1, WithoutShardsType
<1> HIDE DEF rest, new
<1>4. new \in Selector(S)
  BY <1>1, <1>2, <1>3 DEF Selector
<1>5. Known(new) = Known(sel) \cup {s}
  BY <1>2, <1>3 DEF Known
<1> QED
  BY <1>4, <1>5 DEF new

\* GetNextShard keeps the shards that the selector knows and returns one of them.
LEMMA AdvancedKnown ==
    ASSUME NEW S, IsFiniteSet(S), NEW sel \in Selector(S), NEW expired \in BOOLEAN,
           HasNextShard(sel, expired)
    PROVE  /\ Advanced(sel, expired) \in Selector(S)
           /\ Known(Advanced(sel, expired)) = Known(sel)
           /\ GetNextShard(sel, expired) \in S
<1>1. sel.active \in Seq(S) /\ sel.inactive \in SUBSET S /\ sel.index \in Int
  BY DEF Selector
<1> DEFINE failed == SetToSeq(sel.inactive)
           next == Reactivated(sel, expired)
           new == Advanced(sel, expired)
<1>2. failed \in Seq(S) /\ ToSet(failed) = sel.inactive
  BY <1>1, FS_Subset, SetToSeqType, SeqMonotonic
<1>3. next \in Selector(S) /\ Known(next) = Known(sel)
  <2>1. CASE next = sel
    BY <2>1
  <2>2. CASE next = [sel EXCEPT !.active = @ \o failed]
    <3>1. next = [active |-> sel.active \o failed, inactive |-> sel.inactive,
                  index |-> sel.index]
      BY <2>2 DEF Selector
    <3> HIDE DEF next
    <3>2. sel.active \o failed \in Seq(S)
      BY <1>1, <1>2, ConcatProperties
    <3>3. ToSet(sel.active \o failed) = ToSet(sel.active) \cup sel.inactive
      BY <1>1, <1>2, ToSetConcat
    <3> HIDE DEF failed
    <3> QED
      BY <1>1, <3>1, <3>2, <3>3 DEF Selector, Known
  <2> QED
    BY <2>1, <2>2 DEF Reactivated
<1>4. next.active # <<>>
  BY DEF HasNextShard
<1>5. new = [next EXCEPT !.index = (@ + 1) % Len(next.active)]
  BY DEF Advanced
<1> HIDE DEF next
<1>6. next.active \in Seq(S) /\ next.inactive \in SUBSET S /\ next.index \in Int
  BY <1>3 DEF Selector
<1>7. new = [active |-> next.active, inactive |-> next.inactive,
             index |-> (next.index + 1) % Len(next.active)]
  BY <1>3, <1>5 DEF Selector
<1> HIDE DEF new
<1>8. Len(next.active) \in Nat \ {0} /\ next.active \in [1 .. Len(next.active) -> S]
  BY <1>4, <1>6, EmptySeq, LenProperties
<1>9. (next.index + 1) % Len(next.active) \in 0 .. Len(next.active) - 1
  BY <1>6, <1>8
<1>10. new \in Selector(S)
  BY <1>6, <1>7, <1>9 DEF Selector
<1>11. Known(new) = Known(sel)
  BY <1>3, <1>7 DEF Known
<1>12. new.active[new.index + 1] \in S
  <2>1. new.index \in 0 .. Len(next.active) - 1 /\ new.active = next.active
    BY <1>7, <1>9
  <2>2. new.index + 1 \in 1 .. Len(next.active)
    BY <1>8, <2>1
  <2> QED
    BY <1>8, <2>1, <2>2
<1> QED
  BY <1>10, <1>11, <1>12 DEF GetNextShard, new

----------------------------------------------------------------------------
(* Parts of the type invariant, and what the groups of steps leave alone *)

Stages == {"idle", "list", "notify", "create", "remove", "select", "get", "put", "flush"}

StageTyped ==
    /\ stage \in [Threads -> Stages]
    /\ writerMutex \in [Producers -> Threads \cup {NoThread}]
    /\ \A p \in Producers, t \in Threads : writerMutex[p] = t => stage[t] = "flush"

MetaTyped ==
    /\ shardMetas \in SUBSET Shards
    /\ updating \in BOOLEAN
    /\ coordinators \in SUBSET Producers
    /\ life \in [Producers -> {"absent", "registered", "created", "open", "closed"}]
    /\ late \in SUBSET Producers

ProducerTyped ==
    /\ writers \in [Producers -> SUBSET Shards]
    /\ selector \in [Producers -> Selector(Shards)]

CallTyped ==
    /\ budget \in [Threads -> 0 .. Cardinality(Shards)]
    /\ async \in [Threads -> BOOLEAN]
    /\ chosen \in [Threads -> Shards]

UpdateTyped ==
    /\ change \in [Threads -> [add : SUBSET Shards, del : SUBSET Shards, shards : SUBSET Shards]]
    /\ visited \in [Threads -> SUBSET Producers]
    /\ target \in [Threads -> Producers]

OtherTyped ==
    /\ topic \in SUBSET Shards /\ reshards \in 0 .. MaxReshards
    /\ unflushed \in [Threads -> SUBSET Shards]
    /\ tasks \in SUBSET (Producers \X Shards)

LEMMA TypeParts ==
    TypeOK <=> /\ StageTyped /\ MetaTyped /\ ProducerTyped
               /\ CallTyped /\ UpdateTyped /\ OtherTyped
BY DEF TypeOK, Stages, StageTyped, MetaTyped, ProducerTyped, CallTyped, UpdateTyped, OtherTyped

\* MetaData, the producers and the updates under way stay as they are.
MetaKept ==
    /\ shardMetas' = shardMetas /\ updating' = updating /\ coordinators' = coordinators
    /\ life' = life /\ late' = late

UpdateKept == change' = change /\ visited' = visited /\ target' = target

ProducerKept == writers' = writers /\ selector' = selector

CallKept == budget' = budget /\ async' = async /\ chosen' = chosen

OtherKept == topic' = topic /\ reshards' = reshards /\ unflushed' = unflushed /\ tasks' = tasks

LEMMA Kept ==
    /\ MetaKept /\ MetaTyped => MetaTyped'
    /\ UpdateKept /\ UpdateTyped => UpdateTyped'
    /\ ProducerKept /\ ProducerTyped => ProducerTyped'
    /\ CallKept /\ CallTyped => CallTyped'
    /\ OtherKept /\ OtherTyped => OtherTyped'
BY DEF MetaKept, UpdateKept, ProducerKept, CallKept, OtherKept,
       MetaTyped, UpdateTyped, ProducerTyped, CallTyped, OtherTyped

\* A thread in Write or WriteAsync touches its call, the selector and the tasks only.
LEMMA WriteFrame ==
    ASSUME NEW t \in Threads, WriteStep(t)
    PROVE  /\ MetaKept /\ UpdateKept /\ writerMutex' = writerMutex /\ writers' = writers
           /\ topic' = topic /\ reshards' = reshards /\ unflushed' = unflushed
           /\ stage[t] \in {"select", "get", "put"}
           /\ \E s \in {"idle", "select", "get", "put"} : Goto(t, s)
BY DEF WriteStep, OutOfBudget, Select, SelectNone, GetShardWriter, PutSucceeds, PutFails,
       AppendRecord, QueueFull, Return, service, meta, producer, update, MetaKept, UpdateKept

LEMMA FlushFrame ==
    ASSUME NEW t \in Threads, FlushStep(t)
    PROVE  /\ MetaKept /\ UpdateKept /\ CallKept /\ ProducerKept
           /\ topic' = topic /\ reshards' = reshards /\ tasks' = tasks
           /\ stage[t] = "flush"
           /\ \/ stage' = stage /\ writerMutex' = writerMutex
              \/ EndFlush(t)
BY DEF FlushStep, EndFlush, FlushWriter, service, meta, producer, call, update,
       MetaKept, UpdateKept, CallKept, ProducerKept

LEMMA StartFlushFrame ==
    ASSUME NEW t \in Threads, StartFlush(t)
    PROVE  /\ MetaKept /\ UpdateKept /\ CallKept /\ ProducerKept
           /\ topic' = topic /\ reshards' = reshards /\ tasks' = tasks
           /\ stage[t] = "idle" /\ Goto(t, "flush")
BY DEF StartFlush, service, meta, producer, call, update,
       MetaKept, UpdateKept, CallKept, ProducerKept

LEMMA StartWriteFrame ==
    ASSUME NEW t \in Threads, NEW isAsync \in BOOLEAN, StartWrite(t, isAsync)
    PROVE  /\ MetaKept /\ UpdateKept /\ ProducerKept /\ OtherKept
           /\ writerMutex' = writerMutex
           /\ stage[t] = "idle" /\ Goto(t, "select")
BY DEF StartWrite, Enters, service, meta, producer, update,
       MetaKept, UpdateKept, ProducerKept, OtherKept

LEMMA SendFrame ==
    ASSUME NEW p \in Producers, NEW s \in Shards, NEW stored \in BOOLEAN,
           SendTaskOnce(p, s, stored)
    PROVE  /\ MetaKept /\ UpdateKept /\ CallKept /\ writers' = writers
           /\ topic' = topic /\ reshards' = reshards /\ unflushed' = unflushed
           /\ stage' = stage /\ writerMutex' = writerMutex
BY DEF SendTaskOnce, service, meta, call, update, MetaKept, UpdateKept, CallKept

LEMMA ReshardFrame ==
    ASSUME Reshard
    PROVE  /\ MetaKept /\ UpdateKept /\ CallKept /\ ProducerKept
           /\ tasks' = tasks /\ unflushed' = unflushed
           /\ stage' = stage /\ writerMutex' = writerMutex
BY DEF Reshard, meta, producer, call, update, MetaKept, UpdateKept, CallKept, ProducerKept

LEMMA ListFailsFrame ==
    ASSUME NEW t \in Threads, ListShardFails(t)
    PROVE  /\ MetaKept /\ UpdateKept /\ ProducerKept /\ OtherKept
           /\ writerMutex' = writerMutex
           /\ stage[t] = "list" /\ Goto(t, "idle")
BY DEF ListShardFails, Return, service, meta, producer, update,
       MetaKept, UpdateKept, ProducerKept, OtherKept

----------------------------------------------------------------------------
(* The threads and the mutex of the writers *)

LEMMA GotoEffect ==
    ASSUME StageTyped, NEW t \in Threads, NEW s \in Stages, Goto(t, s)
    PROVE  /\ stage' \in [Threads -> Stages]
           /\ stage'[t] = s
           /\ \A u \in Threads : u # t => stage'[u] = stage[u]
BY DEF StageTyped, Goto

\* A thread that does not hold the mutex goes on.
LEMMA ThreadMoves ==
    ASSUME StageTyped, OwnersWrite, NEW t \in Threads, NEW s \in Stages,
           stage[t] # "flush", Goto(t, s), writerMutex' = writerMutex
    PROVE  StageTyped' /\ OwnersWrite'
<1>1. /\ stage' \in [Threads -> Stages]
      /\ \A u \in Threads : u # t => stage'[u] = stage[u]
  BY GotoEffect
<1>2. \A p \in Producers : writerMutex[p] # t
  BY DEF StageTyped
<1> QED
  BY <1>1, <1>2 DEF StageTyped, OwnersWrite

LEMMA NobodyMoves ==
    ASSUME StageTyped, OwnersWrite, stage' = stage, writerMutex' = writerMutex
    PROVE  StageTyped' /\ OwnersWrite'
BY DEF StageTyped, OwnersWrite

LEMMA FlushKeepsStages ==
    ASSUME StageTyped, OwnersWrite, NEW t \in Threads, StartFlush(t) \/ FlushStep(t)
    PROVE  StageTyped' /\ OwnersWrite'
<1>0. ProducerOf[t] \in Producers /\ NoThread \notin Threads
  BY ProducerOfAssumption, NoThreadAssumption
<1>1. CASE StartFlush(t)
  <2>1. /\ stage' \in [Threads -> Stages] /\ stage'[t] = "flush"
        /\ \A u \in Threads : u # t => stage'[u] = stage[u]
    BY <1>1, StartFlushFrame, GotoEffect DEF Stages
  <2>2. writerMutex' = [writerMutex EXCEPT ![ProducerOf[t]] = t]
    BY <1>1 DEF StartFlush
  <2> QED
    BY <1>0, <2>1, <2>2 DEF StageTyped, OwnersWrite
<1>2. CASE EndFlush(t)
  <2>1. Goto(t, "idle") /\ writerMutex' = [writerMutex EXCEPT ![ProducerOf[t]] = NoThread]
    BY <1>2 DEF EndFlush, Unlock
  <2>2. /\ stage' \in [Threads -> Stages]
        /\ \A u \in Threads : u # t => stage'[u] = stage[u]
    BY <2>1, GotoEffect DEF Stages
  <2>3. \A p \in Producers : writerMutex'[p] # t
    BY <1>0, <2>1 DEF StageTyped, OwnersWrite
  <2>4. writerMutex' \in [Producers -> Threads \cup {NoThread}]
    BY <1>0, <2>1 DEF StageTyped
  <2>5. \A p \in Producers : writerMutex'[p] = writerMutex[p] \/ writerMutex'[p] = NoThread
    BY <1>0, <2>1 DEF StageTyped
  <2>6. \A p \in Producers, u \in Threads : writerMutex'[p] = u => writerMutex[p] = u /\ u # t
    BY <1>0, <2>3, <2>5
  <2> QED
    BY <2>2, <2>4, <2>6 DEF StageTyped, OwnersWrite
<1>3. CASE FlushStep(t) /\ ~ EndFlush(t)
  BY <1>3, FlushFrame, NobodyMoves
<1> QED
  BY <1>1, <1>2, <1>3

----------------------------------------------------------------------------
(* The updates of mShardMetaMap *)

\* No step outside an update disturbs it; a thread may leave it.
LEMMA UpdateUndisturbed ==
    ASSUME UpdateInv, MetaKept, UpdateKept, writers' = writers,
           \A u \in Threads : stage'[u] = stage[u] \/ ~ Updates(u)'
    PROVE  UpdateInv'
<1> USE DEF UpdateInv, MetaKept, UpdateKept, Updates
<1>1. OneUpdater'
  BY DEF OneUpdater
<1>2. RegisteredWhileAlive'
  BY DEF RegisteredWhileAlive
<1>3. LateUnderConstruction'
  BY DEF LateUnderConstruction
<1>4. ChangeIsDifference'
  BY DEF ChangeIsDifference
<1>5. WritersAsTold'
  BY DEF WritersAsTold, Told
<1>6. WritersUpToDate'
  BY DEF WritersUpToDate
<1> QED
  BY <1>1, <1>2, <1>3, <1>4, <1>5, <1>6

LEMMA BeginUpdateKeeps ==
    ASSUME TypeOK, UpdateInv, NEW t \in Threads, NEW isAsync \in BOOLEAN, BeginUpdate(t, isAsync)
    PROVE  UpdateInv'
<1>1. /\ ~ updating /\ updating' = TRUE /\ Goto(t, "list")
      /\ late' = late \cup {p \in Producers : life[p] \in {"registered", "created"}}
      /\ shardMetas' = shardMetas /\ coordinators' = coordinators
      /\ life' = life /\ writers' = writers /\ UpdateKept
  BY DEF BeginUpdate, MayUpdate, service, producer, update, UpdateKept
<1>2. /\ stage'[t] = "list"
      /\ \A u \in Threads : u # t => stage'[u] = stage[u]
  BY <1>1, TypeParts, GotoEffect DEF Stages
<1>3. \A u \in Threads : ~ Updates(u)
  BY <1>1 DEF UpdateInv, OneUpdater
<1>4. \A u \in Threads : Updates(u)' <=> u = t
  BY <1>2, <1>3 DEF Updates
<1>5. OneUpdater'
  BY <1>1, <1>4 DEF OneUpdater
<1>6. RegisteredWhileAlive' /\ LateUnderConstruction'
  BY <1>1 DEF UpdateInv, RegisteredWhileAlive, LateUnderConstruction
<1>7. ChangeIsDifference'
  BY <1>2, <1>4 DEF ChangeIsDifference, Updates
<1>8. WritersAsTold' /\ WritersUpToDate'
  <2>1. \A p \in Producers \ late' : life[p] = "open" => writers[p] = shardMetas
    BY <1>1 DEF UpdateInv, WritersUpToDate
  <2> QED
    BY <1>1, <1>2, <1>4, <2>1 DEF WritersAsTold, WritersUpToDate, Updates
<1> QED
  BY <1>5, <1>6, <1>7, <1>8 DEF UpdateInv

\* While t updates, no other thread does.
LEMMA UpdaterAlone ==
    ASSUME StageTyped, UpdateInv, NEW t \in Threads, Updates(t), NEW s \in Stages, Goto(t, s)
    PROVE  /\ updating /\ stage'[t] = s
           /\ \A u \in Threads : u # t => ~ Updates(u)'
           /\ updating' \/ s \notin {"list", "notify", "create", "remove"} => OneUpdater'
<1>1. /\ stage'[t] = s
      /\ \A u \in Threads : u # t => stage'[u] = stage[u]
  BY GotoEffect
<1>2. updating /\ \A u \in Threads : u # t => ~ Updates(u)
  BY DEF UpdateInv, OneUpdater
<1>3. \A u \in Threads : u # t => ~ Updates(u)'
  BY <1>1, <1>2 DEF Updates
<1>4. updating' \/ s \notin {"list", "notify", "create", "remove"} => OneUpdater'
  BY <1>1, <1>3 DEF OneUpdater, Updates
<1> QED
  BY <1>1, <1>2, <1>3, <1>4

LEMMA ListShardKeeps ==
    ASSUME TypeOK, UpdateInv, NEW t \in Threads, ListShard(t)
    PROVE  UpdateInv'
<1> DEFINE new == [add |-> topic \ shardMetas, del |-> shardMetas \ topic, shards |-> topic]
<1>1. /\ stage[t] = "list" /\ Goto(t, "notify") /\ MetaKept /\ writers' = writers
      /\ change' = [change EXCEPT ![t] = new]
      /\ visited' = [visited EXCEPT ![t] = IF topic = shardMetas THEN Producers ELSE {}]
      /\ target' = target
  BY DEF ListShard, service, meta, producer, MetaKept
<1>2. /\ updating /\ stage'[t] = "notify" /\ OneUpdater'
      /\ \A u \in Threads : u # t => ~ Updates(u)'
  BY <1>1, TypeParts, UpdaterAlone DEF Updates, Stages, MetaKept
<1>3. /\ change'[t] = new
      /\ visited'[t] = IF topic = shardMetas THEN Producers ELSE {}
  BY <1>1 DEF TypeOK
<1>4. RegisteredWhileAlive' /\ LateUnderConstruction' /\ WritersUpToDate'
  BY <1>1, <1>2 DEF UpdateInv, RegisteredWhileAlive, LateUnderConstruction, WritersUpToDate,
                    MetaKept
<1>5. ChangeIsDifference'
  <2>1. /\ change'[t].add = change'[t].shards \ shardMetas'
        /\ change'[t].del = shardMetas' \ change'[t].shards
    BY <1>1, <1>3 DEF MetaKept
  <2> QED
    BY <1>2, <2>1 DEF ChangeIsDifference, Updates
<1>6. WritersAsTold'
  <2>1. \A p \in Producers \ late : life[p] = "open" => writers[p] = shardMetas
    BY <1>1 DEF UpdateInv, WritersAsTold
  <2>2. \A p \in Producers : Told(t, p)' = shardMetas
    BY <1>1, <1>2, <1>3 DEF Told, MetaKept
  <2> QED
    BY <1>1, <1>2, <2>1, <2>2 DEF WritersAsTold, Updates, MetaKept
<1> QED
  BY <1>2, <1>4, <1>5, <1>6 DEF UpdateInv

LEMMA NotifyKeeps ==
    ASSUME TypeOK, UpdateInv, NEW t \in Threads, NEW p \in Producers, Notify(t, p)
    PROVE  UpdateInv'
<1>1. /\ stage[t] = "notify" /\ MetaKept /\ writers' = writers /\ change' = change
      /\ p \notin visited[t] /\ visited' = [visited EXCEPT ![t] = @ \cup {p}]
  BY DEF Notify, Unvisited, service, meta, producer, call, MetaKept
<1>2. visited'[t] = visited[t] \cup {p}
  BY <1>1 DEF TypeOK
<1>3. /\ updating /\ OneUpdater'
      /\ \A u \in Threads : u # t => ~ Updates(u)'
      /\ \/ life[p] = "open" /\ stage'[t] = "create" /\ target'[t] = p
         \/ life[p] # "open" /\ stage'[t] = "notify"
  <2>1. CASE life[p] = "open"
    <3>1. Goto(t, "create") /\ target' = [target EXCEPT ![t] = p]
      BY <2>1 DEF Notify
    <3>2. target'[t] = p
      BY <3>1 DEF TypeOK
    <3> QED
      BY <1>1, <2>1, <3>1, <3>2, TypeParts, UpdaterAlone DEF Updates, Stages, MetaKept
  <2>2. CASE life[p] # "open"
    <3>1. stage' = stage
      BY <2>2 DEF Notify
    <3> QED
      BY <1>1, <2>2, <3>1 DEF UpdateInv, OneUpdater, Updates, MetaKept
  <2> QED
    BY <2>1, <2>2
<1>4. RegisteredWhileAlive' /\ LateUnderConstruction' /\ WritersUpToDate'
  BY <1>1, <1>3 DEF UpdateInv, RegisteredWhileAlive, LateUnderConstruction, WritersUpToDate,
                    MetaKept
<1>5. ChangeIsDifference'
  BY <1>1, <1>2, <1>3 DEF UpdateInv, ChangeIsDifference, Updates, MetaKept
<1>6. WritersAsTold'
  <2>1. \A q \in Producers \ late : life[q] = "open" => writers[q] = Told(t, q)
    BY <1>1 DEF UpdateInv, WritersAsTold
  <2>2. \A q \in Producers : life[q] = "open" => Told(t, q)' = Told(t, q)
    BY <1>1, <1>2, <1>3 DEF Told, MetaKept
  <2> QED
    BY <1>1, <1>3, <2>1, <2>2 DEF WritersAsTold, Updates, MetaKept
<1> QED
  BY <1>3, <1>4, <1>5, <1>6 DEF UpdateInv

LEMMA NotifyClosedKeeps ==
    ASSUME TypeOK, UpdateInv, NEW t \in Threads, NotifyClosed(t)
    PROVE  UpdateInv'
<1>1. stage[t] = "notify" /\ Goto(t, "idle") /\ MetaKept /\ writers' = writers
  BY DEF NotifyClosed, Return, service, meta, producer, MetaKept
<1>2. /\ updating /\ stage'[t] = "idle" /\ OneUpdater'
      /\ \A u \in Threads : u # t => ~ Updates(u)'
  BY <1>1, TypeParts, UpdaterAlone DEF Updates, Stages, MetaKept
<1>3. \A u \in Threads : ~ Updates(u)'
  BY <1>2 DEF Updates
<1>4. RegisteredWhileAlive' /\ LateUnderConstruction' /\ WritersUpToDate'
  BY <1>1, <1>2 DEF UpdateInv, RegisteredWhileAlive, LateUnderConstruction, WritersUpToDate,
                    MetaKept
<1>5. ChangeIsDifference' /\ WritersAsTold'
  BY <1>3 DEF ChangeIsDifference, WritersAsTold, Updates
<1> QED
  BY <1>2, <1>4, <1>5 DEF UpdateInv

\* The callback of a producer creates the writers of the new shards ...
LEMMA CreateKeeps ==
    ASSUME TypeOK, UpdateInv, NEW t \in Threads, CreateShardWriter(t)
    PROVE  UpdateInv'
<1>0. PICK p \in Producers : p = target[t]
  BY DEF TypeOK
<1>1. /\ stage[t] = "create" /\ Goto(t, "remove") /\ MetaKept /\ UpdateKept
      /\ writers' = [writers EXCEPT ![p] = @ \cup (change[t].add \ writers[p])]
  BY <1>0 DEF CreateShardWriter, service, meta, update, MetaKept, UpdateKept
<1>2. /\ updating /\ stage'[t] = "remove" /\ OneUpdater'
      /\ \A u \in Threads : u # t => ~ Updates(u)'
  BY <1>1, TypeParts, UpdaterAlone DEF Updates, Stages, MetaKept
<1>3. /\ p \in Producers /\ writers'[p] = writers[p] \cup change[t].add
      /\ \A q \in Producers : q # p => writers'[q] = writers[q]
  BY <1>1 DEF TypeOK
<1>4. RegisteredWhileAlive' /\ LateUnderConstruction' /\ WritersUpToDate'
  BY <1>1, <1>2 DEF UpdateInv, RegisteredWhileAlive, LateUnderConstruction, WritersUpToDate,
                    MetaKept
<1>5. /\ change[t].add = change[t].shards \ shardMetas
      /\ p \in visited[t]
  BY <1>0, <1>1 DEF UpdateInv, ChangeIsDifference
<1>6. ChangeIsDifference'
  BY <1>1, <1>2 DEF UpdateInv, ChangeIsDifference, Updates, MetaKept, UpdateKept
<1>7. WritersAsTold'
  <2>1. \A q \in Producers \ late : life[q] = "open" => writers[q] = Told(t, q)
    BY <1>1 DEF UpdateInv, WritersAsTold
  <2>2. Told(t, p) = shardMetas /\ Told(t, p)' = shardMetas \cup change[t].shards
    BY <1>0, <1>1, <1>2, <1>5 DEF Told, MetaKept, UpdateKept
  <2>3. \A q \in Producers : q # p => Told(t, q)' = Told(t, q)
    BY <1>0, <1>1 DEF Told, MetaKept, UpdateKept
  <2>4. \A q \in Producers \ late : life[q] = "open" => writers'[q] = Told(t, q)'
    BY <1>3, <1>5, <2>1, <2>2, <2>3
  <2> QED
    BY <1>1, <1>2, <2>4 DEF WritersAsTold, Updates, MetaKept
<1> QED
  BY <1>2, <1>4, <1>6, <1>7 DEF UpdateInv

\* ... and removes those of the shards that are gone.
LEMMA RemoveKeeps ==
    ASSUME TypeOK, UpdateInv, NEW t \in Threads, RemoveShardWriter(t)
    PROVE  UpdateInv'
<1>0. PICK p \in Producers : p = target[t]
  BY DEF TypeOK
<1>1. /\ stage[t] = "remove" /\ Goto(t, "notify") /\ MetaKept /\ UpdateKept
      /\ writers' = [writers EXCEPT ![p] = @ \ (change[t].del \cap writers[p])]
  BY <1>0 DEF RemoveShardWriter, service, meta, update, MetaKept, UpdateKept
<1>2. /\ updating /\ stage'[t] = "notify" /\ OneUpdater'
      /\ \A u \in Threads : u # t => ~ Updates(u)'
  BY <1>1, TypeParts, UpdaterAlone DEF Updates, Stages, MetaKept
<1>3. /\ p \in Producers /\ writers'[p] = writers[p] \ change[t].del
      /\ \A q \in Producers : q # p => writers'[q] = writers[q]
  BY <1>1 DEF TypeOK
<1>4. RegisteredWhileAlive' /\ LateUnderConstruction' /\ WritersUpToDate'
  BY <1>1, <1>2 DEF UpdateInv, RegisteredWhileAlive, LateUnderConstruction, WritersUpToDate,
                    MetaKept
<1>5. /\ change[t].del = shardMetas \ change[t].shards
      /\ p \in visited[t]
  BY <1>0, <1>1 DEF UpdateInv, ChangeIsDifference
<1>6. ChangeIsDifference'
  BY <1>1, <1>2 DEF UpdateInv, ChangeIsDifference, Updates, MetaKept, UpdateKept
<1>7. WritersAsTold'
  <2>1. \A q \in Producers \ late : life[q] = "open" => writers[q] = Told(t, q)
    BY <1>1 DEF UpdateInv, WritersAsTold
  <2>2. Told(t, p) = shardMetas \cup change[t].shards /\ Told(t, p)' = change[t].shards
    BY <1>0, <1>1, <1>2, <1>5 DEF Told, MetaKept, UpdateKept
  <2>3. \A q \in Producers : q # p => Told(t, q)' = Told(t, q)
    BY <1>0, <1>1 DEF Told, MetaKept, UpdateKept
  <2>4. \A q \in Producers \ late : life[q] = "open" => writers'[q] = Told(t, q)'
    <3>1. (shardMetas \cup change[t].shards) \ change[t].del = change[t].shards
      BY <1>5
    <3>2. ASSUME NEW q \in Producers \ late, life[q] = "open", q = p
          PROVE  writers'[q] = Told(t, q)'
      BY <1>3, <2>1, <2>2, <3>1, <3>2
    <3> QED
      BY <1>3, <2>1, <2>3, <3>2
  <2> QED
    BY <1>1, <1>2, <2>4 DEF WritersAsTold, Updates, MetaKept
<1> QED
  BY <1>2, <1>4, <1>6, <1>7 DEF UpdateInv

\* Every coordinator has been told: the map is replaced.
LEMMA FinishKeeps ==
    ASSUME TypeOK, UpdateInv, NEW t \in Threads, FinishUpdate(t)
    PROVE  UpdateInv'
<1>1. /\ stage[t] = "notify" /\ Goto(t, "select")
      /\ coordinators \subseteq visited[t]
      /\ shardMetas' = change[t].shards /\ coordinators' = coordinators
      /\ life' = life /\ late' = late /\ writers' = writers
  BY DEF FinishUpdate, Unvisited, service, producer
<1>2. /\ updating /\ stage'[t] = "select" /\ OneUpdater'
      /\ \A u \in Threads : u # t => ~ Updates(u)'
  BY <1>1, TypeParts, UpdaterAlone DEF Updates, Stages
<1>3. \A u \in Threads : ~ Updates(u)'
  BY <1>2 DEF Updates
<1>4. updating' = FALSE
  BY DEF FinishUpdate
<1>5. RegisteredWhileAlive' /\ LateUnderConstruction'
  BY <1>1, <1>4 DEF UpdateInv, RegisteredWhileAlive, LateUnderConstruction
<1>6. ChangeIsDifference' /\ WritersAsTold'
  BY <1>3 DEF ChangeIsDifference, WritersAsTold, Updates
<1>7. WritersUpToDate'
  <2>1. ASSUME NEW p \in Producers \ late, life[p] \in {"created", "open"}
        PROVE  writers[p] = change[t].shards
    <3>1. life[p] = "open" /\ p \in visited[t]
      BY <1>1, <1>2, <2>1 DEF UpdateInv, LateUnderConstruction, RegisteredWhileAlive
    <3>2. writers[p] = Told(t, p)
      BY <1>1, <3>1 DEF UpdateInv, WritersAsTold
    <3> QED
      BY <1>1, <3>1, <3>2 DEF Told
  <2> QED
    BY <1>1, <2>1 DEF WritersUpToDate
<1> QED
  BY <1>2, <1>5, <1>6, <1>7 DEF UpdateInv

----------------------------------------------------------------------------
(* Producers come and go *)

\* Only p changes, and it is not told of a change as long as it is not open.
LEMMA ProducerChanges ==
    ASSUME TypeOK, UpdateInv, NEW p \in Producers,
           shardMetas' = shardMetas, updating' = updating, stage' = stage, UpdateKept,
           \A q \in Producers : q # p => /\ life'[q] = life[q] /\ writers'[q] = writers[q]
                                         /\ q \in late' <=> q \in late
                                         /\ q \in coordinators' <=> q \in coordinators,
           life'[p] = "absent" <=> p \notin coordinators',
           updating /\ life'[p] \in {"registered", "created", "open"} => p \in late',
           ~ updating /\ life'[p] \in {"created", "open"} /\ p \notin late' =>
               writers'[p] = shardMetas
    PROVE  UpdateInv'
<1> USE DEF UpdateInv, UpdateKept
<1>1. OneUpdater'
  BY DEF OneUpdater, Updates
<1>2. RegisteredWhileAlive'
  BY DEF RegisteredWhileAlive
<1>3. LateUnderConstruction'
  BY DEF LateUnderConstruction
<1>4. ChangeIsDifference'
  BY DEF ChangeIsDifference
<1>5. WritersAsTold'
  <2> SUFFICES ASSUME NEW q \in Producers \ late', NEW t \in Threads, life'[q] = "open"
               PROVE  /\ stage[t] = "list" => writers'[q] = shardMetas
                      /\ stage[t] \in {"notify", "create", "remove"} => writers'[q] = Told(t, q)'
    BY DEF WritersAsTold
  <2>1. CASE ~ Updates(t)
    BY <2>1 DEF Updates
  <2>2. CASE Updates(t)
    <3>1. updating
      BY <2>2 DEF OneUpdater
    <3>2. q # p
      BY <3>1
    <3>3. Told(t, q)' = Told(t, q)
      BY DEF Told
    <3> QED
      BY <3>2, <3>3 DEF WritersAsTold
  <2> QED
    BY <2>1, <2>2
<1>6. WritersUpToDate'
  BY DEF WritersUpToDate
<1> QED
  BY <1>1, <1>2, <1>3, <1>4, <1>5, <1>6

ProducerStep(p) ==
    \/ Register(p) \/ CreateShardWriterWhenInit(p) \/ RegisterOnShardChange(p)
    \/ Close(p) \/ Unregister(p)

LEMMA ProducerStepKeeps ==
    ASSUME TypeOK, UpdateInv, NEW p \in Producers, ProducerStep(p)
    PROVE  UpdateInv'
<1> USE DEF service, meta, producer, call, update, UpdateKept
<1>0. /\ shardMetas' = shardMetas /\ updating' = updating /\ stage' = stage /\ UpdateKept
      /\ life \in [Producers -> {"absent", "registered", "created", "open", "closed"}]
      /\ writers \in [Producers -> SUBSET Shards]
  BY DEF ProducerStep, Register, CreateShardWriterWhenInit, RegisterOnShardChange, Close,
         Unregister, TypeOK
<1>1. CASE Register(p)
  BY <1>0, <1>1, ProducerChanges DEF Register
<1>2. CASE CreateShardWriterWhenInit(p)
  <2>1. updating => p \in late
    BY <1>2 DEF CreateShardWriterWhenInit, UpdateInv, LateUnderConstruction
  <2>2. p \in coordinators
    BY <1>2 DEF CreateShardWriterWhenInit, UpdateInv, RegisteredWhileAlive
  <2> QED
    BY <1>0, <1>2, <2>1, <2>2, ProducerChanges DEF CreateShardWriterWhenInit
<1>3. CASE RegisterOnShardChange(p)
  <2>1. /\ updating => p \in late
        /\ ~ updating /\ p \notin late => writers[p] = shardMetas
    BY <1>3 DEF RegisterOnShardChange, UpdateInv, LateUnderConstruction, WritersUpToDate
  <2>2. p \in coordinators
    BY <1>3 DEF RegisterOnShardChange, UpdateInv, RegisteredWhileAlive
  <2> QED
    BY <1>0, <1>3, <2>1, <2>2, ProducerChanges DEF RegisterOnShardChange
<1>4. CASE Close(p)
  <2>1. p \in coordinators
    BY <1>4 DEF Close, UpdateInv, RegisteredWhileAlive
  <2> QED
    BY <1>0, <1>4, <2>1, ProducerChanges DEF Close
<1>5. CASE Unregister(p)
  BY <1>0, <1>5, ProducerChanges DEF Unregister
<1> QED
  BY <1>1, <1>2, <1>3, <1>4, <1>5 DEF ProducerStep

----------------------------------------------------------------------------
(* The writers and the selector of a producer *)

LEMMA OneSelectorChanges ==
    ASSUME ProducerTyped, NoWriterForgotten, NEW p \in Producers, NEW sel \in Selector(Shards),
           selector' = [selector EXCEPT ![p] = sel],
           writers' \in [Producers -> SUBSET Shards],
           \A q \in Producers : q # p => writers'[q] = writers[q],
           writers'[p] \subseteq Known(sel)
    PROVE  ProducerTyped' /\ NoWriterForgotten'
<1>1. /\ selector' \in [Producers -> Selector(Shards)] /\ selector'[p] = sel
      /\ \A q \in Producers : q # p => selector'[q] = selector[q]
  BY DEF ProducerTyped
<1>2. ASSUME NEW q \in Producers
      PROVE  writers'[q] \subseteq ToSet(selector'[q].active) \cup selector'[q].inactive
  <2>1. CASE q = p
    BY <1>1, <2>1 DEF Known
  <2>2. CASE q # p
    BY <1>1, <2>2 DEF NoWriterForgotten
  <2> QED
    BY <2>1, <2>2
<1> QED
  BY <1>1, <1>2 DEF ProducerTyped, NoWriterForgotten

LEMMA SelectorUnchanged ==
    ASSUME ProducerTyped, NoWriterForgotten, ProducerKept
    PROVE  ProducerTyped' /\ NoWriterForgotten'
BY DEF ProducerTyped, NoWriterForgotten, ProducerKept

LEMMA WriteKeepsSelector ==
    ASSUME TypeOK, NoWriterForgotten, NEW t \in Threads, WriteStep(t)
    PROVE  ProducerTyped' /\ NoWriterForgotten'
<1> DEFINE p == ProducerOf[t]
<1>1. p \in Producers /\ chosen[t] \in Shards /\ ProducerTyped
  BY ProducerOfAssumption, TypeParts DEF TypeOK
<1>2. /\ selector[p] \in Selector(Shards) /\ writers \in [Producers -> SUBSET Shards]
      /\ writers[p] \subseteq Known(selector[p])
  BY <1>1 DEF ProducerTyped, NoWriterForgotten, Known
<1>3. writers' = writers
  BY WriteFrame
<1>4. ASSUME NEW expired \in BOOLEAN, Select(t, expired)
      PROVE  ProducerTyped' /\ NoWriterForgotten'
  <2> DEFINE sel == Advanced(selector[p], expired)
  <2>1. HasNextShard(selector[p], expired) /\ selector' = [selector EXCEPT ![p] = sel]
    BY <1>4 DEF Select
  <2>2. sel \in Selector(Shards) /\ Known(sel) = Known(selector[p])
    BY <1>2, <2>1, AdvancedKnown, ShardsAssumption
  <2> HIDE DEF sel, p
  <2> QED
    BY <1>1, <1>2, <1>3, <2>1, <2>2, OneSelectorChanges
<1>5. CASE PutFails(t)
  <2> DEFINE sel == AddInvalidShard(selector[p], chosen[t])
  <2>1. selector' = [selector EXCEPT ![p] = sel]
    BY <1>5 DEF PutFails
  <2>2. sel \in Selector(Shards) /\ Known(sel) = Known(selector[p]) \cup {chosen[t]}
    BY <1>1, <1>2, AddInvalidShardKnown
  <2> HIDE DEF sel, p
  <2> QED
    BY <1>1, <1>2, <1>3, <2>1, <2>2, OneSelectorChanges
<1>6. CASE \/ OutOfBudget(t) \/ SelectNone(t) \/ GetShardWriter(t)
           \/ PutSucceeds(t) \/ AppendRecord(t) \/ QueueFull(t)
  <2>1. ProducerKept
    BY <1>6 DEF OutOfBudget, SelectNone, GetShardWriter, PutSucceeds, AppendRecord, QueueFull,
                producer, ProducerKept
  <2> QED
    BY <1>1, <2>1, SelectorUnchanged
<1> QED
  BY <1>4, <1>5, <1>6 DEF WriteStep

LEMMA SendKeepsSelector ==
    ASSUME TypeOK, NoWriterForgotten, NEW p \in Producers, NEW s \in Shards,
           NEW stored \in BOOLEAN, SendTaskOnce(p, s, stored)
    PROVE  ProducerTyped' /\ NoWriterForgotten'
<1>1. ProducerTyped /\ writers' = writers
  BY TypeParts, SendFrame
<1>2. /\ selector[p] \in Selector(Shards) /\ writers \in [Producers -> SUBSET Shards]
      /\ writers[p] \subseteq Known(selector[p])
  BY <1>1 DEF ProducerTyped, NoWriterForgotten, Known
<1>3. CASE stored
  BY <1>1, <1>3, SelectorUnchanged DEF SendTaskOnce, ProducerKept
<1>4. CASE ~ stored
  <2> DEFINE sel == AddInvalidShard(selector[p], s)
  <2>1. selector' = [selector EXCEPT ![p] = sel]
    BY <1>4 DEF SendTaskOnce
  <2>2. sel \in Selector(Shards) /\ Known(sel) = Known(selector[p]) \cup {s}
    BY <1>2, AddInvalidShardKnown
  <2> HIDE DEF sel
  <2> QED
    BY <1>1, <1>2, <2>1, <2>2, OneSelectorChanges
<1> QED
  BY <1>3, <1>4

LEMMA CallbackKeepsSelector ==
    ASSUME TypeOK, NoWriterForgotten, NEW t \in Threads,
           CreateShardWriter(t) \/ RemoveShardWriter(t)
    PROVE  ProducerTyped' /\ NoWriterForgotten'
<1>0. PICK p \in Producers : p = target[t]
  BY DEF TypeOK
<1>1. ProducerTyped /\ change[t].add \in SUBSET Shards
  BY TypeParts DEF TypeOK
<1>2. /\ selector[p] \in Selector(Shards) /\ writers \in [Producers -> SUBSET Shards]
      /\ writers[p] \subseteq Known(selector[p])
  BY <1>1 DEF ProducerTyped, NoWriterForgotten, Known
<1>3. CASE CreateShardWriter(t)
  <2> DEFINE new == change[t].add \ writers[p]
             sel == AddShards(selector[p], new)
  <2>1. /\ selector' = [selector EXCEPT ![p] = sel]
        /\ writers' = [writers EXCEPT ![p] = @ \cup new]
    BY <1>0, <1>3 DEF CreateShardWriter
  <2>2. new \in SUBSET Shards
    BY <1>1
  <2> HIDE DEF new
  <2>3. sel \in Selector(Shards) /\ Known(sel) = Known(selector[p]) \cup new
    BY <1>2, <2>2, AddShardsKnown, ShardsAssumption
  <2> HIDE DEF sel
  <2>4. /\ writers' \in [Producers -> SUBSET Shards] /\ writers'[p] = writers[p] \cup new
        /\ \A q \in Producers : q # p => writers'[q] = writers[q]
    BY <1>2, <2>1, <2>2
  <2>5. writers'[p] \subseteq Known(sel)
    BY <1>2, <2>3, <2>4
  <2> QED
    BY <1>1, <2>1, <2>3, <2>4, <2>5, OneSelectorChanges
<1>4. CASE RemoveShardWriter(t)
  <2> DEFINE gone == change[t].del \cap writers[p]
             sel == RemoveShards(selector[p], gone)
  <2>1. /\ selector' = [selector EXCEPT ![p] = sel]
        /\ writers' = [writers EXCEPT ![p] = @ \ gone]
    BY <1>0, <1>4 DEF RemoveShardWriter
  <2> HIDE DEF gone
  <2>2. sel \in Selector(Shards) /\ Known(sel) = Known(selector[p]) \ gone
    BY <1>2, RemoveShardsKnown
  <2> HIDE DEF sel
  <2>3. /\ writers' \in [Producers -> SUBSET Shards] /\ writers'[p] = writers[p] \ gone
        /\ \A q \in Producers : q # p => writers'[q] = writers[q]
    BY <1>2, <2>1
  <2>4. writers'[p] \subseteq Known(sel)
    BY <1>2, <2>2, <2>3
  <2> QED
    BY <1>1, <2>1, <2>2, <2>3, <2>4, OneSelectorChanges
<1> QED
  BY <1>3, <1>4

LEMMA ProducerStepKeepsSelector ==
    ASSUME TypeOK, NoWriterForgotten, NEW p \in Producers, ProducerStep(p)
    PROVE  ProducerTyped' /\ NoWriterForgotten'
<1>1. ProducerTyped /\ shardMetas \in SUBSET Shards /\ NewSelector \in Selector(Shards)
  BY TypeParts, NewSelectorType DEF TypeOK
<1>2. writers \in [Producers -> SUBSET Shards]
  BY <1>1 DEF ProducerTyped
<1>3. CASE Register(p) \/ RegisterOnShardChange(p) \/ Close(p)
  BY <1>1, <1>3, SelectorUnchanged DEF Register, RegisterOnShardChange, Close, ProducerKept
<1>4. CASE CreateShardWriterWhenInit(p)
  <2> DEFINE sel == AddShards(NewSelector, shardMetas)
  <2>1. /\ selector' = [selector EXCEPT ![p] = sel]
        /\ writers' = [writers EXCEPT ![p] = shardMetas]
    BY <1>4 DEF CreateShardWriterWhenInit
  <2>2. sel \in Selector(Shards) /\ Known(sel) = Known(NewSelector) \cup shardMetas
    BY <1>1, AddShardsKnown, ShardsAssumption
  <2> HIDE DEF sel
  <2>3. /\ writers' \in [Producers -> SUBSET Shards] /\ writers'[p] = shardMetas
        /\ \A q \in Producers : q # p => writers'[q] = writers[q]
    BY <1>1, <1>2, <2>1
  <2> QED
    BY <1>1, <2>1, <2>2, <2>3, OneSelectorChanges
<1>5. CASE Unregister(p)
  <2>1. /\ selector' = [selector EXCEPT ![p] = NewSelector]
        /\ writers' = [writers EXCEPT ![p] = {}]
    BY <1>5 DEF Unregister
  <2>2. /\ writers' \in [Producers -> SUBSET Shards] /\ writers'[p] = {}
        /\ \A q \in Producers : q # p => writers'[q] = writers[q]
    BY <1>2, <2>1
  <2> QED
    BY <1>1, <2>1, <2>2, OneSelectorChanges
<1> QED
  BY <1>3, <1>4, <1>5 DEF ProducerStep

----------------------------------------------------------------------------
(* Types of the other variables, and the attempts of Write *)

LEMMA AttemptsType ==
    ASSUME ProducerTyped, NEW t \in Threads, NEW isAsync \in BOOLEAN
    PROVE  Attempts(t, isAsync) \in 0 .. Cardinality(Shards)
<1> DEFINE w == writers[ProducerOf[t]]
<1>1. w \in SUBSET Shards
  BY ProducerOfAssumption DEF ProducerTyped
<1> HIDE DEF w
<1>2. /\ Cardinality(w) \in Nat /\ Cardinality(Shards) \in Nat
      /\ Cardinality(w) <= Cardinality(Shards)
  BY <1>1, ShardsAssumption, FS_Subset, FS_CardinalityType
<1> QED
  BY <1>2 DEF Attempts, w

LEMMA SomeShard == (CHOOSE s \in Shards : TRUE) \in Shards
<1>1. InitialShards \subseteq Shards /\ InitialShards # {}
  BY InitialShardsAssumption
<1>2. \E s : s \in Shards
  BY <1>1
<1> QED
  BY <1>2

LEMMA ReturnKeepsCall ==
    ASSUME StageTyped, CallTyped, AttemptsLeft, NEW t \in Threads, Return(t)
    PROVE  CallTyped' /\ AttemptsLeft'
<1>1. 0 \in 0 .. Cardinality(Shards)
  BY ShardsAssumption, FS_CardinalityType
<1>2. /\ budget' \in [Threads -> 0 .. Cardinality(Shards)]
      /\ \A u \in Threads : u # t => budget'[u] = budget[u]
  BY <1>1 DEF Return, CallTyped
<1>3. /\ async' \in [Threads -> BOOLEAN]
      /\ \A u \in Threads : u # t => async'[u] = async[u]
  BY DEF Return, CallTyped
<1>4. chosen' \in [Threads -> Shards]
  BY SomeShard DEF Return, CallTyped
<1>5. /\ stage'[t] = "idle"
      /\ \A u \in Threads : u # t => stage'[u] = stage[u]
  BY GotoEffect DEF Return, Stages
<1>6. AttemptsLeft'
  BY <1>2, <1>3, <1>5 DEF AttemptsLeft
<1> QED
  BY <1>2, <1>3, <1>4, <1>6 DEF CallTyped

LEMMA CallUnchanged ==
    ASSUME StageTyped, CallTyped, AttemptsLeft, CallKept, NEW t \in Threads,
           \A u \in Threads : u # t => stage'[u] = stage[u],
           stage'[t] \in {"get", "put"} /\ ~ async[t] => budget[t] > 0
    PROVE  CallTyped' /\ AttemptsLeft'
BY DEF CallTyped, CallKept, AttemptsLeft

LEMMA WriteKeepsCall ==
    ASSUME TypeOK, AttemptsLeft, NEW t \in Threads, WriteStep(t)
    PROVE  CallTyped' /\ AttemptsLeft'
<1>1. StageTyped /\ CallTyped /\ ProducerTyped
  BY TypeParts
<1>2. budget[t] \in 0 .. Cardinality(Shards) /\ Cardinality(Shards) \in Nat
  BY <1>1, ShardsAssumption, FS_CardinalityType DEF CallTyped
<1>3. \A u \in Threads : u # t => stage'[u] = stage[u]
  BY <1>1, WriteFrame, GotoEffect DEF Stages
<1>4. CASE Return(t)
  BY <1>1, <1>4, ReturnKeepsCall
<1>5. ASSUME NEW expired \in BOOLEAN, Select(t, expired) PROVE CallTyped' /\ AttemptsLeft'
  <2> DEFINE p == ProducerOf[t]
             s == GetNextShard(selector[p], expired)
  <2>1. budget' = budget /\ async' = async /\ chosen' = [chosen EXCEPT ![t] = s]
    BY <1>5 DEF Select
  <2>2. s \in Shards
    <3>1. selector[p] \in Selector(Shards)
      BY <1>1, ProducerOfAssumption DEF ProducerTyped
    <3>2. HasNextShard(selector[p], expired)
      BY <1>5 DEF Select
    <3> QED
      BY <3>1, <3>2, AdvancedKnown, ShardsAssumption
  <2> HIDE DEF s
  <2>3. CallTyped'
    BY <1>1, <2>1, <2>2 DEF CallTyped
  <2>4. async[t] \/ budget[t] > 0
    BY <1>5 DEF Select
  <2>5. AttemptsLeft'
    BY <1>3, <2>1, <2>4 DEF AttemptsLeft
  <2> QED
    BY <2>3, <2>5
<1>6. CASE SelectNone(t) /\ ~ Return(t)
  <2>1. PICK s \in writers[ProducerOf[t]] : chosen' = [chosen EXCEPT ![t] = s]
    BY <1>6 DEF SelectNone
  <2>2. s \in Shards
    BY <1>1, <2>1, ProducerOfAssumption DEF ProducerTyped
  <2>3. budget' = budget /\ async' = async /\ (async[t] \/ budget[t] > 0)
    BY <1>6 DEF SelectNone
  <2>4. CallTyped'
    BY <1>1, <2>1, <2>2, <2>3 DEF CallTyped
  <2>5. AttemptsLeft'
    BY <1>3, <2>3 DEF AttemptsLeft
  <2> QED
    BY <2>4, <2>5
<1>7. CASE GetShardWriter(t) /\ ~ Return(t)
  <2>1. CallKept /\ stage[t] = "get"
    BY <1>7 DEF GetShardWriter, call, CallKept
  <2>2. ~ async[t] => budget[t] > 0
    BY <2>1 DEF AttemptsLeft
  <2> QED
    BY <1>1, <1>3, <2>1, <2>2, CallUnchanged
<1>8. CASE PutFails(t)
  <2>1. /\ stage[t] = "put" /\ ~ async[t] /\ Goto(t, "select")
        /\ budget' = [budget EXCEPT ![t] = @ - 1] /\ async' = async /\ chosen' = chosen
    BY <1>8 DEF PutFails
  <2>2. budget[t] > 0
    BY <2>1 DEF AttemptsLeft
  <2>3. budget[t] - 1 \in 0 .. Cardinality(Shards)
    BY <1>2, <2>2
  <2>4. /\ budget' \in [Threads -> 0 .. Cardinality(Shards)]
        /\ \A u \in Threads : u # t => budget'[u] = budget[u]
    <3> DEFINE b == budget[t] - 1
    <3>1. budget' = [budget EXCEPT ![t] = b]
      BY <2>1
    <3> HIDE DEF b
    <3> QED
      BY <1>1, <2>3, <3>1 DEF CallTyped, b
  <2>5. stage'[t] = "select"
    BY <1>1, <2>1, GotoEffect DEF Stages
  <2>6. AttemptsLeft'
    BY <1>3, <2>1, <2>4, <2>5 DEF AttemptsLeft
  <2> QED
    BY <1>1, <2>1, <2>4, <2>6 DEF CallTyped
<1>9. CASE QueueFull(t)
  <2>1. CallKept /\ Goto(t, "select")
    BY <1>9 DEF QueueFull, call, CallKept
  <2>2. stage'[t] = "select"
    BY <1>1, <2>1, GotoEffect DEF Stages
  <2> QED
    BY <1>1, <1>3, <2>1, <2>2, CallUnchanged
<1>10. ASSUME \/ OutOfBudget(t) \/ PutSucceeds(t) \/ AppendRecord(t)
       PROVE  Return(t)
  BY <1>10 DEF OutOfBudget, PutSucceeds, AppendRecord
<1> QED
  BY <1>4, <1>5, <1>6, <1>7, <1>8, <1>9, <1>10 DEF WriteStep

LEMMA StartWriteKeepsCall ==
    ASSUME TypeOK, AttemptsLeft, NEW t \in Threads, NEW isAsync \in BOOLEAN,
           StartWrite(t, isAsync) \/ BeginUpdate(t, isAsync)
    PROVE  CallTyped' /\ AttemptsLeft'
<1>1. StageTyped /\ CallTyped /\ ProducerTyped
  BY TypeParts
<1>2. async' = [async EXCEPT ![t] = isAsync] /\ chosen' = chosen
  BY DEF StartWrite, BeginUpdate, Enters
<1>3. /\ stage'[t] \notin {"get", "put"}
      /\ \A u \in Threads : u # t => stage'[u] = stage[u]
  <2>1. Goto(t, "select") \/ Goto(t, "list")
    BY DEF StartWrite, BeginUpdate
  <2> QED
    BY <1>1, <2>1, GotoEffect DEF Stages
<1>4. /\ budget' \in [Threads -> 0 .. Cardinality(Shards)]
      /\ \A u \in Threads : u # t => budget'[u] = budget[u]
  <2>1. CASE StartWrite(t, isAsync)
    <3> DEFINE b == Attempts(t, isAsync)
    <3>1. b \in 0 .. Cardinality(Shards)
      BY <1>1, AttemptsType
    <3>2. budget' = [budget EXCEPT ![t] = b]
      BY <2>1 DEF StartWrite
    <3> HIDE DEF b
    <3> QED
      BY <1>1, <3>1, <3>2 DEF CallTyped
  <2>2. CASE BeginUpdate(t, isAsync)
    BY <1>1, <2>2 DEF BeginUpdate, CallTyped
  <2> QED
    BY <2>1, <2>2
<1>5. CallTyped'
  BY <1>1, <1>2, <1>4 DEF CallTyped
<1>6. \A u \in Threads : u # t => async'[u] = async[u]
  BY <1>1, <1>2 DEF CallTyped
<1>7. AttemptsLeft'
  BY <1>3, <1>4, <1>6 DEF AttemptsLeft
<1> QED
  BY <1>5, <1>7

\* A thread in an update touches its call only when the update is over.
LEMMA UpdateKeepsCall ==
    ASSUME TypeOK, AttemptsLeft, NEW t \in Threads, UpdateStep(t)
    PROVE  CallTyped' /\ AttemptsLeft'
<1>1. StageTyped /\ CallTyped /\ ProducerTyped
  BY TypeParts
<1>2. CASE ListShardFails(t) \/ NotifyClosed(t)
  BY <1>1, <1>2, ReturnKeepsCall DEF ListShardFails, NotifyClosed
<1>3. CASE \/ ListShard(t) \/ CreateShardWriter(t) \/ RemoveShardWriter(t)
           \/ \E p \in Producers : Notify(t, p)
  <2>1. CallKept
    BY <1>3 DEF ListShard, CreateShardWriter, RemoveShardWriter, Notify, call, CallKept
  <2>2. \/ stage' = stage /\ stage[t] = "notify"
        \/ \E s \in {"notify", "remove", "create"} : Goto(t, s)
    BY <1>3 DEF ListShard, CreateShardWriter, RemoveShardWriter, Notify
  <2>3. /\ stage'[t] \notin {"get", "put"}
        /\ \A u \in Threads : u # t => stage'[u] = stage[u]
    BY <1>1, <2>2, GotoEffect DEF Stages
  <2> QED
    BY <1>1, <2>1, <2>3, CallUnchanged
<1>4. CASE FinishUpdate(t)
  <2> DEFINE b == Attempts(t, async[t])
  <2>1. b \in 0 .. Cardinality(Shards)
    BY <1>1, AttemptsType DEF CallTyped
  <2>2. Goto(t, "select") /\ budget' = [budget EXCEPT ![t] = b] /\ async' = async /\ chosen' = chosen
    BY <1>4 DEF FinishUpdate
  <2> HIDE DEF b
  <2>3. /\ stage'[t] = "select"
        /\ \A u \in Threads : u # t => stage'[u] = stage[u]
    BY <1>1, <2>2, GotoEffect DEF Stages
  <2>4. /\ budget' \in [Threads -> 0 .. Cardinality(Shards)]
        /\ \A u \in Threads : u # t => budget'[u] = budget[u]
    BY <1>1, <2>1, <2>2 DEF CallTyped
  <2>5. CallTyped'
    BY <1>1, <2>2, <2>4 DEF CallTyped
  <2>6. AttemptsLeft'
    BY <2>2, <2>3, <2>4 DEF AttemptsLeft
  <2> QED
    BY <2>5, <2>6
<1> QED
  BY <1>2, <1>3, <1>4 DEF UpdateStep

LEMMA UpdateStepTypes ==
    ASSUME TypeOK, NEW t \in Threads, UpdateStep(t)
    PROVE  MetaTyped' /\ UpdateTyped' /\ OtherTyped'
<1>1. /\ MetaTyped /\ UpdateTyped /\ OtherTyped
      /\ topic \in SUBSET Shards /\ shardMetas \in SUBSET Shards
      /\ change[t] \in [add : SUBSET Shards, del : SUBSET Shards, shards : SUBSET Shards]
      /\ ProducerOf[t] \in Producers
  BY TypeParts, ProducerOfAssumption DEF TypeOK
<1>2. OtherTyped'
  <2>1. OtherKept
    BY DEF UpdateStep, ListShard, ListShardFails, Notify, NotifyClosed, CreateShardWriter,
           RemoveShardWriter, FinishUpdate, service, OtherKept
  <2> QED
    BY <1>1, <2>1, Kept
<1>3. MetaTyped'
  <2>1. CASE FinishUpdate(t)
    <3>1. /\ shardMetas' = change[t].shards /\ updating' = FALSE /\ coordinators' = coordinators
          /\ life' = life /\ late' = late
      BY <2>1 DEF FinishUpdate, producer
    <3> QED
      BY <1>1, <3>1 DEF MetaTyped
  <2>2. CASE ~ FinishUpdate(t)
    <3>1. MetaKept
      BY <2>2 DEF UpdateStep, ListShard, ListShardFails, Notify, NotifyClosed, CreateShardWriter,
                  RemoveShardWriter, meta, producer, MetaKept
    <3> QED
      BY <1>1, <3>1, Kept
  <2> QED
    BY <2>1, <2>2
<1>4. UpdateTyped'
  <2>1. CASE ListShard(t)
    <3> DEFINE new == [add |-> topic \ shardMetas, del |-> shardMetas \ topic, shards |-> topic]
               seen == IF topic = shardMetas THEN Producers ELSE {}
    <3>1. /\ new \in [add : SUBSET Shards, del : SUBSET Shards, shards : SUBSET Shards]
          /\ seen \in SUBSET Producers
      BY <1>1
    <3>2. /\ change' = [change EXCEPT ![t] = new] /\ visited' = [visited EXCEPT ![t] = seen]
          /\ target' = target
      BY <2>1 DEF ListShard
    <3> HIDE DEF new, seen
    <3> QED
      BY <1>1, <3>1, <3>2 DEF UpdateTyped
  <2>2. CASE Forget(t)
    <3>1. NoChange \in [add : SUBSET Shards, del : SUBSET Shards, shards : SUBSET Shards]
      BY DEF NoChange
    <3> QED
      BY <1>1, <2>2, <3>1 DEF Forget, UpdateTyped
  <2>3. ASSUME NEW p \in Producers, Notify(t, p) PROVE UpdateTyped'
    <3>1. /\ change' = change /\ visited' = [visited EXCEPT ![t] = @ \cup {p}]
          /\ target' = target \/ target' = [target EXCEPT ![t] = p]
      BY <2>3 DEF Notify
    <3> QED
      BY <1>1, <3>1 DEF UpdateTyped
  <2>4. CASE ListShardFails(t) \/ CreateShardWriter(t) \/ RemoveShardWriter(t)
    <3>1. UpdateKept
      BY <2>4 DEF ListShardFails, CreateShardWriter, RemoveShardWriter, update, UpdateKept
    <3> QED
      BY <1>1, <3>1, Kept
  <2>5. CASE NotifyClosed(t) \/ FinishUpdate(t)
    BY <2>2, <2>5 DEF NotifyClosed, FinishUpdate
  <2> QED
    BY <2>1, <2>3, <2>4, <2>5 DEF UpdateStep
<1> QED
  BY <1>2, <1>3, <1>4

LEMMA UpdateStepStages ==
    ASSUME TypeOK, OwnersWrite, NEW t \in Threads, UpdateStep(t)
    PROVE  StageTyped' /\ OwnersWrite'
<1>1. writerMutex' = writerMutex /\ stage[t] # "flush"
  BY DEF UpdateStep, ListShard, ListShardFails, Notify, NotifyClosed, CreateShardWriter,
         RemoveShardWriter, FinishUpdate, producer
<1>2. stage' = stage \/ \E s \in Stages : Goto(t, s)
  BY DEF UpdateStep, ListShard, ListShardFails, Notify, NotifyClosed, CreateShardWriter,
         RemoveShardWriter, FinishUpdate, Return, Stages
<1> QED
  BY <1>1, <1>2, TypeParts, ThreadMoves, NobodyMoves

\* A step of an update, and what it leaves alone of the producers.
LEMMA UpdateStepKeeps ==
    ASSUME IInv, NEW t \in Threads, UpdateStep(t)
    PROVE  IInv'
<1>1. /\ TypeOK /\ OwnersWrite /\ AttemptsLeft /\ NoWriterForgotten /\ UpdateInv
      /\ StageTyped /\ ProducerTyped
  BY TypeParts DEF IInv
<1>2. ProducerTyped' /\ NoWriterForgotten'
  <2>1. CASE CreateShardWriter(t) \/ RemoveShardWriter(t)
    BY <1>1, <2>1, CallbackKeepsSelector
  <2>2. CASE ~ (CreateShardWriter(t) \/ RemoveShardWriter(t))
    <3>1. ProducerKept
      BY <2>2 DEF UpdateStep, ListShard, ListShardFails, Notify, NotifyClosed, FinishUpdate,
                  producer, ProducerKept
    <3> QED
      BY <1>1, <3>1, SelectorUnchanged
  <2> QED
    BY <2>1, <2>2
<1>3. UpdateInv'
  <2>1. CASE ListShardFails(t)
    <3>1. MetaKept /\ UpdateKept /\ writers' = writers /\ Goto(t, "idle")
      BY <2>1, ListFailsFrame DEF ProducerKept
    <3>2. \A u \in Threads : stage'[u] = stage[u] \/ ~ Updates(u)'
      BY <1>1, <3>1, GotoEffect DEF Stages, Updates
    <3> QED
      BY <1>1, <3>1, <3>2, UpdateUndisturbed
  <2> QED
    BY <1>1, <2>1, ListShardKeeps, NotifyKeeps, NotifyClosedKeeps, CreateKeeps, RemoveKeeps,
       FinishKeeps DEF UpdateStep
<1>4. TypeOK'
  <2>1. /\ StageTyped' /\ MetaTyped' /\ ProducerTyped' /\ CallTyped' /\ UpdateTyped'
        /\ OtherTyped'
    BY <1>1, <1>2, UpdateStepStages, UpdateStepTypes, UpdateKeepsCall
  <2> QED
    BY <2>1, TypeParts, PTL
<1>5. OwnersWrite' /\ AttemptsLeft'
  BY <1>1, UpdateStepStages, UpdateKeepsCall
<1> QED
  BY <1>2, <1>3, <1>4, <1>5 DEF IInv

----------------------------------------------------------------------------
(* Every step keeps the invariant *)

\* Steps outside an update, once what they change is known to be typed.
LEMMA Outside ==
    ASSUME IInv, StageTyped', OwnersWrite', ProducerTyped', NoWriterForgotten', CallTyped',
           AttemptsLeft', OtherTyped', MetaKept, UpdateKept, writers' = writers,
           \A u \in Threads : stage'[u] = stage[u] \/ ~ Updates(u)'
    PROVE  IInv'
<1>1. UpdateInv' /\ MetaTyped' /\ UpdateTyped'
  BY TypeParts, Kept, UpdateUndisturbed DEF IInv
<1>2. TypeOK'
  BY <1>1, TypeParts, PTL
<1> QED
  BY <1>1, <1>2 DEF IInv

LEMMA WriteStepKeeps ==
    ASSUME IInv, NEW t \in Threads, WriteStep(t)
    PROVE  IInv'
<1>1. /\ TypeOK /\ OwnersWrite /\ AttemptsLeft /\ NoWriterForgotten
      /\ StageTyped /\ OtherTyped
  BY TypeParts DEF IInv
<1>2. PICK s \in {"idle", "select", "get", "put"} : Goto(t, s)
  BY WriteFrame
<1>3. StageTyped' /\ OwnersWrite'
  BY <1>1, <1>2, WriteFrame, ThreadMoves DEF Stages
<1>4. \A u \in Threads : stage'[u] = stage[u] \/ ~ Updates(u)'
  BY <1>1, <1>2, GotoEffect DEF Stages, Updates
<1>5. OtherTyped'
  <2>1. tasks' = tasks \/ tasks' = tasks \cup {<<ProducerOf[t], chosen[t]>>}
    BY DEF WriteStep, OutOfBudget, Select, SelectNone, GetShardWriter, PutSucceeds, PutFails,
           AppendRecord, QueueFull
  <2>2. ProducerOf[t] \in Producers /\ chosen[t] \in Shards
    BY <1>1, ProducerOfAssumption DEF TypeOK
  <2>3. topic' = topic /\ reshards' = reshards /\ unflushed' = unflushed
    BY WriteFrame
  <2> QED
    BY <1>1, <2>1, <2>2, <2>3 DEF OtherTyped
<1>6. MetaKept /\ UpdateKept /\ writers' = writers
  BY WriteFrame
<1> QED
  BY <1>1, <1>3, <1>4, <1>5, <1>6, WriteKeepsSelector, WriteKeepsCall, Outside

LEMMA FlushStepKeeps ==
    ASSUME IInv, NEW t \in Threads, StartFlush(t) \/ FlushStep(t)
    PROVE  IInv'
<1>1. /\ TypeOK /\ OwnersWrite /\ AttemptsLeft /\ NoWriterForgotten
      /\ StageTyped /\ ProducerTyped /\ CallTyped /\ OtherTyped
  BY TypeParts DEF IInv
<1>2. StageTyped' /\ OwnersWrite'
  BY <1>1, FlushKeepsStages
<1>3. /\ MetaKept /\ UpdateKept /\ CallKept /\ ProducerKept
      /\ topic' = topic /\ reshards' = reshards /\ tasks' = tasks
  BY StartFlushFrame, FlushFrame
<1>4. /\ \A u \in Threads : u # t => stage'[u] = stage[u]
      /\ stage'[t] \in {"idle", "flush"}
  <2>1. \/ stage' = stage /\ stage[t] = "flush"
        \/ \E s \in {"idle", "flush"} : Goto(t, s)
    BY StartFlushFrame, FlushFrame DEF EndFlush
  <2> QED
    BY <1>1, <2>1, GotoEffect DEF Stages
<1>5. OtherTyped'
  <2>1. unflushed' \in [Threads -> SUBSET Shards]
    <3>1. writers[ProducerOf[t]] \in SUBSET Shards
      BY <1>1, ProducerOfAssumption DEF ProducerTyped
    <3>2. CASE StartFlush(t)
      BY <1>1, <3>1, <3>2 DEF StartFlush, OtherTyped
    <3>3. CASE FlushStep(t)
      BY <1>1, <3>3 DEF FlushStep, FlushWriter, EndFlush, OtherTyped
    <3> QED
      BY <3>2, <3>3
  <2> QED
    BY <1>1, <1>3, <2>1 DEF OtherTyped
<1>6. CallTyped' /\ AttemptsLeft'
  BY <1>1, <1>3, <1>4, CallUnchanged
<1>7. ProducerTyped' /\ NoWriterForgotten'
  BY <1>1, <1>3, SelectorUnchanged
<1>8. \A u \in Threads : stage'[u] = stage[u] \/ ~ Updates(u)'
  BY <1>4 DEF Updates
<1>9. writers' = writers
  BY <1>3 DEF ProducerKept
<1> QED
  BY <1>2, <1>3, <1>5, <1>6, <1>7, <1>8, <1>9, Outside

LEMMA StartWriteKeeps ==
    ASSUME IInv, NEW t \in Threads, NEW isAsync \in BOOLEAN, StartWrite(t, isAsync)
    PROVE  IInv'
<1>1. /\ TypeOK /\ OwnersWrite /\ AttemptsLeft /\ NoWriterForgotten
      /\ StageTyped /\ ProducerTyped /\ OtherTyped
  BY TypeParts DEF IInv
<1>2. /\ MetaKept /\ UpdateKept /\ ProducerKept /\ OtherKept /\ writerMutex' = writerMutex
      /\ stage[t] = "idle" /\ Goto(t, "select")
  BY StartWriteFrame
<1>3. StageTyped' /\ OwnersWrite'
  BY <1>1, <1>2, ThreadMoves DEF Stages
<1>4. \A u \in Threads : stage'[u] = stage[u] \/ ~ Updates(u)'
  BY <1>1, <1>2, GotoEffect DEF Stages, Updates
<1>5. ProducerTyped' /\ NoWriterForgotten' /\ OtherTyped' /\ CallTyped' /\ AttemptsLeft'
  BY <1>1, <1>2, SelectorUnchanged, Kept, StartWriteKeepsCall
<1>6. writers' = writers
  BY <1>2 DEF ProducerKept
<1> QED
  BY <1>2, <1>3, <1>4, <1>5, <1>6, Outside

LEMMA BeginUpdateStepKeeps ==
    ASSUME IInv, NEW t \in Threads, NEW isAsync \in BOOLEAN, BeginUpdate(t, isAsync)
    PROVE  IInv'
<1>1. /\ TypeOK /\ OwnersWrite /\ AttemptsLeft /\ NoWriterForgotten /\ UpdateInv
      /\ StageTyped /\ ProducerTyped /\ OtherTyped /\ UpdateTyped /\ MetaTyped
  BY TypeParts DEF IInv
<1>2. /\ UpdateKept /\ ProducerKept /\ OtherKept /\ writerMutex' = writerMutex
      /\ stage[t] = "idle" /\ Goto(t, "list")
      /\ shardMetas' = shardMetas /\ updating' = TRUE /\ coordinators' = coordinators
      /\ life' = life
      /\ late' = late \cup {p \in Producers : life[p] \in {"registered", "created"}}
  BY DEF BeginUpdate, Enters, service, producer, update, UpdateKept, ProducerKept, OtherKept
<1>3. StageTyped' /\ OwnersWrite'
  BY <1>1, <1>2, ThreadMoves DEF Stages
<1>4. MetaTyped'
  BY <1>1, <1>2 DEF MetaTyped
<1>5. ProducerTyped' /\ NoWriterForgotten' /\ OtherTyped' /\ CallTyped' /\ AttemptsLeft'
      /\ UpdateTyped'
  BY <1>1, <1>2, SelectorUnchanged, Kept, StartWriteKeepsCall
<1>6. UpdateInv'
  BY <1>1, BeginUpdateKeeps
<1>7. TypeOK'
  BY <1>3, <1>4, <1>5, TypeParts, PTL
<1> QED
  BY <1>3, <1>5, <1>6, <1>7 DEF IInv

LEMMA SendStepKeeps ==
    ASSUME IInv, NEW p \in Producers, NEW s \in Shards, NEW stored \in BOOLEAN,
           SendTaskOnce(p, s, stored)
    PROVE  IInv'
<1>1. /\ TypeOK /\ OwnersWrite /\ AttemptsLeft /\ NoWriterForgotten
      /\ StageTyped /\ CallTyped /\ OtherTyped
  BY TypeParts DEF IInv
<1>2. /\ MetaKept /\ UpdateKept /\ CallKept /\ writers' = writers
      /\ topic' = topic /\ reshards' = reshards /\ unflushed' = unflushed
      /\ stage' = stage /\ writerMutex' = writerMutex
  BY SendFrame
<1>3. StageTyped' /\ OwnersWrite' /\ ProducerTyped' /\ NoWriterForgotten' /\ CallTyped'
  BY <1>1, <1>2, NobodyMoves, SendKeepsSelector, Kept
<1>4. AttemptsLeft'
  BY <1>1, <1>2 DEF AttemptsLeft, CallKept
<1>5. OtherTyped'
  <2>1. tasks' \subseteq tasks
    BY DEF SendTaskOnce
  <2> QED
    BY <1>1, <1>2, <2>1 DEF OtherTyped
<1> QED
  BY <1>2, <1>3, <1>4, <1>5, Outside

LEMMA ReshardKeeps ==
    ASSUME IInv, Reshard
    PROVE  IInv'
<1>1. /\ TypeOK /\ OwnersWrite /\ AttemptsLeft /\ NoWriterForgotten
      /\ StageTyped /\ CallTyped /\ OtherTyped /\ ProducerTyped
  BY TypeParts DEF IInv
<1>2. /\ MetaKept /\ UpdateKept /\ CallKept /\ ProducerKept
      /\ tasks' = tasks /\ unflushed' = unflushed
      /\ stage' = stage /\ writerMutex' = writerMutex
  BY ReshardFrame
<1>3. StageTyped' /\ OwnersWrite' /\ ProducerTyped' /\ NoWriterForgotten' /\ CallTyped'
  BY <1>1, <1>2, NobodyMoves, SelectorUnchanged, Kept
<1>4. AttemptsLeft'
  BY <1>1, <1>2 DEF AttemptsLeft, CallKept
<1>5. OtherTyped'
  <2>1. topic' \in SUBSET Shards /\ reshards' \in 0 .. MaxReshards
    BY <1>1, BoundsAssumption DEF Reshard, OtherTyped
  <2> QED
    BY <1>1, <1>2, <2>1 DEF OtherTyped
<1>6. writers' = writers
  BY <1>2 DEF ProducerKept
<1> QED
  BY <1>2, <1>3, <1>4, <1>5, <1>6, Outside

LEMMA LifeKeeps ==
    ASSUME IInv, NEW p \in Producers, ProducerStep(p)
    PROVE  IInv'
<1>1. /\ TypeOK /\ OwnersWrite /\ AttemptsLeft /\ NoWriterForgotten /\ UpdateInv
      /\ StageTyped /\ CallTyped /\ OtherTyped /\ ProducerTyped /\ UpdateTyped /\ MetaTyped
  BY TypeParts DEF IInv
<1>2. /\ topic' = topic /\ reshards' = reshards /\ unflushed' = unflushed
      /\ shardMetas' = shardMetas /\ updating' = updating
      /\ CallKept /\ UpdateKept /\ stage' = stage /\ writerMutex' = writerMutex
  BY DEF ProducerStep, Register, CreateShardWriterWhenInit, RegisterOnShardChange, Close,
         Unregister, service, meta, producer, call, update, CallKept, UpdateKept
<1>3. StageTyped' /\ OwnersWrite' /\ CallTyped' /\ UpdateTyped'
  BY <1>1, <1>2, NobodyMoves, Kept
<1>4. AttemptsLeft'
  BY <1>1, <1>2 DEF AttemptsLeft, CallKept
<1>5. ProducerTyped' /\ NoWriterForgotten' /\ UpdateInv'
  BY <1>1, ProducerStepKeepsSelector, ProducerStepKeeps
<1>6. OtherTyped'
  <2>1. tasks' \subseteq tasks
    BY DEF ProducerStep, Register, CreateShardWriterWhenInit, RegisterOnShardChange, Close,
           Unregister
  <2> QED
    BY <1>1, <1>2, <2>1 DEF OtherTyped
<1>7. MetaTyped'
  <2>1. \E l \in {"absent", "registered", "created", "open", "closed"} :
           life' = [life EXCEPT ![p] = l]
    BY DEF ProducerStep, Register, CreateShardWriterWhenInit, RegisterOnShardChange, Close,
           Unregister
  <2>2. coordinators' \subseteq coordinators \cup {p} /\ late' \subseteq late \cup {p}
    BY DEF ProducerStep, Register, CreateShardWriterWhenInit, RegisterOnShardChange, Close,
           Unregister, meta
  <2> QED
    BY <1>1, <1>2, <2>1, <2>2 DEF MetaTyped
<1>8. TypeOK'
  BY <1>3, <1>5, <1>6, <1>7, TypeParts, PTL
<1> QED
  BY <1>3, <1>4, <1>5, <1>8 DEF IInv

LEMMA StutterKeeps ==
    ASSUME IInv, UNCHANGED vars
    PROVE  IInv'
<1>1. /\ TypeOK /\ OwnersWrite /\ AttemptsLeft /\ NoWriterForgotten
      /\ StageTyped /\ CallTyped /\ OtherTyped /\ ProducerTyped
  BY TypeParts DEF IInv
<1>2. /\ MetaKept /\ UpdateKept /\ CallKept /\ ProducerKept /\ OtherKept
      /\ stage' = stage /\ writerMutex' = writerMutex /\ writers' = writers
  BY DEF vars, service, meta, producer, call, update, MetaKept, UpdateKept, CallKept,
         ProducerKept, OtherKept
<1>3. StageTyped' /\ OwnersWrite' /\ ProducerTyped' /\ NoWriterForgotten' /\ CallTyped'
      /\ OtherTyped'
  BY <1>1, <1>2, NobodyMoves, SelectorUnchanged, Kept
<1>4. AttemptsLeft'
  BY <1>1, <1>2 DEF AttemptsLeft, CallKept
<1> QED
  BY <1>2, <1>3, <1>4, Outside

LEMMA NextKeepsIInv ==
    ASSUME IInv, [Next]_vars
    PROVE  IInv'
<1>1. ASSUME NEW t \in Threads, NEW isAsync \in BOOLEAN,
             StartWrite(t, isAsync) \/ BeginUpdate(t, isAsync)
      PROVE  IInv'
  BY <1>1, StartWriteKeeps, BeginUpdateStepKeeps
<1>2. ASSUME NEW t \in Threads,
             \/ StartFlush(t) \/ FlushStep(t)
             \/ UpdateStep(t) \/ WriteStep(t)
      PROVE  IInv'
  BY <1>2, FlushStepKeeps, UpdateStepKeeps, WriteStepKeeps
<1>3. ASSUME NEW p \in Producers, NEW s \in Shards, NEW stored \in BOOLEAN,
             SendTaskOnce(p, s, stored)
      PROVE  IInv'
  BY <1>3, SendStepKeeps
<1>4. ASSUME NEW p \in Producers, ProducerStep(p) PROVE IInv'
  BY <1>4, LifeKeeps
<1> QED
  BY <1>1, <1>2, <1>3, <1>4, ReshardKeeps, StutterKeeps DEF Next, ProducerStep

----------------------------------------------------------------------------
(* The initial states *)

LEMMA InitIInv == Init => IInv
<1> SUFFICES ASSUME Init PROVE IInv
  OBVIOUS
<1>1. InitialShards \subseteq Shards /\ topic = InitialShards /\ shardMetas = InitialShards
  BY InitialShardsAssumption DEF Init
<1>2. /\ writers = [p \in Producers |-> IF p \in coordinators THEN topic ELSE {}]
      /\ selector = [p \in Producers |-> AddShards(NewSelector, writers[p])]
  BY DEF Init
<1>3. ASSUME NEW p \in Producers
      PROVE  /\ writers[p] \in SUBSET Shards
             /\ selector[p] \in Selector(Shards)
             /\ writers[p] \subseteq Known(selector[p])
  <2>1. writers[p] \in SUBSET Shards /\ selector[p] = AddShards(NewSelector, writers[p])
    BY <1>1, <1>2
  <2> QED
    BY <2>1, AddShardsKnown, NewSelectorType, ShardsAssumption
<1>4. ProducerTyped
  BY <1>2, <1>3 DEF ProducerTyped
<1>5. NoWriterForgotten
  BY <1>3 DEF NoWriterForgotten, Known
<1>6. StageTyped /\ OwnersWrite
  BY NoThreadAssumption DEF Init, StageTyped, OwnersWrite, Stages
<1>7. MetaTyped
  BY <1>1, TransientAssumption DEF Init, MetaTyped
<1>8. CallTyped
  <2>1. 0 \in 0 .. Cardinality(Shards)
    BY ShardsAssumption, FS_CardinalityType
  <2> QED
    BY <2>1, SomeShard DEF Init, CallTyped
<1>9. UpdateTyped
  <2>1. NoChange \in [add : SUBSET Shards, del : SUBSET Shards, shards : SUBSET Shards]
    BY DEF NoChange
  <2> QED
    BY <2>1, ProducerOfAssumption DEF Init, UpdateTyped
<1>10. OtherTyped
  <2>1. 0 \in 0 .. MaxReshards
    BY BoundsAssumption
  <2> QED
    BY <1>1, <2>1 DEF Init, OtherTyped
<1>11. AttemptsLeft
  BY DEF Init, AttemptsLeft
<1>12. UpdateInv
  <2>1. \A t \in Threads : stage[t] = "idle"
    BY DEF Init
  <2>2. OneUpdater /\ ChangeIsDifference /\ WritersAsTold
    BY <2>1 DEF OneUpdater, ChangeIsDifference, WritersAsTold, Updates
  <2>3. RegisteredWhileAlive /\ LateUnderConstruction
    BY DEF Init, RegisteredWhileAlive, LateUnderConstruction
  <2>4. WritersUpToDate
    BY <1>1, <1>2 DEF Init, WritersUpToDate
  <2> QED
    BY <2>2, <2>3, <2>4 DEF UpdateInv
<1>13. TypeOK
  BY <1>4, <1>6, <1>7, <1>8, <1>9, <1>10, TypeParts
<1> QED
  BY <1>5, <1>6, <1>11, <1>12, <1>13 DEF IInv

----------------------------------------------------------------------------
(* The theorems *)

LEMMA SpecIInv == Spec => []IInv
<1>1. IInv /\ [Next]_vars => IInv'
  BY NextKeepsIInv
<1> QED
  BY InitIInv, <1>1, PTL DEF Spec

\* The variables keep their types: Write never counts more attempts than there are shards
\* nor less than none, GetNextShard returns a shard, and mShardWriterMutex is held by a
\* thread in Flush only.
THEOREM TypesKept == Spec => []TypeOK
<1>1. IInv => TypeOK
  BY DEF IInv
<1> QED
  BY <1>1, SpecIInv, PTL

\* Between updates every open producer has exactly the writers of the shards in
\* mShardMetaMap, unless it was constructed during an update: a thread that passes on a
\* change is alone, the map stays until every registered coordinator has been told, and a
\* failure on the way leaves mUpdating set.
THEOREM WritersKeepUp == Spec => []WritersFollowMeta
<1>1. IInv => WritersFollowMeta
  BY DEF IInv, UpdateInv, WritersUpToDate, WritersFollowMeta
<1> QED
  BY <1>1, SpecIInv, PTL

\* The round robin of a producer never loses a writer: shards that come are appended, those
\* that fail are kept apart, and only those that are gone are dropped.
THEOREM WritersKnown == Spec => []NoWriterForgotten
<1>1. IInv => NoWriterForgotten
  BY DEF IInv
<1> QED
  BY <1>1, SpecIInv, PTL

=============================================================================
