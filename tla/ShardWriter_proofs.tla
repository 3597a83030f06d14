------------------------ MODULE ShardWriter_proofs ------------------------
(***************************************************************************)
(* The write path of the producer keeps calls in order, counts its tasks   *)
(* and implements OrderedDelivery, for any number of producers, shards,    *)
(* workers, calls, attempts and limits.                                    *)
(***************************************************************************)
EXTENDS ShardWriterProps, SequencesExt, SequenceTheorems, FiniteSetTheorems,
        WellFoundedInduction, TLAPS

----------------------------------------------------------------------------
(* The inductive invariant *)

InSendNextTask == {"submit", "count", "pop"}

ProducerPlaces == {"idle", "check", "append", "send", "wait", "asleep"} \cup InSendNextTask
WorkerPlaces == {"idle", "put", "done", "send"} \cup InSendNextTask

\* Who holds a mutex, and where: mSendMutex from ObtainPack until SendNextTask returns,
\* mTaskMutex from TaskDone until the SendNextTask it calls returns.
Owners ==
    /\ \A p \in Producers : pc[p] \in ProducerPlaces
    /\ \A w \in Workers : pc[w] \in WorkerPlaces
    /\ \A s \in Shards, t \in Threads : sendMutex[s] = t <=> At(t, s, InSendNextTask)
    /\ \A s \in Shards, w \in Workers :
           taskMutex[s] = w <=> At(w, s, {"send"} \cup InSendNextTask)

\* A worker has only tasks of the shards that hash to it.
TasksHashed ==
    /\ \A w \in Workers : pc[w] # "idle" => WorkerOf[shard[w]] = w
    /\ \A w \in Workers : \A i \in DOMAIN tasks[w] : WorkerOf[tasks[w][i].shard] = w

\* A pack that exists is not empty; SendNextTask has the front of the ready queue.
PacksFilled ==
    /\ \A s \in Shards : \A i \in DOMAIN queue[s].ready : queue[s].ready[i] # NoPack
    /\ \A w \in Workers : \A i \in DOMAIN tasks[w] : tasks[w][i].pack # NoPack
    /\ \A w \in Workers : pc[w] = "put" => running[w] # NoPack
    /\ \A t \in Threads : pc[t] \in InSendNextTask =>
           queue[shard[t]].ready # <<>> /\ pack[t] = Head(queue[shard[t]].ready)

\* A producer numbers its calls, so that every call is accepted once, by one shard.
CallsDistinct ==
    /\ \A p \in Producers : pc[p] \in {"check", "append"} => calls[p] < MaxCalls
    /\ \A c \in Call : promise[c] = "none" <=> c[2] > calls[c[1]]
    /\ \A s \in Shards : \A i \in DOMAIN accepted[s] :
           /\ promise[accepted[s][i]] # "none"
           /\ \A r \in Shards : \A j \in DOMAIN accepted[r] :
                  accepted[s][i] = accepted[r][j] => s = r /\ i = j

Appending(s) == {p \in Producers : At(p, s, {"append"})}

\* The packs of a shard's buffer and the producers about to add to it.
ReadyBound ==
    \A s \in Shards :
        Len(queue[s].ready) + (IF queue[s].current = NoPack THEN 0 ELSE 1)
            + Cardinality(Appending(s)) <= ReadyLimit + Cardinality(Producers)

\* While a thread is between Submit and PopPack, its task is outstanding, or the worker
\* that ran it is in TaskDone and waits for mSendMutex.
SubmittedIsOutstanding ==
    \A s \in Shards : Submitted(s) => Outstanding(s) > 0 \/ taskMutex[s] # NoThread

\* A Flush sleeps only while a task is counted.
SleeperCounted ==
    \A p \in Producers : pc[p] = "asleep" => totalTaskNum[shard[p]] > 0

IInv ==
    /\ Typed
    /\ Owners
    /\ TasksHashed
    /\ PacksFilled
    /\ CallsDistinct
    /\ ReadyBound
    /\ PipelineInOrder
    /\ TaskCountExact
    /\ SubmittedIsOutstanding
    /\ SleeperCounted

----------------------------------------------------------------------------
(* The inductive invariant of Flush, when no two shards share a worker *)

\* The calls of a shard that have left the current pack.
Left(s) == Len(accepted[s]) - Len(queue[s].current)

Resolved(s, n) == \A i \in 1 .. n : promise[accepted[s][i]] # "pending"

\* What a Flush waits for is not in the current pack any more, once it has made it ready.
FlushTarget ==
    \A p \in Producers :
        /\ pc[p] \in {"idle", "check", "append"} => ~flushing[p]
        /\ pc[p] \in {"wait", "asleep"} => flushing[p]
        /\ ~flushing[p] => target[p] = 0
        /\ target[p] <= Len(accepted[shard[p]])
        /\ flushing[p] /\ pc[p] # "send" => target[p] <= Left(shard[p])

\* What a waiting Flush waits for is counted, or the worker is in TaskDone.
FlushCounted ==
    \A p \in Producers : pc[p] \in {"wait", "asleep"} =>
        \/ totalTaskNum[shard[p]] > 0
        \/ taskMutex[shard[p]] # NoThread
        \/ Resolved(shard[p], target[p])

\* The worker whose TaskDone submits the next task has that task still to run.
SubmitterHasTask ==
    \A w \in Workers : pc[w] \in {"count", "pop"} =>
        \E i \in DOMAIN tasks[w] : tasks[w][i].shard = shard[w]

FInv == FlushTarget /\ FlushCounted /\ SubmitterHasTask

----------------------------------------------------------------------------
(* Induction over the numbers, as the least counterexample of a set *)

\* A non-empty set of numbers has a least element.
LEMMA LeastNumber ==
    ASSUME NEW T \in SUBSET Nat, T # {}
    PROVE  \E n \in T : \A m \in T : n <= m
<1> DEFINE R == {pair \in Nat \X Nat : pair[1] < pair[2]}
<1>1. IsWellFoundedOn(R, Nat)
  BY NatLessThanWellFounded DEF OpToRel
<1>2. PICK n \in T : \A m \in T : ~ (<<m, n>> \in R)
  <2>1. T \subseteq Nat
    OBVIOUS
  <2> HIDE DEF R
  <2> QED
    BY <1>1, <2>1, WFMin
<1>3. \A m \in T : ~ (m < n)
  BY <1>2
<1>4. \A m \in T : m \in Nat /\ n \in Nat
  OBVIOUS
<1> QED
  BY <1>3, <1>4

----------------------------------------------------------------------------
(* FlattenSeq: the recursive function of its definition exists *)

\* f concatenates the first n packs of seqs.
Flattens(f, seqs, n) ==
    /\ DOMAIN f = 1 .. n
    /\ \A i \in 1 .. n : f[i] = IF i = 1 THEN seqs[i] ELSE f[i - 1] \o seqs[i]

LEMMA FlattensStep ==
    ASSUME NEW m \in Nat, NEW n \in 0 .. m - 1, NEW seqs, NEW f, Flattens(f, seqs, m)
    PROVE  f[n + 1] = IF n = 0 THEN seqs[n + 1] ELSE f[n] \o seqs[n + 1]
<1> DEFINE i == n + 1
<1>1. i \in 1 .. m /\ i - 1 = n /\ (i = 1 <=> n = 0)
  OBVIOUS
<1> HIDE DEF i
<1>2. f[i] = IF i = 1 THEN seqs[i] ELSE f[i - 1] \o seqs[i]
  BY <1>1 DEF Flattens
<1> QED
  BY <1>1, <1>2 DEF i

LEMMA FlattenExists ==
    ASSUME NEW S, NEW seqs \in Seq(Seq(S)), NEW n \in 0 .. Len(seqs)
    PROVE  \E f : Flattens(f, seqs, n)
<1>0. Len(seqs) \in Nat
  BY LenProperties
<1> DEFINE T == {m \in 0 .. Len(seqs) : ~ \E f : Flattens(f, seqs, m)}
<1> SUFFICES ASSUME T # {} PROVE FALSE
  OBVIOUS
<1>1. PICK m \in T : \A k \in T : m <= k
  BY <1>0, LeastNumber, T \subseteq Nat
<1>2. m # 0
  <2>1. Flattens([i \in 1 .. 0 |-> 0], seqs, 0)
    BY DEF Flattens
  <2> QED
    BY <1>1, <2>1
<1>3. m - 1 \in 0 .. Len(seqs) /\ m - 1 \notin T
  <2>1. m \in 0 .. Len(seqs)
    OBVIOUS
  <2>2. ~ (m <= m - 1)
    BY <1>0, <2>1
  <2>3. m - 1 \notin T
    <3> HIDE DEF T
    <3> QED
      BY <1>1, <2>2
  <2> QED
    BY <1>0, <1>2, <2>1, <2>3
<1>4. PICK g : Flattens(g, seqs, m - 1)
  BY <1>3
<1> DEFINE f == [i \in 1 .. m |-> IF i < m THEN g[i]
                                  ELSE IF i = 1 THEN seqs[i] ELSE g[i - 1] \o seqs[i]]
<1>5. Flattens(f, seqs, m)
  <2>1. m \in Nat /\ m # 0
    BY <1>0, <1>2
  <2>2. ASSUME NEW i \in 1 .. m
        PROVE  f[i] = IF i = 1 THEN seqs[i] ELSE f[i - 1] \o seqs[i]
    <3>1. CASE i < m
      <4>1. i \in 1 .. m - 1 /\ (i # 1 => i - 1 \in 1 .. m /\ i - 1 < m)
        BY <2>1, <3>1
      <4> QED
        BY <1>4, <3>1, <4>1 DEF Flattens
    <3>2. CASE i = m
      <4>1. i # 1 => i - 1 \in 1 .. m /\ i - 1 < m
        BY <2>1, <3>2
      <4> QED
        BY <3>2, <4>1
    <3> QED
      BY <2>1, <3>1, <3>2
  <2> QED
    BY <2>2 DEF Flattens
<1> QED
  BY <1>1, <1>5

\* FlattenSeq(seqs) is the last entry of a function that concatenates the packs.
LEMMA FlattenDef ==
    ASSUME NEW S, NEW seqs \in Seq(Seq(S)), seqs # <<>>
    PROVE  \E f : Flattens(f, seqs, Len(seqs)) /\ FlattenSeq(seqs) = f[Len(seqs)]
<1> DEFINE n == Len(seqs)
           IsFlat(f) == f = [i \in 1 .. n |-> IF i = 1 THEN seqs[i] ELSE f[i - 1] \o seqs[i]]
           F == CHOOSE f : IsFlat(f)
<1>1. PICK f : Flattens(f, seqs, n)
  BY FlattenExists, LenProperties
<1>2. DOMAIN [i \in 1 .. n |-> f[i]] = 1 .. n
  OBVIOUS
<1>3. IsFlat([i \in 1 .. n |-> f[i]])
  <2>0. n \in Nat
    BY LenProperties
  <2> DEFINE h == [i \in 1 .. n |-> f[i]]
  <2>1. ASSUME NEW i \in 1 .. n
        PROVE  h[i] = IF i = 1 THEN seqs[i] ELSE h[i - 1] \o seqs[i]
    <3>1. i # 1 => i - 1 \in 1 .. n
      BY <2>0
    <3> QED
      BY <1>1, <3>1 DEF Flattens
  <2> QED
    BY <2>1
<1>4. IsFlat(F)
  BY <1>3
<1>5. Flattens(F, seqs, n)
  <2> HIDE DEF F
  <2> QED
    BY <1>4, LenProperties DEF Flattens
<1>6. n # 0
  BY EmptySeq, LenProperties
<1>7. FlattenSeq(seqs) = F[n]
  BY <1>6 DEF FlattenSeq
<1> QED
  BY <1>5, <1>7

\* A queue is its front and the rest.
LEMMA HeadIsFirst ==
    ASSUME NEW S, NEW seq \in Seq(S), seq # <<>>
    PROVE  seq = <<Head(seq)>> \o Tail(seq)
<1> DEFINE t == <<Head(seq)>> \o Tail(seq)
<1>1. /\ Head(seq) \in S /\ Tail(seq) \in Seq(S) /\ Len(Tail(seq)) = Len(seq) - 1
      /\ \A i \in 1 .. Len(seq) - 1 : Tail(seq)[i] = seq[i + 1]
      /\ Len(seq) \in Nat /\ Len(seq) > 0 /\ Head(seq) = seq[1]
  BY HeadTailProperties, LenProperties, EmptySeq
<1>2. <<Head(seq)>> \in Seq(S) /\ Len(<<Head(seq)>>) = 1 /\ <<Head(seq)>>[1] = Head(seq)
  BY <1>1
<1>3. /\ t \in Seq(S) /\ Len(t) = Len(seq)
      /\ \A i \in 1 .. Len(seq) : t[i] = IF i <= 1 THEN Head(seq) ELSE Tail(seq)[i - 1]
  BY <1>1, <1>2, ConcatProperties
<1>4. ASSUME NEW i \in 1 .. Len(seq) PROVE seq[i] = t[i]
  <2>1. CASE i = 1
    BY <1>1, <1>3, <2>1
  <2>2. CASE i # 1
    <3>1. i - 1 \in 1 .. Len(seq) - 1 /\ (i - 1) + 1 = i /\ ~ (i <= 1)
      BY <1>1, <2>2
    <3>2. Tail(seq)[i - 1] = seq[(i - 1) + 1]
      BY <1>1, <3>1
    <3> QED
      BY <1>3, <3>1, <3>2
  <2> QED
    BY <2>1, <2>2
<1> HIDE DEF t
<1> QED
  BY <1>3, <1>4, SeqEqual DEF t

LEMMA FlattenEmpty == FlattenSeq(<<>>) = <<>>
  BY DEF FlattenSeq

LEMMA FlattenType ==
    ASSUME NEW S, NEW seqs \in Seq(Seq(S))
    PROVE  FlattenSeq(seqs) \in Seq(S)
<1>0. Len(seqs) \in Nat /\ seqs \in [1 .. Len(seqs) -> Seq(S)]
  BY LenProperties
<1>1. CASE seqs = <<>>
  BY <1>1, FlattenEmpty, EmptySeq
<1>2. CASE seqs # <<>>
  <2>1. PICK f : Flattens(f, seqs, Len(seqs)) /\ FlattenSeq(seqs) = f[Len(seqs)]
    BY <1>2, FlattenDef
  <2> DEFINE T == {i \in 1 .. Len(seqs) : f[i] \notin Seq(S)}
  <2>2. T = {}
    <3> SUFFICES ASSUME T # {} PROVE FALSE
      OBVIOUS
    <3>1. PICK i \in T : \A k \in T : i <= k
      BY LeastNumber, T \subseteq Nat
    <3>2. i \in 1 .. Len(seqs) /\ f[i] \notin Seq(S) /\ seqs[i] \in Seq(S)
      BY <1>0
    <3>3. f[i] = IF i = 1 THEN seqs[i] ELSE f[i - 1] \o seqs[i]
      BY <2>1, <3>2 DEF Flattens
    <3>4. i # 1 => i - 1 \in 1 .. Len(seqs) /\ ~ (i <= i - 1)
      BY <1>0, <3>2
    <3>5. i # 1 => i - 1 \notin T
      <4> HIDE DEF T
      <4> QED
        BY <3>1, <3>4
    <3> QED
      BY <3>2, <3>3, <3>4, <3>5, ConcatProperties
  <2>3. Len(seqs) \in 1 .. Len(seqs)
    BY <1>0, <1>2, EmptySeq
  <2> QED
    BY <2>1, <2>2, <2>3
<1> QED
  BY <1>1, <1>2

\* A pack at the front is concatenated first.
LEMMA FlattenCons ==
    ASSUME NEW S, NEW seqs \in Seq(Seq(S)), NEW p \in Seq(S)
    PROVE  FlattenSeq(<<p>> \o seqs) = p \o FlattenSeq(seqs)
<1> DEFINE more == <<p>> \o seqs
           n == Len(seqs)
<1>0. /\ n \in Nat /\ more \in Seq(Seq(S)) /\ more # <<>> /\ Len(more) = n + 1
      /\ \A i \in 1 .. n : more[i + 1] = seqs[i]
      /\ more[1] = p
      /\ \A i \in 1 .. n : seqs[i] \in Seq(S)
  <2>1. <<p>> \in Seq(Seq(S)) /\ Len(<<p>>) = 1 /\ <<p>>[1] = p
    OBVIOUS
  <2>2. n \in Nat
    BY LenProperties
  <2>3. more \in Seq(Seq(S)) /\ Len(more) = 1 + n
    BY <2>1, ConcatProperties
  <2>4. \A i \in 1 .. 1 + n : more[i] = IF i <= 1 THEN <<p>>[i] ELSE seqs[i - 1]
    <3> HIDE DEF n
    <3> QED
      BY <2>1, ConcatProperties DEF n
  <2>5. ASSUME NEW i \in 1 .. n PROVE more[i + 1] = seqs[i]
    BY <2>2, <2>4
  <2>6. more[1] = p
    BY <2>1, <2>2, <2>4
  <2>7. more # <<>>
    BY <2>2, <2>3
  <2> QED
    BY <2>2, <2>3, <2>5, <2>6, <2>7, LenProperties
<1> HIDE DEF more, n
<1>1. PICK g : Flattens(g, more, n + 1) /\ FlattenSeq(more) = g[n + 1]
  BY <1>0, FlattenDef
<1>2. g[1] = p
  BY <1>0, <1>1 DEF Flattens
<1>3. CASE seqs = <<>>
  <2>1. n = 0
    BY <1>3 DEF n
  <2> QED
    BY <1>1, <1>2, <1>3, <2>1, FlattenEmpty, ConcatEmptySeq DEF more
<1>4. CASE seqs # <<>>
  <2>1. PICK f : Flattens(f, seqs, n) /\ FlattenSeq(seqs) = f[n]
    BY <1>4, FlattenDef DEF n
  <2>2. n \in 1 .. n
    BY <1>0, <1>4, EmptySeq DEF n
  <2> DEFINE T == {i \in 1 .. n : ~ (f[i] \in Seq(S) /\ g[i + 1] = p \o f[i])}
  <2>3. T = {}
    <3> SUFFICES ASSUME T # {} PROVE FALSE
      OBVIOUS
    <3>1. PICK i \in T : \A k \in T : i <= k
      BY LeastNumber, T \subseteq Nat
    <3>2. i \in 1 .. n /\ i + 1 \in 1 .. n + 1 /\ i + 1 - 1 = i /\ i + 1 # 1
      BY <1>0
    <3>3. f[i] = IF i = 1 THEN seqs[i] ELSE f[i - 1] \o seqs[i]
      BY <2>1, <3>2 DEF Flattens
    <3>4. g[i + 1] = g[i] \o seqs[i]
      <4> DEFINE m == n + 1
      <4>1. m \in Nat /\ i \in 0 .. m - 1 /\ i # 0 /\ Flattens(g, more, m)
        BY <1>0, <1>1, <3>2
      <4> HIDE DEF m
      <4>2. g[i + 1] = IF i = 0 THEN more[i + 1] ELSE g[i] \o more[i + 1]
        BY <4>1, FlattensStep
      <4> QED
        BY <1>0, <3>2, <4>1, <4>2
    <3>5. CASE i = 1
      BY <1>0, <1>2, <3>2, <3>3, <3>4, <3>5
    <3>6. CASE i # 1
      <4>1. i - 1 \in 1 .. n /\ ~ (i <= i - 1) /\ i - 1 + 1 = i
        BY <1>0, <3>2, <3>6
      <4>2. i - 1 \notin T
        <5> HIDE DEF T
        <5> QED
          BY <3>1, <4>1
      <4>3. f[i - 1] \in Seq(S) /\ g[i] = p \o f[i - 1]
        BY <4>1, <4>2
      <4>4. seqs[i] \in Seq(S)
        BY <1>0, <3>2
      <4>5. f[i] \in Seq(S) /\ g[i + 1] = p \o f[i]
        <5>1. f[i] = f[i - 1] \o seqs[i] /\ g[i + 1] = (p \o f[i - 1]) \o seqs[i]
          BY <3>3, <3>4, <3>6, <4>3
        <5>2. (p \o f[i - 1]) \o seqs[i] = p \o (f[i - 1] \o seqs[i])
          <6> HIDE DEF T
          <6>1. \A a, b \in Seq(S) : (p \o a) \o b = p \o (a \o b)
            BY ConcatAssociative
          <6> QED
            BY <4>3, <4>4, <6>1
        <5>3. f[i - 1] \o seqs[i] \in Seq(S)
          BY <4>3, <4>4, ConcatProperties
        <5> QED
          BY <5>1, <5>2, <5>3
      <4> QED
        BY <4>5
    <3> QED
      BY <3>5, <3>6
  <2>4. g[n + 1] = p \o f[n]
    BY <2>2, <2>3
  <2> QED
    BY <1>1, <2>1, <2>4 DEF more
<1> QED
  BY <1>3, <1>4

\* The packs of two sequences one after the other.
LEMMA FlattenConcat ==
    ASSUME NEW S, NEW seqs \in Seq(Seq(S)), NEW more \in Seq(Seq(S))
    PROVE  FlattenSeq(seqs \o more) = FlattenSeq(seqs) \o FlattenSeq(more)
<1> DEFINE Splits(x) == FlattenSeq(x \o more) = FlattenSeq(x) \o FlattenSeq(more)
<1>0. ASSUME NEW h \in Seq(S), NEW r \in Seq(Seq(S)), Splits(r)
      PROVE  Splits(<<h>> \o r)
  <2>1. (<<h>> \o r) \o more = <<h>> \o (r \o more) /\ r \o more \in Seq(Seq(S))
    <3>1. <<h>> \in Seq(Seq(S))
      OBVIOUS
    <3> QED
      BY <3>1, ConcatAssociative, ConcatProperties, SMTT(60)
  <2>2. FlattenSeq((<<h>> \o r) \o more) = h \o FlattenSeq(r \o more)
    BY <2>1, FlattenCons
  <2>3. FlattenSeq(<<h>> \o r) = h \o FlattenSeq(r)
    BY FlattenCons
  <2>4. FlattenSeq(r) \in Seq(S) /\ FlattenSeq(more) \in Seq(S)
    BY FlattenType
  <2>5. h \o (FlattenSeq(r) \o FlattenSeq(more)) = (h \o FlattenSeq(r)) \o FlattenSeq(more)
    BY <2>4, ConcatAssociative, SMTT(60)
  <2> QED
    BY <1>0, <2>2, <2>3, <2>5
<1> DEFINE T == {n \in Nat : \E a \in Seq(Seq(S)) : Len(a) = n /\ ~ Splits(a)}
<1>1. T = {}
  <2> SUFFICES ASSUME T # {} PROVE FALSE
    OBVIOUS
  <2>1. PICK n \in T : \A m \in T : n <= m
    BY LeastNumber, T \subseteq Nat
  <2>2. PICK a \in Seq(Seq(S)) : Len(a) = n /\ ~ Splits(a)
    OBVIOUS
  <2>3. CASE a = <<>>
    <3>1. a \o more = more
      BY <2>3, ConcatEmptySeq
    <3>2. FlattenSeq(a) \o FlattenSeq(more) = FlattenSeq(more)
      <4>1. FlattenSeq(a) = <<>> /\ FlattenSeq(more) \in Seq(S)
        BY <2>3, FlattenEmpty, FlattenType
      <4> HIDE DEF T, Splits
      <4> QED
        BY <4>1, ConcatEmptySeq
    <3> QED
      BY <2>2, <3>1, <3>2
  <2>4. CASE a # <<>>
    <3>1. PICK h \in Seq(S), r \in Seq(Seq(S)) : a = <<h>> \o r /\ Len(r) = n - 1
      BY <2>2, <2>4, HeadIsFirst, HeadTailProperties
    <3>3. Splits(r)
      <4>1. n \in Nat /\ Len(r) \in Nat /\ ~ (n <= Len(r))
        BY <3>1, LenProperties
      <4>2. Len(r) \notin T
        <5> HIDE DEF T
        <5> QED
          BY <2>1, <4>1
      <4> QED
        BY <4>1, <4>2
    <3>4. Splits(<<h>> \o r)
      BY <1>0, <3>3
    <3> QED
      BY <2>2, <3>1, <3>4
  <2> QED
    BY <2>3, <2>4
<1>2. Len(seqs) \in Nat
  BY LenProperties
<1> QED
  BY <1>1, <1>2

\* A pack at the end is concatenated last.
LEMMA FlattenAppend ==
    ASSUME NEW S, NEW seqs \in Seq(Seq(S)), NEW p \in Seq(S)
    PROVE  FlattenSeq(Append(seqs, p)) = FlattenSeq(seqs) \o p
<1>1. Append(seqs, p) = seqs \o <<p>> /\ <<p>> \in Seq(Seq(S))
  BY AppendIsConcat
<1>2. FlattenSeq(<<p>>) = p
  <2>1. <<p>> = <<p>> \o <<>> /\ <<>> \in Seq(Seq(S))
    BY <1>1, ConcatEmptySeq, EmptySeq
  <2>2. FlattenSeq(<<p>> \o <<>>) = p \o FlattenSeq(<<>>)
    BY <2>1, FlattenCons
  <2> QED
    BY <2>1, <2>2, FlattenEmpty, ConcatEmptySeq
<1> QED
  BY <1>1, <1>2, FlattenConcat

----------------------------------------------------------------------------
(* The end of a sequence *)

\* When the end of a sequence splits in two, both parts are runs of the sequence.
LEMMA SplitSubSeq ==
    ASSUME NEW S, NEW seq \in Seq(S), NEW k \in 0 .. Len(seq), NEW r \in Seq(S), NEW x \in Seq(S),
           r \o x = SubSeq(seq, k + 1, Len(seq))
    PROVE  /\ Len(r) \in Nat /\ k + Len(r) \in k .. Len(seq)
           /\ r = SubSeq(seq, k + 1, k + Len(r))
           /\ x = SubSeq(seq, k + Len(r) + 1, Len(seq))
<1> DEFINE n == Len(seq)
           m == Len(r)
           t == SubSeq(seq, k + 1, n)
<1>1. n \in Nat /\ m \in Nat /\ Len(x) \in Nat /\ \A i \in 1 .. n : seq[i] \in S
  BY LenProperties
<1>2. /\ Len(t) = n - k
      /\ \A i \in 1 .. n - k : t[i] = seq[k + i]
  <2>1. \A i \in k + 1 .. n : seq[i] \in S
    BY <1>1
  <2> HIDE DEF n
  <2>2. /\ Len(t) = IF k + 1 <= n THEN n - (k + 1) + 1 ELSE 0
        /\ \A i \in 1 .. n - (k + 1) + 1 : t[i] = seq[k + 1 + i - 1]
    BY <1>1, <2>1, SubSeqProperties DEF n
  <2> QED
    BY <1>1, <2>2 DEF n
<1>3. /\ Len(r \o x) = m + Len(x)
      /\ \A i \in 1 .. m + Len(x) : (r \o x)[i] = IF i <= m THEN r[i] ELSE x[i - m]
  BY ConcatProperties
<1>4. m + Len(x) = n - k
  BY <1>2, <1>3
<1>5. ASSUME NEW i \in 1 .. m PROVE r[i] = seq[k + i]
  BY <1>1, <1>2, <1>3, <1>4
<1>6. ASSUME NEW i \in 1 .. Len(x) PROVE x[i] = seq[k + m + i]
  <2>1. m + i \in 1 .. m + Len(x) /\ ~ (m + i <= m) /\ (m + i) - m = i
    BY <1>1
  <2>2. (r \o x)[m + i] = x[i]
    BY <1>3, <2>1
  <2>3. t[m + i] = seq[k + (m + i)]
    BY <1>2, <1>4, <2>1
  <2> QED
    BY <1>1, <2>2, <2>3
<1>7. r = SubSeq(seq, k + 1, k + m)
  <2> DEFINE u == SubSeq(seq, k + 1, k + m)
  <2>1. /\ u \in Seq(S)
        /\ Len(u) = IF k + 1 <= k + m THEN k + m - (k + 1) + 1 ELSE 0
        /\ \A i \in 1 .. k + m - (k + 1) + 1 : u[i] = seq[k + 1 + i - 1]
    <3> DEFINE a == k + 1
               b == k + m
    <3>1. a \in Int /\ b \in Int /\ \A i \in a .. b : seq[i] \in S
      BY <1>1, <1>4
    <3> HIDE DEF a, b
    <3>2. /\ SubSeq(seq, a, b) \in Seq(S)
          /\ Len(SubSeq(seq, a, b)) = IF a <= b THEN b - a + 1 ELSE 0
          /\ \A i \in 1 .. b - a + 1 : SubSeq(seq, a, b)[i] = seq[a + i - 1]
      BY <3>1, SubSeqProperties
    <3> QED
      BY <3>2 DEF a, b
  <2>2. Len(u) = m /\ \A i \in 1 .. m : u[i] = seq[k + i]
    <3> HIDE DEF u, m, n
    <3>1. k \in Nat /\ k + m - (k + 1) + 1 = m /\ (k + 1 <= k + m <=> m # 0)
      BY <1>1
    <3>2. \A i \in 1 .. m : k + 1 + i - 1 = k + i
      BY <1>1
    <3> QED
      BY <1>1, <2>1, <3>1, <3>2
  <2> HIDE DEF u
  <2> QED
    BY <1>5, <2>1, <2>2, SeqEqual DEF u
<1>8. x = SubSeq(seq, k + m + 1, n)
  <2> DEFINE u == SubSeq(seq, k + m + 1, n)
  <2>1. /\ u \in Seq(S)
        /\ Len(u) = IF k + m + 1 <= n THEN n - (k + m + 1) + 1 ELSE 0
        /\ \A i \in 1 .. n - (k + m + 1) + 1 : u[i] = seq[k + m + 1 + i - 1]
    <3>1. k + m + 1 \in Int /\ n \in Int /\ \A i \in k + m + 1 .. n : seq[i] \in S
      BY <1>1
    <3> HIDE DEF m, n
    <3> QED
      BY <3>1, SubSeqProperties
  <2>2. Len(u) = Len(x) /\ \A i \in 1 .. Len(x) : u[i] = seq[k + m + i]
    <3> HIDE DEF u, m, n
    <3>1. /\ k \in Nat /\ n - (k + m + 1) + 1 = Len(x)
          /\ k + m + 1 <= n <=> Len(x) # 0
      BY <1>1, <1>4
    <3>2. \A i \in 1 .. Len(x) : k + m + 1 + i - 1 = k + m + i
      BY <1>1
    <3> QED
      BY <1>1, <2>1, <3>1, <3>2
  <2> HIDE DEF u
  <2> QED
    BY <1>6, <2>1, <2>2, SeqEqual DEF u
<1> QED
  BY <1>1, <1>4, <1>7, <1>8

LEMMA AppendSubSeq ==
    ASSUME NEW S, NEW seq \in Seq(S), NEW e \in S, NEW k \in 0 .. Len(seq)
    PROVE  SubSeq(Append(seq, e), k + 1, Len(seq) + 1) = SubSeq(seq, k + 1, Len(seq)) \o <<e>>
<1> DEFINE more == Append(seq, e)
           n == Len(seq)
<1>1. /\ n \in Nat /\ more \in Seq(S) /\ Len(more) = n + 1 /\ more[n + 1] = e
      /\ \A i \in 1 .. n : more[i] = seq[i] /\ seq[i] \in S
  BY AppendProperties, LenProperties
<1> HIDE DEF more
<1>2. SubSeq(more, k + 1, n + 1) = SubSeq(more, k + 1, n) \o <<e>>
  <2> DEFINE a == k + 1
             b == n + 1
  <2>1. a \in 1 .. Len(more) /\ b \in a .. Len(more) /\ more[b] = e /\ b - 1 = n
    BY <1>1
  <2> HIDE DEF a, b, n
  <2>2. SubSeq(more, a, b) = SubSeq(more, a, b - 1) \o <<more[b]>>
    BY <1>1, <2>1, SubSeqRecursiveSecond
  <2> QED
    BY <2>1, <2>2 DEF a, b
<1>3. SubSeq(more, k + 1, n) = SubSeq(seq, k + 1, n)
  <2> DEFINE u == SubSeq(more, k + 1, n)
             v == SubSeq(seq, k + 1, n)
  <2>1. /\ u \in Seq(S) /\ Len(u) = IF k + 1 <= n THEN n - (k + 1) + 1 ELSE 0
        /\ \A i \in 1 .. n - (k + 1) + 1 : u[i] = more[k + 1 + i - 1]
    <3>1. \A i \in k + 1 .. n : more[i] \in S
      BY <1>1
    <3> HIDE DEF n
    <3> QED
      BY <1>1, <3>1, SubSeqProperties
  <2>2. /\ v \in Seq(S) /\ Len(v) = IF k + 1 <= n THEN n - (k + 1) + 1 ELSE 0
        /\ \A i \in 1 .. n - (k + 1) + 1 : v[i] = seq[k + 1 + i - 1]
    <3>1. \A i \in k + 1 .. n : seq[i] \in S
      BY <1>1
    <3> HIDE DEF n
    <3> QED
      BY <1>1, <3>1, SubSeqProperties
  <2>3. Len(u) = Len(v) /\ \A i \in 1 .. Len(u) : u[i] = v[i]
    BY <1>1, <2>1, <2>2
  <2> HIDE DEF u, v
  <2> QED
    BY <2>1, <2>2, <2>3, SeqEqual DEF u, v
<1> QED
  BY <1>1, <1>2, <1>3 DEF more

----------------------------------------------------------------------------
(* The positions of a queue that hold an element of a set *)

Positions(seq, T) == {i \in DOMAIN seq : seq[i] \in T}

LEMMA PositionsFinite ==
    ASSUME NEW S, NEW seq \in Seq(S), NEW T
    PROVE  /\ IsFiniteSet(Positions(seq, T))
           /\ Cardinality(Positions(seq, T)) \in Nat
           /\ Cardinality(Positions(seq, T)) = 0 <=> Positions(seq, T) = {}
<1>1. Len(seq) \in Nat /\ DOMAIN seq = 1 .. Len(seq)
  BY LenProperties
<1>2. IsFiniteSet(1 .. Len(seq))
  BY <1>1, FS_Interval
<1>3. Positions(seq, T) \in SUBSET (1 .. Len(seq))
  BY <1>1 DEF Positions
<1>4. IsFiniteSet(Positions(seq, T))
  BY <1>2, <1>3, FS_Subset
<1> QED
  BY <1>4, FS_CardinalityType, FS_EmptySet

LEMMA PositionsAppend ==
    ASSUME NEW S, NEW seq \in Seq(S), NEW e \in S, NEW T
    PROVE  Cardinality(Positions(Append(seq, e), T))
               = Cardinality(Positions(seq, T)) + (IF e \in T THEN 1 ELSE 0)
<1> DEFINE P == Positions(seq, T)
           n == Len(seq)
<1>1. /\ n \in Nat /\ DOMAIN seq = 1 .. n /\ DOMAIN Append(seq, e) = 1 .. n + 1
      /\ \A i \in 1 .. n : Append(seq, e)[i] = seq[i]
      /\ Append(seq, e)[n + 1] = e
  BY AppendProperties, LenProperties
<1>2. IsFiniteSet(P) /\ Cardinality(P) \in Nat
  BY PositionsFinite
<1>3. n + 1 \notin P
  BY <1>1 DEF Positions
<1>4. Positions(Append(seq, e), T) = IF e \in T THEN P \cup {n + 1} ELSE P
  BY <1>1 DEF Positions
<1> HIDE DEF P, n
<1>5. Cardinality(P \cup {n + 1}) = Cardinality(P) + 1
  BY <1>2, <1>3, FS_AddElement
<1> QED
  BY <1>2, <1>4, <1>5 DEF P

LEMMA PositionsTail ==
    ASSUME NEW S, NEW seq \in Seq(S), seq # <<>>, NEW T
    PROVE  Cardinality(Positions(seq, T))
               = Cardinality(Positions(Tail(seq), T)) + (IF Head(seq) \in T THEN 1 ELSE 0)
<1> DEFINE P == Positions(seq, T)
           Q == Positions(Tail(seq), T)
           n == Len(seq)
           f == [i \in Q |-> i + 1]
<1>1. /\ n \in Nat /\ n > 0 /\ DOMAIN seq = 1 .. n /\ DOMAIN Tail(seq) = 1 .. n - 1
      /\ \A i \in 1 .. n - 1 : Tail(seq)[i] = seq[i + 1]
      /\ Head(seq) = seq[1]
      /\ Tail(seq) \in Seq(S)
  BY HeadTailProperties, LenProperties, EmptySeq
<1>2. IsFiniteSet(P) /\ IsFiniteSet(Q) /\ Cardinality(P) \in Nat
  <2>1. IsFiniteSet(Q)
    <3> HIDE DEF Q
    <3> QED
      BY <1>1, PositionsFinite DEF Q
  <2> QED
    BY <2>1, PositionsFinite
<1>3. f \in Bijection(Q, P \ {1})
  <2>1. \A i \in Q : i \in 1 .. n - 1 /\ i + 1 \in P \ {1}
    BY <1>1 DEF Positions
  <2>2. \A j \in P \ {1} : j - 1 \in Q /\ (j - 1) + 1 = j
    <3> SUFFICES ASSUME NEW j \in P \ {1} PROVE j - 1 \in Q /\ (j - 1) + 1 = j
      OBVIOUS
    <3>1. j \in 1 .. n /\ j # 1 /\ seq[j] \in T
      BY <1>1 DEF Positions
    <3>2. j - 1 \in 1 .. n - 1 /\ (j - 1) + 1 = j
      BY <1>1, <3>1
    <3>3. Tail(seq)[j - 1] = seq[j]
      BY <1>1, <3>2
    <3> QED
      BY <1>1, <3>1, <3>2, <3>3 DEF Positions
  <2>3. f \in [Q -> P \ {1}]
    BY <2>1
  <2>4. \A a, b \in Q : f[a] = f[b] => a = b
    BY <2>1
  <2>5. \A j \in P \ {1} : \E i \in Q : f[i] = j
    <3> HIDE DEF P, Q
    <3> QED
      BY <2>2
  <2> HIDE DEF P, Q, f
  <2> QED
    BY <2>3, <2>4, <2>5 DEF Bijection, Injection, Surjection, IsInjective
<1>4. Cardinality(P \ {1}) = Cardinality(Q)
  <2> HIDE DEF P, Q, f
  <2> QED
    BY <1>2, <1>3, FS_Bijection DEF ExistsBijection
<1>5. Cardinality(P \ {1}) = IF 1 \in P THEN Cardinality(P) - 1 ELSE Cardinality(P)
  <2> HIDE DEF P
  <2> QED
    BY <1>2, FS_RemoveElement
<1>6. 1 \in P <=> Head(seq) \in T
  BY <1>1 DEF Positions
<1>7. Cardinality(Q) \in Nat
  BY <1>2, FS_CardinalityType
<1> QED
  BY <1>2, <1>4, <1>5, <1>6, <1>7

----------------------------------------------------------------------------
(* Types *)

LEMMA NoPackType == NoPack \in Seq(Call)
  BY EmptySeq DEF NoPack

LEMMA QueueTypes ==
    ASSUME NEW q \in PackQueue(Call), NEW timeUp \in BOOLEAN
    PROVE  /\ \A c \in Call : AppendRecord(q, c, timeUp) \in PackQueue(Call)
           /\ \A force \in BOOLEAN : MakeReady(q, force, timeUp) \in PackQueue(Call)
           /\ PopBackRecordPack(q) \in PackQueue(Call)
           /\ FrontPack(q) \in Seq(Call)
<1>1. q = [current |-> q.current, ready |-> q.ready] /\ q.current \in Seq(Call) /\ q.ready \in Seq(Seq(Call))
  BY DEF PackQueue
<1>2. ASSUME NEW c \in Call PROVE AppendRecord(q, c, timeUp) \in PackQueue(Call)
  <2>1. <<c>> \in Seq(Call) /\ Append(q.current, c) \in Seq(Call) /\ NoPack \in Seq(Call)
    BY <1>1, NoPackType
  <2>2. \A e \in Seq(Call) : Append(q.ready, e) \in Seq(Seq(Call))
    BY <1>1, AppendProperties
  <2> QED
    BY <1>1, <2>1, <2>2 DEF AppendRecord, PackQueue
<1>3. ASSUME NEW force \in BOOLEAN PROVE MakeReady(q, force, timeUp) \in PackQueue(Call)
  <2>1. Append(q.ready, q.current) \in Seq(Seq(Call))
    BY <1>1, AppendProperties
  <2> QED
    BY <1>1, <2>1, NoPackType DEF MakeReady, PackQueue
<1>4. PopBackRecordPack(q) \in PackQueue(Call) /\ FrontPack(q) \in Seq(Call)
  <2>1. q.ready # <<>> => Tail(q.ready) \in Seq(Seq(Call)) /\ Head(q.ready) \in Seq(Call)
    BY <1>1, HeadTailProperties
  <2> QED
    BY <1>1, <2>1, NoPackType DEF PopBackRecordPack, FrontPack, PackQueue
<1> QED
  BY <1>2, <1>3, <1>4

LEMMA InitTyped == Init => Typed
<1> SUFFICES ASSUME Init PROVE Typed
  OBVIOUS
<1>1. EmptyQueue \in PackQueue(Call)
  BY NoPackType, EmptySeq DEF EmptyQueue, PackQueue
<1>2. (CHOOSE s \in Shards : TRUE) \in Shards
  BY ShardsAssumption DEF ShardsAssumption
<1> QED
  BY <1>1, <1>2, NoPackType, EmptySeq, RetryTimesAssumption, MaxCallsAssumption
     DEF Init, Typed, Places, Threads, RetryTimesAssumption, MaxCallsAssumption

LEMMA NextTyped == IInv /\ [Next]_vars => Typed'
<1> SUFFICES ASSUME IInv, [Next]_vars PROVE Typed'
  OBVIOUS
<1>0. Typed
  BY DEF IInv
<1> USE DEF Threads, history, worker, locks
<1>1. ASSUME NEW p \in Producers, ProducerStep(p) PROVE Typed'
  <2>1. ASSUME NEW s \in Shards, StartWriteAsync(p, s) PROVE Typed'
    BY <1>0, <2>1 DEF Typed, Places, StartWriteAsync, Goto
  <2>2. ASSUME NEW s \in Shards, StartFlush(p, s) PROVE Typed'
    BY <1>0, <2>2, LenProperties DEF Typed, Places, StartFlush, Goto
  <2>3. CASE PassLimit(p)
    BY <1>0, <2>3 DEF Typed, Places, PassLimit, Goto
  <2>4. CASE LimitTimeout(p)
    BY <1>0, <2>4 DEF Typed, Places, LimitTimeout, Goto
  <2>5. CASE Accept(p)
    <3>1. calls[p] \in Nat /\ calls[p] < MaxCalls /\ <<p, calls[p] + 1>> \in Call
      <4>1. calls[p] \in 0 .. MaxCalls /\ pc[p] = "append"
        BY <1>0, <2>5 DEF Typed, Places, Accept
      <4>2. calls[p] + 1 \in 1 .. MaxCalls /\ calls[p] < MaxCalls
        BY <4>1, MaxCallsAssumption DEF IInv, CallsDistinct, MaxCallsAssumption
      <4> QED
        BY <4>1, <4>2 DEF Call
    <3>2. queue' \in [Shards -> PackQueue(Call)]
      <4>1. \A timeUp \in BOOLEAN :
                AppendRecord(queue[shard[p]], <<p, calls[p] + 1>>, timeUp) \in PackQueue(Call)
        <5>1. queue[shard[p]] \in PackQueue(Call)
          BY <1>0 DEF Typed
        <5> QED
          BY <3>1, <5>1, QueueTypes
      <4>2. \E timeUp \in BOOLEAN :
                queue' = [queue EXCEPT ![shard[p]] =
                              AppendRecord(queue[shard[p]], <<p, calls[p] + 1>>, timeUp)]
        BY <2>5 DEF Accept
      <4>3. queue \in [Shards -> PackQueue(Call)]
        BY <1>0 DEF Typed
      <4> QED
        BY <4>1, <4>2, <4>3
    <3>3. accepted' \in [Shards -> Seq(Call)]
      BY <1>0, <2>5, <3>1 DEF Typed, Places, Accept
    <3>4. calls' \in [Producers -> 0 .. MaxCalls]
      <4>1. calls[p] + 1 \in 0 .. MaxCalls
        BY <3>1, MaxCallsAssumption DEF MaxCallsAssumption
      <4> QED
        BY <1>0, <2>5, <4>1 DEF Typed, Places, Accept
    <3> QED
      BY <1>0, <2>5, <3>2, <3>3, <3>4 DEF Typed, Places, Accept, Goto
  <2>6. CASE FlushWait(p)
    <3>1. pc' \in [Threads -> Places]
      <4>1. pc' = [pc EXCEPT ![p] = "idle"] \/ pc' = [pc EXCEPT ![p] = "asleep"]
        BY <2>6 DEF FlushWait, Goto
      <4> QED
        BY <1>0, <4>1 DEF Typed, Places
    <3>2. flushing' \in [Producers -> BOOLEAN]
      BY <1>0, <2>6 DEF Typed, FlushWait
    <3>3. target' \in [Producers -> Nat]
      <4>1. target' = [target EXCEPT ![p] = 0] \/ target' = target
        BY <2>6 DEF FlushWait
      <4>2. target \in [Producers -> Nat]
        BY <1>0 DEF Typed
      <4> QED
        BY <4>1, <4>2
    <3> QED
      BY <1>0, <2>6, <3>1, <3>2, <3>3 DEF Typed, Places, FlushWait
  <2> QED
    BY <1>1, <2>1, <2>2, <2>3, <2>4, <2>5, <2>6 DEF ProducerStep
<1>2. ASSUME NEW w \in Workers, WorkerStep(w) PROVE Typed'
  <2>1. CASE TakeTask(w)
    <3>1. Head(tasks[w]) \in Task /\ Tail(tasks[w]) \in Seq(Task)
      BY <1>0, <2>1, HeadTailProperties DEF Typed, Places, TakeTask
    <3> QED
      BY <1>0, <2>1, <3>1 DEF Typed, Places, TakeTask, Goto, Task
  <2>2. CASE PutSucceeds(w)
    <3>1. log' \in [Shards -> Seq(Seq(Call))]
      BY <1>0, <2>2 DEF Typed, Places, PutSucceeds, Stores
    <3>2. promise' \in [Call -> {"none", "pending", "value", "exception"}]
      BY <1>0, <2>2 DEF Typed, Places, PutSucceeds, Resolve
    <3> QED
      BY <1>0, <2>2, <3>1, <3>2 DEF Typed, Places, PutSucceeds, Goto
  <2>3. CASE PutRetries(w)
    <3>1. log' \in [Shards -> Seq(Seq(Call))]
      BY <1>0, <2>3 DEF Typed, Places, PutRetries, Stores
    <3>2. retryNum' \in [Workers -> 0 .. RetryTimes]
      BY <1>0, <2>3, RetryTimesAssumption DEF Typed, Places, PutRetries, AttemptsLeft, RetryTimesAssumption
    <3> QED
      BY <1>0, <2>3, <3>1, <3>2 DEF Typed, Places, PutRetries
  <2>4. CASE PutFails(w)
    <3>1. log' \in [Shards -> Seq(Seq(Call))]
      BY <1>0, <2>4 DEF Typed, Places, PutFails, Stores
    <3>2. promise' \in [Call -> {"none", "pending", "value", "exception"}]
      BY <1>0, <2>4 DEF Typed, Places, PutFails, Resolve
    <3> QED
      BY <1>0, <2>4, <3>1, <3>2 DEF Typed, Places, PutFails, Goto
  <2>5. CASE TaskDone(w)
    <3>1. pc' \in [Threads -> Places]
      BY <1>0, <2>5 DEF Typed, Places, TaskDone, NotifyFlushers
    <3>2. taskMutex' \in [Shards -> Workers \cup {NoThread}]
      BY <1>0, <2>5 DEF Typed, Places, TaskDone
    <3>3. totalTaskNum' \in [Shards -> Int]
      BY <1>0, <2>5 DEF Typed, Places, TaskDone
    <3>4. running' \in [Workers -> Seq(Call)]
      BY <1>0, <2>5, NoPackType DEF Typed, Places, TaskDone
    <3>5. retryNum' \in [Workers -> 0 .. RetryTimes]
      BY <1>0, <2>5, RetryTimesAssumption DEF RetryTimesAssumption, Typed, TaskDone
    <3> QED
      BY <1>0, <2>5, <3>1, <3>2, <3>3, <3>4, <3>5 DEF Typed, Places, TaskDone
  <2> QED
    BY <1>2, <2>1, <2>2, <2>3, <2>4, <2>5 DEF WorkerStep
<1>3. ASSUME NEW t \in Threads, SendNextTask(t) PROVE Typed'
  <2>1. CASE ObtainPack(t)
    <3>1. queue' \in [Shards -> PackQueue(Call)]
      <4>1. \A timeUp \in BOOLEAN :
                MakeReady(queue[shard[t]], Forced(t), timeUp) \in PackQueue(Call)
        BY <1>0, QueueTypes DEF Typed, Places, Forced
      <4> QED
        BY <1>0, <2>1, <4>1 DEF Typed, Places, ObtainPack
    <3>2. pc' \in [Threads -> Places]
      BY <1>0, <2>1 DEF Typed, Places, ObtainPack, Return, Goto
    <3>3. pack' \in [Threads -> Seq(Call)]
      <4>1. FrontPack(queue'[shard[t]]) \in Seq(Call)
        BY <1>0, <3>1, QueueTypes DEF Typed
      <4>2. pack' = [pack EXCEPT ![t] = NoPack] \/ pack' = [pack EXCEPT ![t] = FrontPack(queue'[shard[t]])]
        BY <2>1 DEF ObtainPack, Return
      <4> QED
        BY <1>0, <4>1, <4>2, NoPackType DEF Typed
    <3>4. sendMutex' \in [Shards -> Threads \cup {NoThread}]
      BY <1>0, <2>1 DEF Typed, Places, ObtainPack
    <3>5. taskMutex' \in [Shards -> Workers \cup {NoThread}]
      BY <1>0, <2>1 DEF Typed, Places, ObtainPack, Return
    <3> QED
      BY <1>0, <2>1, <3>1, <3>2, <3>3, <3>4, <3>5 DEF Typed, Places, ObtainPack
  <2>2. CASE Submit(t)
    <3>1. tasks' \in [Workers -> Seq(Task)]
      BY <1>0, <2>2, WorkerOfAssumption, AppendProperties DEF Typed, Places, Submit, Task, WorkerOfAssumption
    <3>2. pc' \in [Threads -> Places]
      BY <1>0, <2>2 DEF Typed, Places, Submit, Goto
    <3> QED
      BY <1>0, <2>2, <3>1, <3>2 DEF Typed, Places, Submit
  <2>3. CASE SubmitFull(t)
    <3>1. pc' \in [Threads -> Places]
      BY <1>0, <2>3 DEF Typed, Places, SubmitFull, Return, Goto
    <3>2. pack' \in [Threads -> Seq(Call)]
      BY <1>0, <2>3, NoPackType DEF Typed, Places, SubmitFull, Return
    <3>3. sendMutex' \in [Shards -> Threads \cup {NoThread}]
      BY <1>0, <2>3 DEF Typed, Places, SubmitFull
    <3>4. taskMutex' \in [Shards -> Workers \cup {NoThread}]
      BY <1>0, <2>3 DEF Typed, Places, SubmitFull, Return
    <3> QED
      BY <1>0, <2>3, <3>1, <3>2, <3>3, <3>4 DEF Typed, Places, SubmitFull
  <2>4. CASE CountTask(t)
    BY <1>0, <2>4 DEF Typed, Places, CountTask, Goto
  <2>5. CASE PopPack(t)
    <3>1. queue' \in [Shards -> PackQueue(Call)]
      <4>1. PopBackRecordPack(queue[shard[t]]) \in PackQueue(Call)
        BY <1>0, QueueTypes DEF Typed
      <4> QED
        BY <1>0, <2>5, <4>1 DEF Typed, Places, PopPack
    <3>2. pc' \in [Threads -> Places]
      BY <1>0, <2>5 DEF Typed, Places, PopPack, Return, Goto
    <3>3. pack' \in [Threads -> Seq(Call)]
      BY <1>0, <2>5, NoPackType DEF Typed, Places, PopPack, Return
    <3>4. sendMutex' \in [Shards -> Threads \cup {NoThread}]
      BY <1>0, <2>5 DEF Typed, Places, PopPack
    <3>5. taskMutex' \in [Shards -> Workers \cup {NoThread}]
      BY <1>0, <2>5 DEF Typed, Places, PopPack, Return
    <3> QED
      BY <1>0, <2>5, <3>1, <3>2, <3>3, <3>4, <3>5 DEF Typed, Places, PopPack
  <2> QED
    BY <1>3, <2>1, <2>2, <2>3, <2>4, <2>5 DEF SendNextTask
<1>4. CASE UNCHANGED vars
  BY <1>0, <1>4 DEF vars, Typed, Places
<1> QED
  BY <1>1, <1>2, <1>3, <1>4 DEF Next

----------------------------------------------------------------------------
(* Threads and mutexes *)

LEMMA InitOwners == Init => Owners /\ TasksHashed /\ PacksFilled
<1> SUFFICES ASSUME Init PROVE Owners /\ TasksHashed /\ PacksFilled
  OBVIOUS
<1>1. \A t \in Threads : pc[t] = "idle" /\ t # NoThread
  BY ThreadsAssumption DEF ThreadsAssumption, Threads, Init
<1>2. Owners
  BY <1>1 DEF Init, Owners, ProducerPlaces, WorkerPlaces, InSendNextTask, At, Threads
<1>3. TasksHashed
  BY <1>1 DEF Init, TasksHashed, Threads
<1>4. PacksFilled
  BY <1>1 DEF Init, PacksFilled, EmptyQueue, InSendNextTask, Threads
<1> QED
  BY <1>2, <1>3, <1>4

\* The places of a thread, and the mutexes it has there.
LEMMA NextOwners == IInv /\ [Next]_vars => Owners'
<1> SUFFICES ASSUME IInv, [Next]_vars PROVE Owners'
  OBVIOUS
<1>0. /\ Owners
      /\ pc \in [Threads -> Places]
      /\ shard \in [Threads -> Shards]
      /\ sendMutex \in [Shards -> Threads \cup {NoThread}]
      /\ taskMutex \in [Shards -> Workers \cup {NoThread}]
  BY DEF IInv, Typed
<1>00. /\ \A p \in Producers : p \in Threads /\ p \notin Workers
       /\ \A w \in Workers : w \in Threads /\ w \notin Producers
       /\ \A t \in Threads : t # NoThread /\ (t \in Producers \/ t \in Workers)
  BY ThreadsAssumption DEF ThreadsAssumption, Threads
<1> USE DEF Owners, ProducerPlaces, WorkerPlaces, InSendNextTask, At, Goto, Return, Forced
<1>1. ASSUME NEW p \in Producers, ProducerStep(p) PROVE Owners'
  <2>1. ASSUME NEW s \in Shards, StartWriteAsync(p, s) PROVE Owners'
    BY <1>0, <1>00, <2>1 DEF StartWriteAsync, locks
  <2>2. ASSUME NEW s \in Shards, StartFlush(p, s) PROVE Owners'
    BY <1>0, <1>00, <2>2 DEF StartFlush, locks
  <2>3. CASE PassLimit(p)
    BY <1>0, <1>00, <2>3 DEF PassLimit, locks
  <2>4. CASE LimitTimeout(p)
    BY <1>0, <1>00, <2>4 DEF LimitTimeout, locks
  <2>5. CASE Accept(p)
    BY <1>0, <1>00, <2>5 DEF Accept, locks
  <2>6. CASE FlushWait(p)
    BY <1>0, <1>00, <2>6 DEF FlushWait, locks
  <2> QED
    BY <1>1, <2>1, <2>2, <2>3, <2>4, <2>5, <2>6 DEF ProducerStep
<1>2. ASSUME NEW w \in Workers, WorkerStep(w) PROVE Owners'
  <2>1. CASE TakeTask(w)
    BY <1>0, <1>00, <2>1 DEF TakeTask, locks
  <2>2. CASE PutSucceeds(w)
    BY <1>0, <1>00, <2>2 DEF PutSucceeds, locks
  <2>3. CASE PutRetries(w)
    BY <1>0, <1>00, <2>3 DEF PutRetries, locks
  <2>4. CASE PutFails(w)
    BY <1>0, <1>00, <2>4 DEF PutFails, locks
  <2>5. CASE TaskDone(w)
    BY <1>0, <1>00, <2>5 DEF TaskDone, NotifyFlushers
  <2> QED
    BY <1>2, <2>1, <2>2, <2>3, <2>4, <2>5 DEF WorkerStep
<1>3. ASSUME NEW t \in Threads, SendNextTask(t) PROVE Owners'
  <2>1. CASE ObtainPack(t)
    BY <1>0, <1>00, <2>1 DEF ObtainPack
  <2>2. CASE Submit(t)
    BY <1>0, <1>00, <2>2 DEF Submit, locks
  <2>3. CASE SubmitFull(t)
    BY <1>0, <1>00, <2>3 DEF SubmitFull
  <2>4. CASE CountTask(t)
    BY <1>0, <1>00, <2>4 DEF CountTask, locks
  <2>5. CASE PopPack(t)
    BY <1>0, <1>00, <2>5 DEF PopPack
  <2> QED
    BY <1>3, <2>1, <2>2, <2>3, <2>4, <2>5 DEF SendNextTask
<1>4. CASE UNCHANGED vars
  BY <1>0, <1>4 DEF vars, locks
<1> QED
  BY <1>1, <1>2, <1>3, <1>4 DEF Next

\* The ways the buffer of a shard changes when a call enters it, and when its current pack
\* is made ready.
LEMMA AppendRecordCases ==
    ASSUME NEW q \in PackQueue(Call), NEW c \in Call, NEW timeUp \in BOOLEAN
    PROVE  LET r == AppendRecord(q, c, timeUp)
           IN \/ q.current = NoPack /\ r = [current |-> <<c>>, ready |-> q.ready]
              \/ /\ q.current # NoPack
                 /\ \/ r = [current |-> <<c>>, ready |-> Append(q.ready, q.current)]
                    \/ r = [current |-> Append(q.current, c), ready |-> q.ready]
                    \/ r = [current |-> NoPack, ready |-> Append(q.ready, Append(q.current, c))]
<1> QED
  BY DEF AppendRecord, PackQueue, Fits

LEMMA MakeReadyCases ==
    ASSUME NEW q \in PackQueue(Call), NEW force \in BOOLEAN, NEW timeUp \in BOOLEAN
    PROVE  LET r == MakeReady(q, force, timeUp)
           IN /\ \/ r = q
                 \/ /\ q.current # NoPack
                    /\ r = [current |-> NoPack, ready |-> Append(q.ready, q.current)]
              /\ force => r.current = NoPack
<1> QED
  BY DEF MakeReady, PackQueue

----------------------------------------------------------------------------
(* The tasks of a worker *)

LEMMA NextTasksHashed == IInv /\ [Next]_vars => TasksHashed'
<1> SUFFICES ASSUME IInv, [Next]_vars PROVE TasksHashed'
  OBVIOUS
<1>0. /\ TasksHashed
      /\ pc \in [Threads -> Places]
      /\ shard \in [Threads -> Shards]
      /\ tasks \in [Workers -> Seq(Task)]
  BY DEF IInv, Typed
<1>00. /\ \A p \in Producers : p \in Threads /\ p \notin Workers
       /\ \A w \in Workers : w \in Threads /\ w \notin Producers
       /\ \A t \in Threads : t \in Producers \/ t \in Workers
  BY ThreadsAssumption DEF ThreadsAssumption, Threads
<1> USE DEF TasksHashed, Goto, Return
<1>1. ASSUME NEW p \in Producers, ProducerStep(p) PROVE TasksHashed'
  BY <1>0, <1>00, <1>1
     DEF ProducerStep, StartWriteAsync, StartFlush, PassLimit, LimitTimeout, Accept, FlushWait
<1>2. ASSUME NEW w \in Workers, WorkerStep(w) PROVE TasksHashed'
  <2>1. CASE TakeTask(w)
    <3>1. /\ tasks[w] \in Seq(Task) /\ tasks[w] # <<>>
          /\ DOMAIN tasks[w] = 1 .. Len(tasks[w]) /\ Len(tasks[w]) \in Nat \ {0}
          /\ DOMAIN Tail(tasks[w]) = 1 .. Len(tasks[w]) - 1
          /\ \A i \in 1 .. Len(tasks[w]) - 1 : Tail(tasks[w])[i] = tasks[w][i + 1]
          /\ Head(tasks[w]) = tasks[w][1]
      BY <1>0, <2>1, HeadTailProperties, LenProperties, EmptySeq DEF TakeTask
    <3>2. WorkerOf[Head(tasks[w]).shard] = w
      BY <1>0, <3>1
    <3>3. \A i \in DOMAIN Tail(tasks[w]) : WorkerOf[Tail(tasks[w])[i].shard] = w
      BY <1>0, <3>1
    <3>4. /\ tasks' = [tasks EXCEPT ![w] = Tail(tasks[w])]
          /\ shard' = [shard EXCEPT ![w] = Head(tasks[w]).shard]
          /\ pc' = [pc EXCEPT ![w] = "put"]
      BY <2>1 DEF TakeTask
    <3> QED
      BY <1>0, <1>00, <3>2, <3>3, <3>4
  <2>2. CASE ~ TakeTask(w)
    <3>1. /\ tasks' = tasks /\ shard' = shard
          /\ \A v \in Workers : pc'[v] = pc[v] \/ (v = w /\ pc[w] # "idle")
      BY <1>0, <1>00, <1>2, <2>2
         DEF WorkerStep, PutSucceeds, PutRetries, PutFails, TaskDone, NotifyFlushers
    <3> QED
      BY <1>0, <3>1
  <2> QED
    BY <2>1, <2>2
<1>3. ASSUME NEW t \in Threads, SendNextTask(t) PROVE TasksHashed'
  <2>1. CASE Submit(t)
    <3> DEFINE w == WorkerOf[shard[t]]
               new == [shard |-> shard[t], pack |-> pack[t]]
    <3>1. w \in Workers /\ new \in Task /\ tasks[w] \in Seq(Task)
      BY <1>0, WorkerOfAssumption DEF WorkerOfAssumption, IInv, Typed, Task
    <3>2. /\ DOMAIN tasks[w] = 1 .. Len(tasks[w]) /\ Len(tasks[w]) \in Nat
          /\ DOMAIN Append(tasks[w], new) = 1 .. Len(tasks[w]) + 1
          /\ \A i \in 1 .. Len(tasks[w]) : Append(tasks[w], new)[i] = tasks[w][i]
          /\ Append(tasks[w], new)[Len(tasks[w]) + 1] = new
      BY <3>1, AppendProperties, LenProperties
    <3>3. \A i \in DOMAIN Append(tasks[w], new) : WorkerOf[Append(tasks[w], new)[i].shard] = w
      BY <1>0, <3>1, <3>2
    <3>4. /\ tasks' = [tasks EXCEPT ![w] = Append(tasks[w], new)]
          /\ shard' = shard
          /\ \A v \in Workers : pc'[v] = pc[v] \/ (v = t /\ pc[t] # "idle")
      BY <1>0, <1>00, <2>1 DEF Submit
    <3> HIDE DEF new
    <3> QED
      BY <1>0, <3>3, <3>4
  <2>2. CASE ~ Submit(t)
    <3>1. /\ tasks' = tasks /\ shard' = shard
          /\ \A v \in Workers : pc'[v] = pc[v] \/ (v = t /\ pc[t] # "idle")
      BY <1>0, <1>00, <1>3, <2>2
         DEF SendNextTask, ObtainPack, SubmitFull, CountTask, PopPack
    <3> QED
      BY <1>0, <3>1
  <2> QED
    BY <2>1, <2>2
<1>4. CASE UNCHANGED vars
  BY <1>0, <1>4 DEF vars
<1> QED
  BY <1>1, <1>2, <1>3, <1>4 DEF Next

----------------------------------------------------------------------------
(* The packs *)

\* The ready queue only grows at its end, and loses its front, while mSendMutex is held by
\* another thread, to nobody: its packs stay filled and a thread keeps the one it has.
GrowsAtEnd(q, r) == \/ r.ready = q.ready
                    \/ \E e \in Seq(Call) : e # NoPack /\ r.ready = Append(q.ready, e)

LEMMA GrowsKeeps ==
    ASSUME NEW q \in PackQueue(Call), NEW r \in PackQueue(Call), GrowsAtEnd(q, r),
           \A i \in DOMAIN q.ready : q.ready[i] # NoPack
    PROVE  /\ \A i \in DOMAIN r.ready : r.ready[i] # NoPack
           /\ q.ready # <<>> => r.ready # <<>> /\ Head(r.ready) = Head(q.ready)
<1>1. q.ready \in Seq(Seq(Call))
  BY DEF PackQueue
<1>2. CASE r.ready = q.ready
  BY <1>2
<1>3. ASSUME NEW e \in Seq(Call), e # NoPack, r.ready = Append(q.ready, e)
      PROVE  /\ \A i \in DOMAIN r.ready : r.ready[i] # NoPack
             /\ q.ready # <<>> => r.ready # <<>> /\ Head(r.ready) = Head(q.ready)
  <2>1. /\ DOMAIN q.ready = 1 .. Len(q.ready) /\ Len(q.ready) \in Nat
        /\ DOMAIN r.ready = 1 .. Len(q.ready) + 1
        /\ \A i \in 1 .. Len(q.ready) : r.ready[i] = q.ready[i]
        /\ r.ready[Len(q.ready) + 1] = e
        /\ r.ready # <<>>
    BY <1>1, <1>3, AppendProperties, LenProperties
  <2>2. Head(r.ready) = IF q.ready = <<>> THEN e ELSE Head(q.ready)
    BY <1>1, <1>3, HeadTailAppend
  <2> QED
    BY <1>3, <2>1, <2>2
<1> QED
  BY <1>2, <1>3 DEF GrowsAtEnd

LEMMA AppendGrows ==
    ASSUME NEW q \in PackQueue(Call), NEW c \in Call, NEW timeUp \in BOOLEAN
    PROVE  GrowsAtEnd(q, AppendRecord(q, c, timeUp))
<1>1. q.current \in Seq(Call)
  BY DEF PackQueue
<1>2. Append(q.current, c) \in Seq(Call) /\ Append(q.current, c) # NoPack
  BY <1>1, AppendProperties DEF NoPack
<1> DEFINE r == AppendRecord(q, c, timeUp)
<1>3. \/ r.ready = q.ready
      \/ q.current # NoPack /\ r.ready = Append(q.ready, q.current)
      \/ r.ready = Append(q.ready, Append(q.current, c))
  BY AppendRecordCases
<1> HIDE DEF r
<1> QED
  BY <1>1, <1>2, <1>3 DEF GrowsAtEnd, r

LEMMA MakeReadyGrows ==
    ASSUME NEW q \in PackQueue(Call), NEW force \in BOOLEAN, NEW timeUp \in BOOLEAN
    PROVE  GrowsAtEnd(q, MakeReady(q, force, timeUp))
<1>1. q.current \in Seq(Call)
  BY DEF PackQueue
<1> QED
  BY <1>1, MakeReadyCases DEF GrowsAtEnd

LEMMA NextPacksFilled == IInv /\ [Next]_vars => PacksFilled'
<1> SUFFICES ASSUME IInv, [Next]_vars PROVE PacksFilled'
  OBVIOUS
<1>0. /\ PacksFilled /\ Owners
      /\ queue \in [Shards -> PackQueue(Call)]
      /\ queue' \in [Shards -> PackQueue(Call)]
      /\ pc \in [Threads -> Places]
      /\ shard \in [Threads -> Shards]
      /\ sendMutex \in [Shards -> Threads \cup {NoThread}]
      /\ tasks \in [Workers -> Seq(Task)]
      /\ running \in [Workers -> Seq(Call)]
      /\ pack \in [Threads -> Seq(Call)]
  BY NextTyped DEF IInv, Typed
<1>00. /\ \A p \in Producers : p \in Threads /\ p \notin Workers
       /\ \A w \in Workers : w \in Threads /\ w \notin Producers
       /\ \A t \in Threads : t # NoThread /\ (t \in Producers \/ t \in Workers)
  BY ThreadsAssumption DEF ThreadsAssumption, Threads
<1> USE DEF PacksFilled, Goto, Return, InSendNextTask
<1>a. ASSUME UNCHANGED <<queue, tasks>>,
             \A w \in Workers : pc'[w] = "put" => pc[w] = "put" /\ running'[w] = running[w],
             \A t \in Threads : pc'[t] \in InSendNextTask =>
                 /\ pc[t] \in InSendNextTask
                 /\ shard'[t] = shard[t] /\ pack'[t] = pack[t]
      PROVE PacksFilled'
  BY <1>0, <1>a
<1>1. ASSUME NEW p \in Producers, ProducerStep(p) PROVE PacksFilled'
  <2>1. CASE Accept(p)
    <3>1. <<p, calls[p] + 1>> \in Call
      <4>1. calls[p] + 1 \in 1 .. MaxCalls
        BY <2>1, MaxCallsAssumption DEF IInv, Typed, CallsDistinct, Accept, MaxCallsAssumption
      <4> QED
        BY <4>1 DEF Call
    <3>2. GrowsAtEnd(queue[shard[p]], queue'[shard[p]])
      BY <1>0, <1>00, <2>1, <3>1, AppendGrows DEF Accept
    <3>3. /\ \A s \in Shards : s # shard[p] => queue'[s] = queue[s]
          /\ UNCHANGED <<tasks, shard, pack, running>>
          /\ pc' = [pc EXCEPT ![p] = "send"]
          /\ shard[p] \in Shards
      BY <1>0, <1>00, <2>1 DEF Accept, worker
    <3>4. ASSUME NEW s \in Shards
          PROVE  /\ \A i \in DOMAIN queue'[s].ready : queue'[s].ready[i] # NoPack
                 /\ queue[s].ready # <<>> => /\ queue'[s].ready # <<>>
                                            /\ Head(queue'[s].ready) = Head(queue[s].ready)
      BY <1>0, <3>2, <3>3, GrowsKeeps
    <3> QED
      BY <1>0, <1>00, <3>3, <3>4
  <2>2. CASE ~ Accept(p)
    <3>1. /\ UNCHANGED <<queue, tasks, running, pack>>
          /\ pc[p] \notin InSendNextTask /\ pc'[p] \notin InSendNextTask
          /\ \A t \in Threads : t # p => pc'[t] = pc[t] /\ shard'[t] = shard[t]
      BY <1>0, <1>00, <1>1, <2>2
         DEF ProducerStep, StartWriteAsync, StartFlush, PassLimit, LimitTimeout, FlushWait, worker
    <3> QED
      BY <1>a, <1>00, <3>1
  <2> QED
    BY <2>1, <2>2
<1>2. ASSUME NEW w \in Workers, WorkerStep(w) PROVE PacksFilled'
  <2>1. CASE TakeTask(w)
    <3>1. /\ tasks[w] \in Seq(Task) /\ tasks[w] # <<>>
          /\ DOMAIN tasks[w] = 1 .. Len(tasks[w]) /\ Len(tasks[w]) \in Nat \ {0}
          /\ DOMAIN Tail(tasks[w]) = 1 .. Len(tasks[w]) - 1
          /\ \A i \in 1 .. Len(tasks[w]) - 1 : Tail(tasks[w])[i] = tasks[w][i + 1]
          /\ Head(tasks[w]) = tasks[w][1]
      BY <1>0, <2>1, HeadTailProperties, LenProperties, EmptySeq DEF TakeTask
    <3>2. Head(tasks[w]).pack # NoPack
      BY <1>0, <3>1
    <3>3. \A i \in DOMAIN Tail(tasks[w]) : Tail(tasks[w])[i].pack # NoPack
      BY <1>0, <3>1
    <3>4. /\ tasks' = [tasks EXCEPT ![w] = Tail(tasks[w])]
          /\ shard' = [shard EXCEPT ![w] = Head(tasks[w]).shard]
          /\ running' = [running EXCEPT ![w] = Head(tasks[w]).pack]
          /\ pc' = [pc EXCEPT ![w] = "put"]
          /\ pc[w] = "idle"
          /\ UNCHANGED <<queue, pack>>
      BY <2>1 DEF TakeTask
    <3> QED
      BY <1>0, <1>00, <3>2, <3>3, <3>4
  <2>2. CASE ~ TakeTask(w)
    <3>1. /\ UNCHANGED <<queue, tasks, pack, shard>>
          /\ \A v \in Workers : pc'[v] = "put" => pc[v] = "put" /\ running'[v] = running[v]
          /\ \A t \in Threads : pc'[t] \in InSendNextTask => pc[t] \in InSendNextTask
      BY <1>0, <1>00, <1>2, <2>2
         DEF WorkerStep, PutSucceeds, PutRetries, PutFails, TaskDone, NotifyFlushers
    <3> QED
      BY <1>a, <3>1
  <2> QED
    BY <2>1, <2>2
<1>3. ASSUME NEW t \in Threads, SendNextTask(t) PROVE PacksFilled'
  <2>0. /\ UNCHANGED <<shard, running>> /\ shard[t] \in Shards
        /\ \A u \in Threads : u # t => pc'[u] = pc[u] /\ pack'[u] = pack[u]
        /\ \A w \in Workers : pc'[w] = "put" => pc[w] = "put"
    <3>1. UNCHANGED <<shard, running>> /\ shard[t] \in Shards
      BY <1>0, <1>3
         DEF SendNextTask, ObtainPack, Submit, SubmitFull, CountTask, PopPack, worker
    <3>2. \E label \in {"idle", "wait", "submit", "count", "pop"} : pc' = [pc EXCEPT ![t] = label]
      BY <1>3 DEF SendNextTask, ObtainPack, Submit, SubmitFull, CountTask, PopPack
    <3>3. pack' = pack \/ \E e : pack' = [pack EXCEPT ![t] = e]
      BY <1>3 DEF SendNextTask, ObtainPack, Submit, SubmitFull, CountTask, PopPack
    <3>4. \A u \in Threads : u # t => pc'[u] = pc[u]
      BY <1>0, <3>2
    <3>5. \A u \in Threads : u # t => pack'[u] = pack[u]
      BY <1>0, <3>3
    <3>6. \A w \in Workers : pc'[w] = "put" => pc[w] = "put"
      BY <1>0, <1>00, <3>2
    <3> QED
      BY <3>1, <3>4, <3>5, <3>6
  <2>1. CASE ObtainPack(t)
    <3>1. GrowsAtEnd(queue[shard[t]], queue'[shard[t]])
      <4>1. PICK timeUp \in BOOLEAN :
                queue' = [queue EXCEPT ![shard[t]] = MakeReady(@, Forced(t), timeUp)]
        BY <2>1 DEF ObtainPack
      <4>2. Forced(t) \in BOOLEAN
        BY DEF IInv, Typed, Forced
      <4>3. queue'[shard[t]] = MakeReady(queue[shard[t]], Forced(t), timeUp)
        BY <1>0, <2>0, <4>1
      <4> QED
        BY <1>0, <2>0, <4>2, <4>3, MakeReadyGrows
    <3>2. /\ \A s \in Shards : s # shard[t] => queue'[s] = queue[s]
          /\ UNCHANGED tasks
          /\ pc'[t] \in InSendNextTask => /\ FrontPack(queue'[shard[t]]) # NoPack
                                         /\ pack'[t] = FrontPack(queue'[shard[t]])
      BY <1>0, <2>1 DEF ObtainPack
    <3>4. ASSUME NEW s \in Shards
          PROVE  /\ \A i \in DOMAIN queue'[s].ready : queue'[s].ready[i] # NoPack
                 /\ queue[s].ready # <<>> => /\ queue'[s].ready # <<>>
                                            /\ Head(queue'[s].ready) = Head(queue[s].ready)
      <4>1. CASE s = shard[t]
        BY <1>0, <3>1, <4>1, GrowsKeeps
      <4>2. CASE s # shard[t]
        BY <1>0, <3>2, <4>2
      <4> QED
        BY <4>1, <4>2
    <3>5. pc'[t] \in InSendNextTask => /\ queue'[shard[t]].ready # <<>>
                                      /\ pack'[t] = Head(queue'[shard[t]].ready)
      BY <3>2 DEF FrontPack
    <3> QED
      BY <1>0, <2>0, <3>2, <3>4, <3>5
  <2>2. CASE Submit(t)
    <3> DEFINE w == WorkerOf[shard[t]]
               new == [shard |-> shard[t], pack |-> pack[t]]
    <3>1. w \in Workers /\ new \in Task /\ tasks[w] \in Seq(Task)
      BY <1>0, WorkerOfAssumption DEF WorkerOfAssumption, Task
    <3>2. /\ DOMAIN tasks[w] = 1 .. Len(tasks[w]) /\ Len(tasks[w]) \in Nat
          /\ DOMAIN Append(tasks[w], new) = 1 .. Len(tasks[w]) + 1
          /\ \A i \in 1 .. Len(tasks[w]) : Append(tasks[w], new)[i] = tasks[w][i]
          /\ Append(tasks[w], new)[Len(tasks[w]) + 1] = new
      BY <3>1, AppendProperties, LenProperties
    <3>3. new.pack # NoPack
      <4>1. /\ queue[shard[t]].ready # <<>> /\ queue[shard[t]].ready \in Seq(Seq(Call))
            /\ pack[t] = Head(queue[shard[t]].ready)
        BY <1>0, <2>2 DEF Submit, PackQueue
      <4>2. 1 \in DOMAIN queue[shard[t]].ready /\ Head(queue[shard[t]].ready) = queue[shard[t]].ready[1]
        BY <4>1, LenProperties, EmptySeq
      <4> QED
        BY <1>0, <4>1, <4>2
    <3>4. \A i \in DOMAIN Append(tasks[w], new) : Append(tasks[w], new)[i].pack # NoPack
      BY <1>0, <3>1, <3>2, <3>3
    <3>5. /\ tasks' = [tasks EXCEPT ![w] = Append(tasks[w], new)]
          /\ UNCHANGED <<queue, pack>>
          /\ pc[t] = "submit"
      BY <2>2 DEF Submit
    <3> HIDE DEF new
    <3> QED
      BY <1>0, <2>0, <3>4, <3>5
  <2>3. CASE SubmitFull(t) \/ CountTask(t)
    <3>1. /\ UNCHANGED <<queue, tasks>>
          /\ pc'[t] \in InSendNextTask => pc[t] \in InSendNextTask /\ pack'[t] = pack[t]
      BY <1>0, <2>3 DEF SubmitFull, CountTask
    <3> QED
      BY <1>a, <2>0, <3>1
  <2>4. CASE PopPack(t)
    <3>1. /\ queue' = [queue EXCEPT ![shard[t]] = PopBackRecordPack(@)]
          /\ UNCHANGED tasks
          /\ pc[t] = "pop" /\ pc'[t] \notin InSendNextTask
      BY <1>0, <2>4 DEF PopPack
    <3>2. \A u \in Threads : pc'[u] \in InSendNextTask => shard[u] # shard[t]
      BY <1>0, <2>0, <3>1 DEF Owners, At
    <3>3. \A s \in Shards : \A i \in DOMAIN queue'[s].ready : queue'[s].ready[i] # NoPack
      <4>1. queue[shard[t]].ready \in Seq(Seq(Call)) /\ queue[shard[t]].ready # <<>>
        BY <1>0, <3>1 DEF PackQueue
      <4>2. queue'[shard[t]].ready = Tail(queue[shard[t]].ready)
        BY <1>0, <2>0, <3>1, <4>1 DEF PopBackRecordPack, PackQueue
      <4>3. \A i \in DOMAIN Tail(queue[shard[t]].ready) :
                /\ i + 1 \in DOMAIN queue[shard[t]].ready
                /\ Tail(queue[shard[t]].ready)[i] = queue[shard[t]].ready[i + 1]
        BY <4>1, HeadTailProperties, LenProperties
      <4>4. \A s \in Shards : s # shard[t] => queue'[s] = queue[s]
        BY <1>0, <3>1
      <4>5. \A i \in DOMAIN queue'[shard[t]].ready : queue'[shard[t]].ready[i] # NoPack
        BY <1>0, <2>0, <4>2, <4>3
      <4> QED
        BY <1>0, <4>4, <4>5
    <3> QED
      BY <1>0, <2>0, <3>1, <3>2, <3>3
  <2> QED
    BY <1>3, <2>1, <2>2, <2>3, <2>4 DEF SendNextTask
<1>4. CASE UNCHANGED vars
  BY <1>a, <1>4 DEF vars, worker
<1> QED
  BY <1>1, <1>2, <1>3, <1>4 DEF Next

----------------------------------------------------------------------------
(* The calls on their way to the worker *)

\* What FlattenSeq(PacksInFlight(s)) \o queue[s].current consists of.
Flow(s) == InHand(s) \o (FlattenSeq(Queued(s)) \o (FlattenSeq(Waiting(s)) \o queue[s].current))

FlowTyped(s) ==
    /\ InHand(s) \in Seq(Call)
    /\ Queued(s) \in Seq(Seq(Call)) /\ FlattenSeq(Queued(s)) \in Seq(Call)
    /\ Waiting(s) \in Seq(Seq(Call)) /\ FlattenSeq(Waiting(s)) \in Seq(Call)
    /\ queue[s].current \in Seq(Call)
    /\ Flow(s) \in Seq(Call)
    /\ FlattenSeq(PacksInFlight(s)) \o queue[s].current = Flow(s)

LEMMA FlowTypes == Typed /\ PacksFilled => \A s \in Shards : FlowTyped(s)
<1> SUFFICES ASSUME Typed, PacksFilled, NEW s \in Shards PROVE FlowTyped(s)
  OBVIOUS
<1> DEFINE w == WorkerOf[s]
           a == FlattenSeq(Queued(s))
           b == FlattenSeq(Waiting(s))
           c == queue[s].current
<1>0. w \in Workers
  BY WorkerOfAssumption DEF WorkerOfAssumption
<1>1. InHand(s) \in Seq(Call)
  BY <1>0, NoPackType DEF InHand, Typed
<1>2. Queued(s) \in Seq(Seq(Call))
  <2>1. tasks[w] \in Seq(Task) /\ Len(tasks[w]) \in Nat /\ DOMAIN tasks[w] = 1 .. Len(tasks[w])
    BY <1>0, LenProperties DEF Typed
  <2>2. \A i \in DOMAIN tasks[w] : tasks[w][i].pack \in Seq(Call)
    <3>1. \A i \in DOMAIN tasks[w] : tasks[w][i] \in Task
      BY <2>1, ElementOfSeq
    <3> QED
      BY <3>1 DEF Task
  <2>3. \A i \in DOMAIN tasks[w] :
            (IF tasks[w][i].shard = s THEN tasks[w][i].pack ELSE NoPack) \in Seq(Call)
    BY <2>2, NoPackType
  <2>4. Queued(s) \in [1 .. Len(tasks[w]) -> Seq(Call)]
    BY <2>1, <2>3 DEF Queued
  <2> QED
    BY <2>1, <2>4, SeqDef
<1>3. queue[s] \in PackQueue(Call) /\ c \in Seq(Call) /\ queue[s].ready \in Seq(Seq(Call))
  BY DEF Typed, PackQueue
<1>4. Waiting(s) \in Seq(Seq(Call))
  <2>1. Submitted(s) => queue[s].ready # <<>>
    BY DEF Submitted, PacksFilled, At, InSendNextTask
  <2> QED
    BY <1>3, <2>1, HeadTailProperties DEF Waiting
<1>5. a \in Seq(Call) /\ b \in Seq(Call)
  BY <1>2, <1>4, FlattenType
<1>6. b \o c \in Seq(Call)
  BY <1>3, <1>5, ConcatProperties
<1>7. a \o (b \o c) \in Seq(Call)
  BY <1>5, <1>6, ConcatProperties
<1>8. Flow(s) \in Seq(Call)
  BY <1>1, <1>7, ConcatProperties DEF Flow
<1>9. FlattenSeq(PacksInFlight(s)) \o c = Flow(s)
  <2>1. Queued(s) \o Waiting(s) \in Seq(Seq(Call)) /\ <<InHand(s)>> \in Seq(Seq(Call))
    BY <1>1, <1>2, <1>4, ConcatProperties
  <2>2. PacksInFlight(s) = <<InHand(s)>> \o (Queued(s) \o Waiting(s))
    BY <1>2, <1>4, <2>1, ConcatAssociative DEF PacksInFlight
  <2>3. FlattenSeq(PacksInFlight(s)) = InHand(s) \o FlattenSeq(Queued(s) \o Waiting(s))
    BY <1>1, <2>1, <2>2, FlattenCons
  <2>4. FlattenSeq(Queued(s) \o Waiting(s)) = a \o b
    BY <1>2, <1>4, FlattenConcat
  <2> HIDE DEF a, b, c
  <2>5. a \o b \in Seq(Call)
    BY <1>5, ConcatProperties
  <2>6. (InHand(s) \o (a \o b)) \o c = InHand(s) \o ((a \o b) \o c)
    BY <1>1, <1>3, <2>5, ConcatAssociative, SMTT(60)
  <2>7. (a \o b) \o c = a \o (b \o c)
    BY <1>3, <1>5, ConcatAssociative
  <2> QED
    BY <2>3, <2>4, <2>6, <2>7 DEF Flow, a, b, c
<1> QED
  BY <1>1, <1>2, <1>3, <1>4, <1>5, <1>8, <1>9 DEF FlowTyped

\* The pipeline, in terms of the flow.
LEMMA PipelineIsFlow ==
    Typed /\ PacksFilled =>
        (PipelineInOrder <=> \A s \in Shards : \E k \in 0 .. Len(accepted[s]) :
                                ResolvedUpTo(s, k) /\ Flow(s) = CallsAfter(s, k))
  BY FlowTypes DEF PipelineInOrder, FlowTyped

\* The pack in a worker's hands consists of the oldest unresolved calls of its shard.
LEMMA InHandOldest ==
    ASSUME IInv, NEW w \in Workers, pc[w] = "put"
    PROVE  /\ shard[w] \in Shards /\ WorkerOf[shard[w]] = w /\ InHand(shard[w]) = running[w]
           /\ \E k \in 0 .. Len(accepted[shard[w]]) :
                 LET n == Len(running[w])
                 IN /\ n \in Nat \ {0} /\ k + n \in k .. Len(accepted[shard[w]])
                    /\ running[w] = SubSeq(accepted[shard[w]], k + 1, k + n)
                    /\ ResolvedUpTo(shard[w], k)
<1> DEFINE s == shard[w]
           x == FlattenSeq(Queued(s)) \o (FlattenSeq(Waiting(s)) \o queue[s].current)
<1>1. /\ s \in Shards /\ running[w] \in Seq(Call) /\ accepted[s] \in Seq(Call)
      /\ running[w] # <<>>
  BY DEF IInv, Typed, Threads, PacksFilled, NoPack
<1>2. WorkerOf[s] = w /\ InHand(s) = running[w]
  BY DEF IInv, TasksHashed, InHand, At
<1> HIDE DEF s
<1>3. PICK k \in 0 .. Len(accepted[s]) : ResolvedUpTo(s, k) /\ Flow(s) = CallsAfter(s, k)
  BY <1>1, PipelineIsFlow DEF IInv
<1>4. x \in Seq(Call) /\ Flow(s) = running[w] \o x
  <2>1. /\ FlattenSeq(Queued(s)) \in Seq(Call)
        /\ FlattenSeq(Waiting(s)) \in Seq(Call)
        /\ queue[s].current \in Seq(Call)
    BY <1>1, FlowTypes DEF IInv, FlowTyped
  <2>2. FlattenSeq(Waiting(s)) \o queue[s].current \in Seq(Call)
    BY <2>1, ConcatProperties
  <2> QED
    BY <1>2, <2>1, <2>2, ConcatProperties DEF Flow
<1> HIDE DEF x
<1>5. running[w] \o x = SubSeq(accepted[s], k + 1, Len(accepted[s]))
  BY <1>3, <1>4 DEF CallsAfter
<1>6. /\ Len(running[w]) \in Nat /\ k + Len(running[w]) \in k .. Len(accepted[s])
      /\ running[w] = SubSeq(accepted[s], k + 1, k + Len(running[w]))
  <2> DEFINE r == running[w]
             acc == accepted[s]
  <2>1. /\ r \in Seq(Call) /\ acc \in Seq(Call) /\ k \in 0 .. Len(acc) /\ x \in Seq(Call)
        /\ r \o x = SubSeq(acc, k + 1, Len(acc))
    BY <1>1, <1>4, <1>5
  <2> HIDE DEF r, acc
  <2>2. Len(r) \in Nat /\ k + Len(r) \in k .. Len(acc) /\ r = SubSeq(acc, k + 1, k + Len(r))
    BY <2>1, SplitSubSeq
  <2> QED
    BY <2>2 DEF r, acc
<1>7. Len(running[w]) # 0
  BY <1>1, EmptySeq
<1> QED
  BY <1>1, <1>2, <1>3, <1>6, <1>7 DEF s

\* What a step does to the calls of a shard: nothing, it accepts one, or it resolves a pack.
Kept(s) ==
    /\ accepted'[s] = accepted[s]
    /\ Flow(s)' = Flow(s)
    /\ \A i \in DOMAIN accepted[s] :
           promise'[accepted[s][i]] = "pending" <=> promise[accepted[s][i]] = "pending"

Accepts(s, c) ==
    /\ accepted'[s] = Append(accepted[s], c)
    /\ Flow(s)' = Flow(s) \o <<c>>
    /\ promise' = [promise EXCEPT ![c] = "pending"]
    /\ promise[c] = "none"

Resolves(s, run, result) ==
    /\ accepted'[s] = accepted[s]
    /\ Flow(s) = run \o Flow(s)'
    /\ promise' = [c \in Call |-> IF \E i \in DOMAIN run : run[i] = c
                                  THEN result ELSE promise[c]]

\* Nothing that the flow of a shard is read from changes.
SameParts(s) ==
    /\ InHand(s)' = InHand(s)
    /\ Queued(s)' = Queued(s)
    /\ Waiting(s)' = Waiting(s)
    /\ queue'[s].current = queue[s].current

LEMMA SamePartsKept ==
    ASSUME NEW s \in Shards, SameParts(s), UNCHANGED <<accepted, promise>>
    PROVE  Kept(s)
  BY DEF SameParts, Kept, Flow

\* Steps of threads that are outside of SendNextTask, and of workers that put nothing.
LEMMA OutsideKept ==
    ASSUME Typed, NEW s \in Shards, UNCHANGED <<queue, tasks, accepted, promise>>,
           \A t \in Threads : At(t, s, {"count", "pop"})' <=> At(t, s, {"count", "pop"}),
           At(WorkerOf[s], s, {"put"})' <=> At(WorkerOf[s], s, {"put"}),
           At(WorkerOf[s], s, {"put"}) => running'[WorkerOf[s]] = running[WorkerOf[s]]
    PROVE  Kept(s)
<1>1. Submitted(s)' <=> Submitted(s)
  BY DEF Submitted
<1>2. InHand(s)' = InHand(s)
  BY DEF InHand
<1>3. Queued(s)' = Queued(s) /\ Waiting(s)' = Waiting(s)
  BY <1>1 DEF Queued, Waiting
<1> QED
  BY <1>2, <1>3, SamePartsKept DEF SameParts

\* What a push to the end of the buffer does to the calls in it.
LEMMA BufferFlow ==
    ASSUME NEW ready \in Seq(Seq(Call)), NEW current \in Seq(Call), NEW c \in Call
    PROVE  LET before == FlattenSeq(ready) \o current
           IN /\ current = NoPack => FlattenSeq(ready) \o <<c>> = before \o <<c>>
              /\ FlattenSeq(ready) \o Append(current, c) = before \o <<c>>
              /\ FlattenSeq(Append(ready, current)) \o <<c>> = before \o <<c>>
              /\ FlattenSeq(Append(ready, Append(current, c))) \o NoPack = before \o <<c>>
              /\ FlattenSeq(Append(ready, current)) \o NoPack = before
<1> DEFINE b == FlattenSeq(ready)
           e == <<c>>
           more == Append(current, c)
<1>1. b \in Seq(Call) /\ e \in Seq(Call)
  BY FlattenType
<1>2. more = current \o e /\ more \in Seq(Call)
  BY AppendIsConcat, AppendProperties
<1>3. FlattenSeq(Append(ready, current)) = b \o current
  BY FlattenAppend
<1>4. FlattenSeq(Append(ready, more)) = b \o more
  BY <1>2, FlattenAppend
<1> HIDE DEF b, e, more
<1>5. b \o more = (b \o current) \o e
  <2>1. b \o (current \o e) = (b \o current) \o e
    BY <1>1, ConcatAssociative
  <2> QED
    BY <1>2, <2>1
<1>6. b \o current \in Seq(Call)
  BY <1>1, ConcatProperties
<1>7. (b \o current) \o e \in Seq(Call)
  BY <1>1, <1>6, ConcatProperties
<1>8. (b \o current) \o <<>> = b \o current /\ ((b \o current) \o e) \o <<>> = (b \o current) \o e
  BY <1>6, <1>7, ConcatEmptySeq
<1>9. current = NoPack => b \o current = b
  BY <1>1, ConcatEmptySeq DEF NoPack
<1> QED
  BY <1>3, <1>4, <1>5, <1>8, <1>9 DEF b, e, more, NoPack

LEMMA AcceptFlow ==
    ASSUME IInv, NEW p \in Producers, Accept(p), NEW s \in Shards
    PROVE  IF s = shard[p] THEN \E c \in Call : Accepts(s, c) ELSE Kept(s)
<1> DEFINE c == <<p, calls[p] + 1>>
           q == queue[s]
           r == queue'[s]
<1>0. /\ p \in Threads /\ p \notin Workers /\ shard[p] \in Shards
      /\ pc \in [Threads -> Places] /\ queue \in [Shards -> PackQueue(Call)]
      /\ accepted \in [Shards -> Seq(Call)]
      /\ promise \in [Call -> {"none", "pending", "value", "exception"}]
      /\ WorkerOf[s] \in Workers /\ WorkerOf[s] \in Threads
  BY ThreadsAssumption, WorkerOfAssumption
     DEF ThreadsAssumption, WorkerOfAssumption, IInv, Typed, Threads
<1>1. /\ pc[p] = "append" /\ pc' = [pc EXCEPT ![p] = "send"]
      /\ UNCHANGED <<tasks, shard, running>>
      /\ accepted' = [accepted EXCEPT ![shard[p]] = Append(@, c)]
      /\ promise' = [promise EXCEPT ![c] = "pending"]
      /\ \E timeUp \in BOOLEAN : queue' = [queue EXCEPT ![shard[p]] = AppendRecord(@, c, timeUp)]
  BY DEF Accept, Goto, worker
<1>2. c \in Call /\ promise[c] = "none"
  <2>1. calls[p] \in Nat /\ calls[p] < MaxCalls /\ CallsDistinct
    BY <1>1 DEF IInv, Typed, CallsDistinct
  <2>2. calls[p] + 1 \in 1 .. MaxCalls /\ calls[p] + 1 > calls[p]
    BY <2>1, MaxCallsAssumption DEF MaxCallsAssumption
  <2>3. c \in Call
    BY <2>2 DEF Call
  <2>4. promise[c] = "none" <=> c[2] > calls[c[1]]
    BY <2>1, <2>3 DEF CallsDistinct
  <2> QED
    BY <2>2, <2>3, <2>4
<1>3. /\ \A t \in Threads : At(t, s, {"count", "pop"})' <=> At(t, s, {"count", "pop"})
      /\ At(WorkerOf[s], s, {"put"})' <=> At(WorkerOf[s], s, {"put"})
  BY <1>0, <1>1 DEF At
<1>4. InHand(s)' = InHand(s) /\ Queued(s)' = Queued(s) /\ (Submitted(s)' <=> Submitted(s))
  BY <1>1, <1>3 DEF InHand, Queued, Submitted
<1>5. CASE s # shard[p]
  <2>1. queue'[s] = queue[s] /\ accepted'[s] = accepted[s]
    BY <1>0, <1>1, <1>5
  <2>2. Flow(s)' = Flow(s)
    BY <1>4, <2>1 DEF Flow, Waiting
  <2>3. ASSUME NEW i \in DOMAIN accepted[s]
        PROVE  promise'[accepted[s][i]] = promise[accepted[s][i]]
    <3>1. accepted[s][i] \in Call
      BY <1>0, ElementOfSeq, LenProperties
    <3>2. promise[accepted[s][i]] # "none"
      BY DEF IInv, CallsDistinct
    <3> QED
      BY <1>0, <1>1, <1>2, <3>1, <3>2
  <2> QED
    BY <1>5, <2>1, <2>2, <2>3 DEF Kept
<1>6. CASE s = shard[p]
  <2>1. accepted'[s] = Append(accepted[s], c)
    BY <1>0, <1>1, <1>6
  <2>2. PICK timeUp \in BOOLEAN : r = AppendRecord(q, c, timeUp)
    BY <1>0, <1>1, <1>6
  <2>3. q \in PackQueue(Call)
    BY <1>0
  <2>4. /\ InHand(s) \in Seq(Call) /\ FlattenSeq(Queued(s)) \in Seq(Call)
        /\ FlattenSeq(Waiting(s)) \in Seq(Call)
        /\ q.current \in Seq(Call) /\ Waiting(s) \in Seq(Seq(Call))
        /\ q.ready \in Seq(Seq(Call))
    BY FlowTypes, <2>3 DEF IInv, FlowTyped, PackQueue
  <2>6. Submitted(s) => q.ready # <<>>
    BY DEF Submitted, IInv, PacksFilled, At, InSendNextTask
  <2>7. ASSUME NEW e \in Seq(Call), r.ready = Append(q.ready, e)
        PROVE  Waiting(s)' = Append(Waiting(s), e)
    <3>1. q.ready # <<>> => Tail(Append(q.ready, e)) = Append(Tail(q.ready), e)
      BY <2>4, HeadTailAppend
    <3> QED
      BY <1>4, <2>6, <2>7, <3>1 DEF Waiting
  <2>8. r.ready = q.ready => Waiting(s)' = Waiting(s)
    BY <1>4 DEF Waiting
  <2>9. FlattenSeq(Waiting(s)') \o r.current = (FlattenSeq(Waiting(s)) \o q.current) \o <<c>>
    <3>0. Append(q.current, c) \in Seq(Call)
      BY <1>2, <2>4, AppendProperties
    <3> DEFINE w == Waiting(s)
               cur == q.current
    <3>1. CASE cur = NoPack /\ r = [current |-> <<c>>, ready |-> q.ready]
      <4>1. FlattenSeq(w) \o <<c>> = (FlattenSeq(w) \o cur) \o <<c>>
        BY <1>2, <2>4, <3>1, BufferFlow
      <4> QED
        BY <2>8, <3>1, <4>1
    <3>2. CASE r = [current |-> <<c>>, ready |-> Append(q.ready, cur)]
      <4>1. FlattenSeq(Append(w, cur)) \o <<c>> = (FlattenSeq(w) \o cur) \o <<c>>
        BY <1>2, <2>4, BufferFlow
      <4>2. r.ready = Append(q.ready, cur) /\ r.current = <<c>>
        BY <3>2
      <4>3. Waiting(s)' = Append(w, cur)
        BY <2>4, <2>7, <4>2
      <4> QED
        BY <4>1, <4>2, <4>3
    <3>3. CASE r = [current |-> Append(cur, c), ready |-> q.ready]
      <4>1. FlattenSeq(w) \o Append(cur, c) = (FlattenSeq(w) \o cur) \o <<c>>
        BY <1>2, <2>4, BufferFlow
      <4>2. r.ready = q.ready /\ r.current = Append(cur, c)
        BY <3>3
      <4>3. Waiting(s)' = w
        BY <2>8, <4>2
      <4> QED
        BY <4>1, <4>2, <4>3
    <3>4. CASE r = [current |-> NoPack, ready |-> Append(q.ready, Append(cur, c))]
      <4>1. FlattenSeq(Append(w, Append(cur, c))) \o NoPack = (FlattenSeq(w) \o cur) \o <<c>>
        BY <1>2, <2>4, BufferFlow
      <4>2. r.ready = Append(q.ready, Append(cur, c)) /\ r.current = NoPack
        BY <3>4
      <4>3. Waiting(s)' = Append(w, Append(cur, c))
        BY <2>7, <3>0, <4>2
      <4> QED
        BY <4>1, <4>2, <4>3
    <3> QED
      BY <1>2, <2>2, <2>3, <3>1, <3>2, <3>3, <3>4, AppendRecordCases
  <2>10. Flow(s)' = Flow(s) \o <<c>>
    <3> DEFINE h == InHand(s)
               a == FlattenSeq(Queued(s))
               d == FlattenSeq(Waiting(s)) \o q.current
               e == <<c>>
    <3>1. h \in Seq(Call) /\ a \in Seq(Call) /\ d \in Seq(Call) /\ e \in Seq(Call)
      BY <1>2, <2>4, ConcatProperties
    <3>2. Flow(s)' = h \o (a \o (d \o e))
      BY <1>4, <2>9 DEF Flow
    <3>3. Flow(s) = h \o (a \o d)
      BY DEF Flow
    <3> HIDE DEF h, a, d, e
    <3>4. a \o (d \o e) = (a \o d) \o e /\ a \o d \in Seq(Call)
      BY <3>1, ConcatAssociative, ConcatProperties
    <3>5. h \o ((a \o d) \o e) = (h \o (a \o d)) \o e
      <4> DEFINE x == a \o d
      <4>1. h \in Seq(Call) /\ x \in Seq(Call) /\ e \in Seq(Call)
        BY <3>1, <3>4
      <4> HIDE DEF x
      <4>2. (h \o x) \o e = h \o (x \o e)
        BY <4>1, ConcatAssociative
      <4> QED
        BY <4>2 DEF x
    <3> QED
      BY <3>2, <3>3, <3>4, <3>5 DEF e
  <2> QED
    BY <1>1, <1>2, <1>6, <2>1, <2>10 DEF Accepts
<1> QED
  BY <1>5, <1>6

\* The other steps that move calls: they only change hands.
LEMMA ObtainFlow ==
    ASSUME IInv, NEW t \in Threads, ObtainPack(t), NEW s \in Shards
    PROVE  Kept(s)
<1> DEFINE q == queue[s]
           r == queue'[s]
<1>0. /\ shard[t] \in Shards /\ pc \in [Threads -> Places]
      /\ queue \in [Shards -> PackQueue(Call)]
      /\ flushing \in [Producers -> BOOLEAN]
      /\ WorkerOf[s] \in Workers /\ WorkerOf[s] \in Threads
  BY WorkerOfAssumption DEF WorkerOfAssumption, IInv, Typed, Threads
<1>1. /\ pc[t] = "send"
      /\ \E label \in {"idle", "wait", "submit"} : pc' = [pc EXCEPT ![t] = label]
      /\ UNCHANGED <<tasks, shard, running, accepted, promise>>
      /\ \E timeUp \in BOOLEAN : queue' = [queue EXCEPT ![shard[t]] = MakeReady(@, Forced(t), timeUp)]
  BY DEF ObtainPack, Return, Goto, worker, history
<1>2. /\ \A u \in Threads : At(u, s, {"count", "pop"})' <=> At(u, s, {"count", "pop"})
      /\ At(WorkerOf[s], s, {"put"})' <=> At(WorkerOf[s], s, {"put"})
  BY <1>0, <1>1 DEF At
<1>3. InHand(s)' = InHand(s) /\ Queued(s)' = Queued(s) /\ (Submitted(s)' <=> Submitted(s))
  BY <1>1, <1>2 DEF InHand, Queued, Submitted
<1>4. CASE r = q
  <2>1. Waiting(s)' = Waiting(s)
    BY <1>3, <1>4 DEF Waiting
  <2> QED
    BY <1>1, <1>3, <1>4, <2>1, SamePartsKept DEF SameParts
<1>5. CASE r # q
  <2>1. s = shard[t]
    BY <1>0, <1>1, <1>5
  <2>2. r.ready = Append(q.ready, q.current) /\ r.current = NoPack
    <3>1. PICK timeUp \in BOOLEAN : r = MakeReady(q, Forced(t), timeUp)
      BY <1>0, <1>1, <2>1
    <3>2. Forced(t) \in BOOLEAN /\ q \in PackQueue(Call)
      BY <1>0 DEF Forced
    <3>3. r = [current |-> NoPack, ready |-> Append(q.ready, q.current)]
      BY <1>5, <3>1, <3>2, MakeReadyCases
    <3> QED
      BY <3>3
  <2>3. Submitted(s) => q.ready # <<>>
    BY DEF Submitted, IInv, PacksFilled, At, InSendNextTask
  <2>4. q.current \in Seq(Call) /\ q.ready \in Seq(Seq(Call)) /\ Waiting(s) \in Seq(Seq(Call))
    BY <1>0, FlowTypes DEF IInv, FlowTyped, PackQueue
  <2>5. q.ready # <<>> => Tail(Append(q.ready, q.current)) = Append(Tail(q.ready), q.current)
    BY <2>4, HeadTailAppend
  <2>6. Waiting(s)' = Append(Waiting(s), q.current)
    BY <1>3, <2>2, <2>3, <2>5 DEF Waiting
  <2>7. FlattenSeq(Append(Waiting(s), q.current)) \o NoPack = FlattenSeq(Waiting(s)) \o q.current
    <3> DEFINE w == Waiting(s)
               cur == q.current
    <3>1. w \in Seq(Seq(Call)) /\ cur \in Seq(Call)
      BY <2>4
    <3> HIDE DEF w, cur
    <3>2. FlattenSeq(Append(w, cur)) = FlattenSeq(w) \o cur /\ FlattenSeq(w) \o cur \in Seq(Call)
      BY <3>1, FlattenAppend, FlattenType, ConcatProperties
    <3> QED
      BY <3>2, ConcatEmptySeq DEF NoPack, w, cur
  <2>8. Flow(s)' = Flow(s)
    BY <1>3, <2>2, <2>6, <2>7 DEF Flow
  <2> QED
    BY <1>1, <2>8 DEF Kept
<1> QED
  BY <1>4, <1>5

LEMMA PopFlow ==
    ASSUME IInv, NEW t \in Threads, PopPack(t), NEW s \in Shards
    PROVE  Kept(s)
<1>0. /\ shard[t] \in Shards /\ pc \in [Threads -> Places]
      /\ queue \in [Shards -> PackQueue(Call)]
      /\ WorkerOf[s] \in Workers /\ WorkerOf[s] \in Threads
      /\ Owners
  BY WorkerOfAssumption DEF WorkerOfAssumption, IInv, Typed, Threads
<1>1. /\ pc[t] = "pop"
      /\ \E label \in {"idle", "wait"} : pc' = [pc EXCEPT ![t] = label]
      /\ UNCHANGED <<tasks, shard, running, accepted, promise>>
      /\ queue' = [queue EXCEPT ![shard[t]] = PopBackRecordPack(@)]
  BY DEF PopPack, Return, Goto, worker, history
<1>2. At(WorkerOf[s], s, {"put"})' <=> At(WorkerOf[s], s, {"put"})
  BY <1>0, <1>1 DEF At
<1>3. InHand(s)' = InHand(s) /\ Queued(s)' = Queued(s)
  BY <1>1, <1>2 DEF InHand, Queued
<1>4. CASE s # shard[t]
  <2>1. queue'[s] = queue[s]
    BY <1>0, <1>1, <1>4
  <2>2. \A u \in Threads : At(u, s, {"count", "pop"})' <=> At(u, s, {"count", "pop"})
    BY <1>0, <1>1, <1>4 DEF At
  <2>3. Waiting(s)' = Waiting(s)
    BY <2>1, <2>2 DEF Waiting, Submitted
  <2> QED
    BY <1>1, <1>3, <2>1, <2>3, SamePartsKept DEF SameParts
<1>5. CASE s = shard[t]
  <2>1. queue[s].ready # <<>> /\ queue[s] \in PackQueue(Call)
    BY <1>0, <1>1, <1>5 DEF IInv, PacksFilled, InSendNextTask
  <2>2. queue'[s].ready = Tail(queue[s].ready) /\ queue'[s].current = queue[s].current
    BY <1>0, <1>1, <1>5, <2>1 DEF PopBackRecordPack, PackQueue
  <2>3. Submitted(s)
    BY <1>1, <1>5 DEF Submitted, At
  <2>4. \A u \in Threads : u # t => ~ At(u, s, InSendNextTask)
    <3>1. At(t, s, InSendNextTask)
      BY <1>1, <1>5 DEF At, InSendNextTask
    <3> QED
      BY <1>0, <3>1 DEF Owners
  <2>5. ~ Submitted(s)'
    BY <1>0, <1>1, <2>4 DEF Submitted, At, InSendNextTask
  <2>6. Waiting(s)' = Waiting(s)
    BY <2>2, <2>3, <2>5 DEF Waiting
  <2> QED
    BY <1>1, <1>3, <2>2, <2>6, SamePartsKept DEF SameParts
<1> QED
  BY <1>4, <1>5

\* The packs of a shard in a worker's queue, when a task enters or leaves it.
PackFor(s, task) == IF task.shard = s THEN task.pack ELSE NoPack

QueuedIn(s, seq) == [i \in DOMAIN seq |-> PackFor(s, seq[i])]

LEMMA QueuedTypes ==
    ASSUME NEW seq \in Seq(Task), NEW s
    PROVE  /\ \A task \in Task : PackFor(s, task) \in Seq(Call)
           /\ QueuedIn(s, seq) \in Seq(Seq(Call))
           /\ Len(QueuedIn(s, seq)) = Len(seq)
<1>1. \A task \in Task : PackFor(s, task) \in Seq(Call)
  BY NoPackType DEF PackFor, Task
<1>2. /\ Len(seq) \in Nat /\ DOMAIN seq = 1 .. Len(seq)
      /\ \A i \in 1 .. Len(seq) : seq[i] \in Task
  BY LenProperties, ElementOfSeq
<1>3. QueuedIn(s, seq) \in [1 .. Len(seq) -> Seq(Call)]
  BY <1>1, <1>2 DEF QueuedIn
<1>4. QueuedIn(s, seq) \in Seq(Seq(Call))
  BY <1>2, <1>3, SeqDef
<1>5. Len(QueuedIn(s, seq)) = Len(seq)
  BY <1>2, <1>3, <1>4, LenProperties
<1> QED
  BY <1>1, <1>4, <1>5

LEMMA QueuedAppend ==
    ASSUME NEW seq \in Seq(Task), NEW task \in Task, NEW s
    PROVE  QueuedIn(s, Append(seq, task)) = Append(QueuedIn(s, seq), PackFor(s, task))
<1> DEFINE q == QueuedIn(s, seq)
           e == PackFor(s, task)
           more == Append(seq, task)
           n == Len(seq)
<1>1. n \in Nat /\ q \in Seq(Seq(Call)) /\ Len(q) = n /\ e \in Seq(Call) /\ DOMAIN seq = 1 .. n
  BY QueuedTypes, LenProperties
<1>2. /\ DOMAIN more = 1 .. n + 1 /\ more[n + 1] = task
      /\ \A i \in 1 .. n : more[i] = seq[i]
  BY AppendProperties, LenProperties
<1>3. \A i \in 1 .. n : q[i] = PackFor(s, seq[i])
  BY <1>1 DEF QueuedIn
<1>4. more \in Seq(Task) /\ Len(more) = n + 1
  BY AppendProperties
<1>5. /\ QueuedIn(s, more) \in Seq(Seq(Call)) /\ Len(QueuedIn(s, more)) = n + 1
      /\ \A i \in 1 .. n + 1 : QueuedIn(s, more)[i] = PackFor(s, more[i])
  BY <1>2, <1>4, QueuedTypes DEF QueuedIn
<1> HIDE DEF q, e, more, n
<1>6. /\ Append(q, e) \in Seq(Seq(Call)) /\ Len(Append(q, e)) = n + 1
      /\ \A i \in 1 .. n : Append(q, e)[i] = q[i]
      /\ Append(q, e)[n + 1] = e
  BY <1>1, AppendProperties
<1>7. \A i \in 1 .. n + 1 : QueuedIn(s, more)[i] = Append(q, e)[i]
  BY <1>1, <1>2, <1>3, <1>5, <1>6 DEF e
<1>8. QueuedIn(s, more) = Append(q, e)
  BY <1>5, <1>6, <1>7, SeqEqual
<1> QED
  BY <1>8 DEF q, e, more

LEMMA QueuedTail ==
    ASSUME NEW seq \in Seq(Task), seq # <<>>, NEW s
    PROVE  /\ QueuedIn(s, seq) # <<>>
           /\ QueuedIn(s, Tail(seq)) = Tail(QueuedIn(s, seq))
           /\ PackFor(s, Head(seq)) = Head(QueuedIn(s, seq))
<1> DEFINE q == QueuedIn(s, seq)
           n == Len(seq)
           rest == Tail(seq)
<1>1. /\ n \in Nat \ {0} /\ q \in Seq(Seq(Call)) /\ Len(q) = n /\ q # <<>>
      /\ DOMAIN seq = 1 .. n
  BY QueuedTypes, LenProperties, EmptySeq
<1>2. /\ DOMAIN rest = 1 .. n - 1 /\ Head(seq) = seq[1]
      /\ \A i \in 1 .. n - 1 : rest[i] = seq[i + 1]
  BY <1>1, HeadTailProperties, LenProperties
<1>3. \A i \in 1 .. n : q[i] = PackFor(s, seq[i])
  BY <1>1 DEF QueuedIn
<1>4. rest \in Seq(Task) /\ Len(rest) = n - 1
  BY HeadTailProperties
<1>5. /\ QueuedIn(s, rest) \in Seq(Seq(Call)) /\ Len(QueuedIn(s, rest)) = n - 1
      /\ \A i \in 1 .. n - 1 : QueuedIn(s, rest)[i] = PackFor(s, rest[i])
  BY <1>2, <1>4, QueuedTypes DEF QueuedIn
<1> HIDE DEF q, n, rest
<1>6. /\ Tail(q) \in Seq(Seq(Call)) /\ Len(Tail(q)) = n - 1
      /\ \A i \in 1 .. n - 1 : Tail(q)[i] = q[i + 1]
      /\ Head(q) = q[1]
  BY <1>1, HeadTailProperties
<1>7. \A i \in 1 .. n - 1 : QueuedIn(s, rest)[i] = Tail(q)[i]
  BY <1>1, <1>2, <1>3, <1>5, <1>6
<1>8. QueuedIn(s, rest) = Tail(q)
  BY <1>5, <1>6, <1>7, SeqEqual
<1>9. PackFor(s, Head(seq)) = Head(q)
  BY <1>1, <1>2, <1>3, <1>6
<1> QED
  BY <1>1, <1>8, <1>9 DEF q, rest

\* A submitted pack is the front of the ready queue, and leaves it for the worker's queue.
LEMMA SubmitFlow ==
    ASSUME IInv, NEW t \in Threads, Submit(t), NEW s \in Shards
    PROVE  Kept(s)
<1> DEFINE w == WorkerOf[shard[t]]
           task == [shard |-> shard[t], pack |-> pack[t]]
           q == queue[s]
           Q == Queued(s)
           e == PackFor(s, task)
<1>0. /\ shard[t] \in Shards /\ pc \in [Threads -> Places]
      /\ queue \in [Shards -> PackQueue(Call)]
      /\ tasks \in [Workers -> Seq(Task)]
      /\ w \in Workers /\ WorkerOf[s] \in Workers /\ WorkerOf[s] \in Threads
      /\ task \in Task /\ Owners
  BY WorkerOfAssumption DEF WorkerOfAssumption, IInv, Typed, Threads, Task
<1>1. /\ pc[t] = "submit" /\ pc' = [pc EXCEPT ![t] = "count"]
      /\ UNCHANGED <<queue, shard, running, accepted, promise>>
      /\ tasks' = [tasks EXCEPT ![w] = Append(@, task)]
  BY DEF Submit, Goto, worker, history
<1>2. At(WorkerOf[s], s, {"put"})' <=> At(WorkerOf[s], s, {"put"})
  BY <1>0, <1>1 DEF At
<1>3. InHand(s)' = InHand(s)
  BY <1>1, <1>2 DEF InHand
<1>4. Q = QueuedIn(s, tasks[WorkerOf[s]]) /\ Queued(s)' = QueuedIn(s, tasks'[WorkerOf[s]])
  BY DEF Queued, QueuedIn, PackFor
<1>5. /\ Q \in Seq(Seq(Call)) /\ FlattenSeq(Q) \in Seq(Call) /\ e \in Seq(Call)
      /\ q.current \in Seq(Call) /\ q.ready \in Seq(Seq(Call))
      /\ FlattenSeq(Waiting(s)) \in Seq(Call)
  BY <1>0, FlowTypes, QueuedTypes DEF IInv, FlowTyped, PackQueue
<1>6. WorkerOf[s] = w => Queued(s)' = Append(Q, e)
  BY <1>0, <1>1, <1>4, QueuedAppend
<1>7. CASE s # shard[t]
  <2>1. e = NoPack
    BY <1>7 DEF PackFor
  <2>2. FlattenSeq(Queued(s)') = FlattenSeq(Q)
    <3>1. CASE WorkerOf[s] # w
      BY <1>0, <1>1, <1>4, <3>1
    <3>2. CASE WorkerOf[s] = w
      <4>1. FlattenSeq(Append(Q, e)) = FlattenSeq(Q) \o e
        BY <1>5, FlattenAppend
      <4> QED
        BY <1>5, <1>6, <2>1, <3>2, <4>1, ConcatEmptySeq DEF NoPack
    <3> QED
      BY <3>1, <3>2
  <2>3. \A u \in Threads : At(u, s, {"count", "pop"})' <=> At(u, s, {"count", "pop"})
    BY <1>0, <1>1, <1>7 DEF At
  <2>4. Waiting(s)' = Waiting(s)
    BY <1>1, <2>3 DEF Waiting, Submitted
  <2> QED
    BY <1>1, <1>3, <2>2, <2>4 DEF Kept, Flow
<1>8. CASE s = shard[t]
  <2>1. q.ready # <<>> /\ pack[t] = Head(q.ready) /\ e = Head(q.ready)
    BY <1>0, <1>1, <1>8 DEF IInv, PacksFilled, InSendNextTask, PackFor
  <2>2. ~ Submitted(s)
    <3>1. At(t, s, InSendNextTask)
      BY <1>1, <1>8 DEF At, InSendNextTask
    <3>2. \A u \in Threads : u # t => ~ At(u, s, InSendNextTask)
      BY <1>0, <3>1 DEF Owners
    <3> QED
      BY <1>1, <3>2 DEF Submitted, At, InSendNextTask
  <2>3. Submitted(s)'
    BY <1>0, <1>1, <1>8 DEF Submitted, At
  <2>4. Waiting(s) = q.ready /\ Waiting(s)' = Tail(q.ready)
    BY <1>1, <2>2, <2>3 DEF Waiting
  <2>5. Queued(s)' = Append(Q, e)
    BY <1>6, <1>8
  <2> DEFINE a == FlattenSeq(Q)
             b == FlattenSeq(Tail(q.ready))
             cur == q.current
             h == InHand(s)
  <2>6. a \in Seq(Call) /\ b \in Seq(Call) /\ e \in Seq(Call) /\ cur \in Seq(Call)
    BY <1>5, <2>1, FlattenType, HeadTailProperties
  <2>7. FlattenSeq(Append(Q, e)) = a \o e
    BY <1>5, FlattenAppend
  <2>8. FlattenSeq(q.ready) = e \o b
    <3>1. q.ready = <<e>> \o Tail(q.ready) /\ Tail(q.ready) \in Seq(Seq(Call))
      BY <1>5, <2>1, HeadIsFirst, HeadTailProperties
    <3>2. FlattenSeq(<<e>> \o Tail(q.ready)) = e \o b
      BY <1>5, <3>1, FlattenCons
    <3> QED
      BY <3>1, <3>2
  <2>9. Flow(s) = h \o (a \o ((e \o b) \o cur)) /\ Flow(s)' = h \o ((a \o e) \o (b \o cur))
    BY <1>1, <1>3, <2>4, <2>5, <2>7, <2>8 DEF Flow
  <2> HIDE DEF a, b, e, cur, h
  <2>10. (a \o e) \o (b \o cur) = a \o ((e \o b) \o cur)
    <3> DEFINE x == b \o cur
    <3>1. x \in Seq(Call) /\ (e \o b) \o cur = e \o x
      BY <2>6, ConcatAssociative, ConcatProperties
    <3> HIDE DEF x
    <3>2. a \in Seq(Call) /\ e \in Seq(Call) /\ x \in Seq(Call)
      BY <2>6, <3>1
    <3>3. (a \o e) \o x = a \o (e \o x)
      BY <3>2, ConcatAssociative
    <3> QED
      BY <3>1, <3>3 DEF x
  <2> QED
    BY <1>1, <2>9, <2>10 DEF Kept
<1> QED
  BY <1>7, <1>8

\* A worker takes the first task of its queue in hand.
LEMMA TakeFlow ==
    ASSUME IInv, NEW w \in Workers, TakeTask(w), NEW s \in Shards
    PROVE  Kept(s)
<1> DEFINE v == WorkerOf[s]
           Q == Queued(s)
           rest == FlattenSeq(Waiting(s)) \o queue[s].current
<1>0. /\ w \in Threads /\ w \notin Producers /\ v \in Workers /\ v \in Threads
      /\ pc \in [Threads -> Places] /\ shard \in [Threads -> Shards]
      /\ tasks \in [Workers -> Seq(Task)] /\ running \in [Workers -> Seq(Call)]
      /\ TasksHashed
  BY ThreadsAssumption, WorkerOfAssumption
     DEF ThreadsAssumption, WorkerOfAssumption, IInv, Typed, Threads
<1>1. /\ pc[w] = "idle" /\ pc' = [pc EXCEPT ![w] = "put"]
      /\ tasks[w] # <<>> /\ tasks' = [tasks EXCEPT ![w] = Tail(@)]
      /\ shard' = [shard EXCEPT ![w] = Head(tasks[w]).shard]
      /\ running' = [running EXCEPT ![w] = Head(tasks[w]).pack]
      /\ UNCHANGED <<queue, accepted, promise>>
  BY DEF TakeTask, Goto, history
<1>2. \A u \in Threads : At(u, s, {"count", "pop"})' <=> At(u, s, {"count", "pop"})
  BY <1>0, <1>1 DEF At
<1>3. Waiting(s)' = Waiting(s)
  BY <1>1, <1>2 DEF Waiting, Submitted
<1>4. Q = QueuedIn(s, tasks[v]) /\ Queued(s)' = QueuedIn(s, tasks'[v])
  BY DEF Queued, QueuedIn, PackFor
<1>5. CASE v # w
  <2>1. Queued(s)' = Q
    BY <1>0, <1>1, <1>4, <1>5
  <2>2. InHand(s)' = InHand(s)
    BY <1>0, <1>1, <1>5 DEF InHand, At
  <2> QED
    BY <1>1, <1>3, <2>1, <2>2, SamePartsKept DEF SameParts
<1>6. CASE v = w
  <2>1. Q # <<>> /\ Queued(s)' = Tail(Q) /\ PackFor(s, Head(tasks[w])) = Head(Q)
    BY <1>0, <1>1, <1>4, <1>6, QueuedTail
  <2>2. InHand(s) = NoPack
    BY <1>1, <1>6 DEF InHand, At
  <2>3. InHand(s)' = Head(Q)
    <3>1. InHand(s)' = IF shard'[w] = s THEN running'[w] ELSE NoPack
      BY <1>0, <1>1, <1>6 DEF InHand, At
    <3>2. shard'[w] = Head(tasks[w]).shard /\ running'[w] = Head(tasks[w]).pack
      BY <1>0, <1>1
    <3> QED
      BY <2>1, <3>1, <3>2 DEF PackFor
  <2>4. /\ Q \in Seq(Seq(Call)) /\ FlattenSeq(Q) \in Seq(Call) /\ rest \in Seq(Call)
    <3>1. /\ Q \in Seq(Seq(Call)) /\ FlattenSeq(Q) \in Seq(Call)
          /\ FlattenSeq(Waiting(s)) \in Seq(Call) /\ queue[s].current \in Seq(Call)
      BY FlowTypes DEF IInv, FlowTyped
    <3> QED
      BY <3>1, ConcatProperties
  <2> DEFINE h == Head(Q)
             b == FlattenSeq(Tail(Q))
  <2>5. h \in Seq(Call) /\ Tail(Q) \in Seq(Seq(Call)) /\ b \in Seq(Call)
    BY <2>1, <2>4, HeadTailProperties, FlattenType
  <2>6. FlattenSeq(Q) = h \o b
    <3>1. Q = <<h>> \o Tail(Q)
      BY <2>1, <2>4, HeadIsFirst
    <3>2. FlattenSeq(<<h>> \o Tail(Q)) = h \o b
      BY <2>5, FlattenCons
    <3> QED
      BY <3>1, <3>2
  <2>7. Flow(s)' = h \o (b \o rest)
    BY <1>1, <1>3, <2>1, <2>3 DEF Flow
  <2>8. Flow(s) = NoPack \o ((h \o b) \o rest)
    BY <2>2, <2>6 DEF Flow
  <2> HIDE DEF h, b, rest
  <2>9. /\ (h \o b) \o rest = h \o (b \o rest)
        /\ (h \o b) \o rest \in Seq(Call)
    <3>1. h \in Seq(Call) /\ b \in Seq(Call) /\ rest \in Seq(Call)
      BY <2>4, <2>5
    <3>2. (h \o b) \o rest = h \o (b \o rest)
      BY <3>1, ConcatAssociative
    <3>3. h \o b \in Seq(Call)
      BY <3>1, ConcatProperties
    <3>4. (h \o b) \o rest \in Seq(Call)
      BY <3>1, <3>3, ConcatProperties
    <3> QED
      BY <3>2, <3>4
  <2>10. Flow(s)' = Flow(s)
    BY <2>7, <2>8, <2>9, ConcatEmptySeq DEF NoPack
  <2> QED
    BY <1>1, <2>10 DEF Kept
<1> QED
  BY <1>5, <1>6

\* The calls of different shards are different.
LEMMA RunOfOneShard ==
    ASSUME IInv, NEW w \in Workers, pc[w] = "put", NEW s \in Shards, s # shard[w],
           NEW i \in DOMAIN accepted[s], NEW j \in DOMAIN running[w]
    PROVE  running[w][j] # accepted[s][i]
<1> DEFINE r == shard[w]
           acc == accepted[r]
           run == running[w]
<1>1. PICK k \in 0 .. Len(acc) : /\ Len(run) \in Nat /\ k + Len(run) \in k .. Len(acc)
                                 /\ run = SubSeq(acc, k + 1, k + Len(run))
  BY InHandOldest
<1>2. r \in Shards /\ acc \in Seq(Call) /\ run \in Seq(Call)
  BY InHandOldest DEF IInv, Typed
<1>3. j \in 1 .. Len(run) /\ Len(acc) \in Nat /\ DOMAIN acc = 1 .. Len(acc)
  BY <1>2, LenProperties
<1> HIDE DEF acc, run
<1>4. run[j] = acc[k + j] /\ k + j \in DOMAIN acc
  BY <1>1, <1>3
<1> QED
  BY <1>2, <1>4 DEF IInv, CallsDistinct, acc, run

\* The pack in a worker's hands leaves the flow of its shard when its promises are resolved.
LEMMA PutFlow ==
    ASSUME IInv, NEW w \in Workers, NEW result, pc[w] = "put",
           Resolve(w, result), Goto(w, "done"),
           UNCHANGED <<queue, tasks, shard, running, accepted>>,
           NEW s \in Shards
    PROVE  IF s = shard[w] THEN Resolves(s, running[w], result) ELSE Kept(s)
<1> DEFINE v == WorkerOf[s]
<1>0. /\ w \in Threads /\ w \notin Producers /\ v \in Workers /\ v \in Threads
      /\ pc \in [Threads -> Places] /\ accepted \in [Shards -> Seq(Call)]
      /\ WorkerOf[shard[w]] = w
  BY ThreadsAssumption, WorkerOfAssumption
     DEF ThreadsAssumption, WorkerOfAssumption, IInv, Typed, Threads, TasksHashed
<1>1. pc' = [pc EXCEPT ![w] = "done"]
  BY DEF Goto
<1>2. \A u \in Threads : At(u, s, {"count", "pop"})' <=> At(u, s, {"count", "pop"})
  BY <1>0, <1>1 DEF At
<1>3. Waiting(s)' = Waiting(s) /\ Queued(s)' = Queued(s)
  BY <1>2 DEF Waiting, Queued, Submitted
<1>4. CASE s # shard[w]
  <2>1. InHand(s)' = InHand(s)
    BY <1>0, <1>1, <1>4 DEF InHand, At
  <2>2. Flow(s)' = Flow(s)
    BY <1>3, <2>1 DEF Flow
  <2>3. ASSUME NEW i \in DOMAIN accepted[s]
        PROVE  promise'[accepted[s][i]] = promise[accepted[s][i]]
    <3>1. accepted[s][i] \in Call
      BY <1>0, ElementOfSeq, LenProperties
    <3>2. \A j \in DOMAIN running[w] : running[w][j] # accepted[s][i]
      BY <1>4, RunOfOneShard
    <3> QED
      BY <3>1, <3>2 DEF Resolve
  <2> QED
    BY <1>4, <2>2, <2>3 DEF Kept
<1>5. CASE s = shard[w]
  <2> DEFINE x == FlattenSeq(Queued(s)) \o (FlattenSeq(Waiting(s)) \o queue[s].current)
  <2>1. x \in Seq(Call)
    <3>1. /\ FlattenSeq(Queued(s)) \in Seq(Call)
          /\ FlattenSeq(Waiting(s)) \o queue[s].current \in Seq(Call)
      BY FlowTypes, ConcatProperties DEF IInv, FlowTyped
    <3> QED
      BY <3>1, ConcatProperties
  <2>2. InHand(s) = running[w] /\ InHand(s)' = NoPack
    BY <1>0, <1>1, <1>5 DEF InHand, At
  <2>3. Flow(s) = running[w] \o x
    BY <2>2 DEF Flow
  <2>4. Flow(s)' = NoPack \o x
    BY <1>3, <2>2 DEF Flow
  <2> HIDE DEF x
  <2>5. Flow(s) = running[w] \o Flow(s)'
    BY <2>1, <2>3, <2>4, ConcatEmptySeq DEF NoPack
  <2> QED
    BY <1>5, <2>5 DEF Resolves, Resolve
<1> QED
  BY <1>4, <1>5

LEMMA NextFlow ==
    ASSUME IInv, [Next]_vars, NEW s \in Shards
    PROVE  \/ Kept(s)
           \/ \E c \in Call : Accepts(s, c)
           \/ \E w \in Workers, result \in {"value", "exception"} :
                 pc[w] = "put" /\ shard[w] = s /\ Resolves(s, running[w], result)
<1>0. /\ Typed /\ pc \in [Threads -> Places] /\ Owners
      /\ WorkerOf[s] \in Workers /\ WorkerOf[s] \in Threads
      /\ \A p \in Producers : p \in Threads /\ p \notin Workers
      /\ \A w \in Workers : w \in Threads /\ w \notin Producers
  BY ThreadsAssumption, WorkerOfAssumption
     DEF ThreadsAssumption, WorkerOfAssumption, IInv, Typed, Threads
<1>1. ASSUME NEW p \in Producers, ProducerStep(p)
      PROVE  Kept(s) \/ \E c \in Call : Accepts(s, c)
  <2>1. CASE Accept(p)
    BY <2>1, AcceptFlow
  <2>2. CASE ~ Accept(p)
    <3>1. /\ UNCHANGED <<queue, tasks, running, accepted, promise>>
          /\ pc[p] \notin {"count", "pop"} /\ pc'[p] \notin {"count", "pop"}
          /\ \A t \in Threads : t # p => pc'[t] = pc[t] /\ shard'[t] = shard[t]
      BY <1>0, <1>1, <2>2
         DEF ProducerStep, StartWriteAsync, StartFlush, PassLimit, LimitTimeout, FlushWait, Goto,
             Typed, worker, history
    <3>2. \A t \in Threads : At(t, s, {"count", "pop"})' <=> At(t, s, {"count", "pop"})
      BY <3>1 DEF At
    <3>3. At(WorkerOf[s], s, {"put"})' <=> At(WorkerOf[s], s, {"put"})
      BY <1>0, <3>1 DEF At
    <3> QED
      BY <1>0, <3>1, <3>2, <3>3, OutsideKept
  <2> QED
    BY <2>1, <2>2
<1>2. ASSUME NEW w \in Workers, WorkerStep(w)
      PROVE  Kept(s) \/ \E result \in {"value", "exception"} :
                           pc[w] = "put" /\ shard[w] = s /\ Resolves(s, running[w], result)
  <2>1. CASE TakeTask(w)
    BY <2>1, TakeFlow
  <2>2. CASE PutSucceeds(w)
    BY <2>2, PutFlow DEF PutSucceeds, history
  <2>3. CASE PutFails(w)
    BY <2>3, PutFlow DEF PutFails, history
  <2>4. CASE PutRetries(w) \/ TaskDone(w)
    <3>1. /\ UNCHANGED <<queue, tasks, shard, accepted, promise>>
          /\ \A t \in Threads : pc'[t] \in {"count", "pop"} <=> pc[t] \in {"count", "pop"}
          /\ \A v \in Workers : pc'[v] = "put" <=> pc[v] = "put"
          /\ \A v \in Workers : pc[v] = "put" => running'[v] = running[v]
      BY <1>0, <2>4 DEF PutRetries, TaskDone, NotifyFlushers, Typed, history
    <3>2. /\ \A t \in Threads : At(t, s, {"count", "pop"})' <=> At(t, s, {"count", "pop"})
          /\ At(WorkerOf[s], s, {"put"})' <=> At(WorkerOf[s], s, {"put"})
          /\ At(WorkerOf[s], s, {"put"}) => running'[WorkerOf[s]] = running[WorkerOf[s]]
      BY <1>0, <3>1 DEF At
    <3> QED
      BY <1>0, <3>1, <3>2, OutsideKept
  <2> QED
    BY <1>2, <2>1, <2>2, <2>3, <2>4 DEF WorkerStep
<1>3. ASSUME NEW t \in Threads, SendNextTask(t) PROVE Kept(s)
  <2>1. CASE ObtainPack(t)
    BY <2>1, ObtainFlow
  <2>2. CASE Submit(t)
    BY <2>2, SubmitFlow
  <2>3. CASE PopPack(t)
    BY <2>3, PopFlow
  <2>4. CASE SubmitFull(t) \/ CountTask(t)
    <3>1. /\ UNCHANGED <<queue, tasks, shard, running, accepted, promise>>
          /\ \A u \in Threads : pc'[u] \in {"count", "pop"} <=> pc[u] \in {"count", "pop"}
          /\ \A u \in Threads : pc'[u] = "put" <=> pc[u] = "put"
      BY <1>0, <2>4 DEF SubmitFull, CountTask, Return, Goto, worker, history
    <3>2. /\ \A u \in Threads : At(u, s, {"count", "pop"})' <=> At(u, s, {"count", "pop"})
          /\ At(WorkerOf[s], s, {"put"})' <=> At(WorkerOf[s], s, {"put"})
      BY <1>0, <3>1 DEF At
    <3> QED
      BY <1>0, <3>1, <3>2, OutsideKept
  <2> QED
    BY <1>3, <2>1, <2>2, <2>3, <2>4 DEF SendNextTask
<1>4. CASE UNCHANGED vars
  <2>1. /\ At(WorkerOf[s], s, {"put"})' <=> At(WorkerOf[s], s, {"put"})
        /\ \A t \in Threads : At(t, s, {"count", "pop"})' <=> At(t, s, {"count", "pop"})
        /\ UNCHANGED <<queue, tasks, running, accepted, promise>>
    BY <1>4 DEF At, vars, worker, history
  <2> QED
    BY <1>0, <2>1, OutsideKept
<1> QED
  BY <1>1, <1>2, <1>3, <1>4 DEF Next

----------------------------------------------------------------------------
(* Every call is accepted once *)

LEMMA NextCallsDistinct == IInv /\ [Next]_vars => CallsDistinct'
<1> SUFFICES ASSUME IInv, [Next]_vars PROVE CallsDistinct'
  OBVIOUS
<1>0. /\ CallsDistinct
      /\ pc \in [Threads -> Places] /\ shard \in [Threads -> Shards]
      /\ calls \in [Producers -> 0 .. MaxCalls]
      /\ promise \in [Call -> {"none", "pending", "value", "exception"}]
      /\ accepted \in [Shards -> Seq(Call)]
  BY DEF IInv, Typed
<1>00. /\ \A p \in Producers : p \in Threads /\ p \notin Workers
       /\ \A w \in Workers : w \in Threads /\ w \notin Producers
  BY ThreadsAssumption DEF ThreadsAssumption, Threads
<1>b. \A s \in Shards : \A i \in DOMAIN accepted[s] : accepted[s][i] \in Call
  BY <1>0, ElementOfSeq, LenProperties
<1>a. ASSUME UNCHANGED <<calls, accepted>>,
             \A c \in Call : promise'[c] = "none" <=> promise[c] = "none",
             \A p \in Producers : pc'[p] \in {"check", "append"} =>
                 pc[p] \in {"check", "append"} \/ calls[p] < MaxCalls
      PROVE CallsDistinct'
  BY <1>0, <1>b, <1>a DEF CallsDistinct
<1>1. ASSUME NEW p \in Producers, ProducerStep(p) PROVE CallsDistinct'
  <2>1. CASE Accept(p)
    <3> DEFINE c == <<p, calls[p] + 1>>
               s == shard[p]
    <3>1. /\ pc[p] = "append" /\ pc' = [pc EXCEPT ![p] = "send"]
          /\ calls' = [calls EXCEPT ![p] = @ + 1]
          /\ accepted' = [accepted EXCEPT ![s] = Append(@, c)]
          /\ promise' = [promise EXCEPT ![c] = "pending"]
          /\ s \in Shards
      BY <1>0, <1>00, <2>1 DEF Accept, Goto
    <3>2. calls[p] \in Nat /\ calls[p] < MaxCalls /\ calls[p] + 1 \in 1 .. MaxCalls
      <4>1. calls[p] \in 0 .. MaxCalls /\ calls[p] < MaxCalls
        BY <1>0, <3>1 DEF CallsDistinct
      <4> QED
        BY <4>1, MaxCallsAssumption DEF MaxCallsAssumption
    <3>3. c \in Call
      BY <3>2 DEF Call
    <3>4. promise[c] = "none"
      <4>1. promise[c] = "none" <=> c[2] > calls[c[1]]
        BY <1>0, <3>3 DEF CallsDistinct
      <4> QED
        BY <3>2, <4>1
    <3>5. \A r \in Producers : pc'[r] \in {"check", "append"} => calls'[r] < MaxCalls
      BY <1>0, <1>00, <3>1 DEF CallsDistinct
    <3>6. ASSUME NEW d \in Call PROVE promise'[d] = "none" <=> d[2] > calls'[d[1]]
      <4>1. d = <<d[1], d[2]>> /\ d[1] \in Producers /\ d[2] \in 1 .. MaxCalls
        BY DEF Call
      <4>2. promise[d] = "none" <=> d[2] > calls[d[1]]
        BY <1>0 DEF CallsDistinct
      <4>3. d = c <=> d[1] = p /\ d[2] = calls[p] + 1
        BY <4>1
      <4>4. promise'[d] = (IF d = c THEN "pending" ELSE promise[d])
        BY <1>0, <3>1
      <4>5. calls'[d[1]] = IF d[1] = p THEN calls[p] + 1 ELSE calls[d[1]]
        BY <1>0, <3>1, <4>1
      <4>6. d[2] \in Nat
        BY <4>1
      <4> HIDE DEF c
      <4> QED
        BY <3>2, <4>2, <4>3, <4>4, <4>5, <4>6
    <3> HIDE DEF c, s
    <3>7. \A r \in Shards : \A i \in DOMAIN accepted[r] :
              accepted[r][i] # c /\ promise'[accepted[r][i]] # "none"
      BY <1>0, <1>b, <3>1, <3>3, <3>4 DEF CallsDistinct
    <3>8. /\ DOMAIN accepted[s] = 1 .. Len(accepted[s]) /\ Len(accepted[s]) \in Nat
          /\ DOMAIN accepted'[s] = 1 .. Len(accepted[s]) + 1
          /\ \A i \in 1 .. Len(accepted[s]) : accepted'[s][i] = accepted[s][i]
          /\ accepted'[s][Len(accepted[s]) + 1] = c
      <4>1. accepted[s] \in Seq(Call) /\ accepted'[s] = Append(accepted[s], c)
        BY <1>0, <3>1
      <4> QED
        BY <3>3, <4>1, AppendProperties, LenProperties
    <3>9. \A r \in Shards : r # s => accepted'[r] = accepted[r]
      BY <1>0, <3>1
    <3>10. promise'[c] = "pending"
      BY <1>0, <3>1, <3>3
    <3> DEFINE n == Len(accepted[s])
               new == accepted'
    <3>11. \A r \in Shards : \A i \in DOMAIN new[r] :
               \/ r = s /\ i = n + 1 /\ new[r][i] = c
               \/ i \in DOMAIN accepted[r] /\ new[r][i] = accepted[r][i] /\ accepted[r][i] # c
      BY <3>7, <3>8, <3>9
    <3>12. \A r \in Shards : \A i \in DOMAIN new[r] : promise'[new[r][i]] # "none"
      BY <3>7, <3>10, <3>11
    <3> HIDE DEF n, new
    <3>13. \A r, q \in Shards : \A i \in DOMAIN new[r] : \A j \in DOMAIN new[q] :
               new[r][i] = new[q][j] => r = q /\ i = j
      <4>1. \A r, q \in Shards : \A i \in DOMAIN accepted[r] : \A j \in DOMAIN accepted[q] :
                accepted[r][i] = accepted[q][j] => r = q /\ i = j
        BY <1>0 DEF CallsDistinct
      <4> SUFFICES ASSUME NEW r \in Shards, NEW q \in Shards,
                          NEW i \in DOMAIN new[r], NEW j \in DOMAIN new[q],
                          new[r][i] = new[q][j]
                   PROVE  r = q /\ i = j
        OBVIOUS
      <4>2. \/ r = s /\ i = n + 1 /\ new[r][i] = c
            \/ i \in DOMAIN accepted[r] /\ new[r][i] = accepted[r][i] /\ accepted[r][i] # c
        BY <3>11
      <4>3. \/ q = s /\ j = n + 1 /\ new[q][j] = c
            \/ j \in DOMAIN accepted[q] /\ new[q][j] = accepted[q][j] /\ accepted[q][j] # c
        BY <3>11
      <4> QED
        BY <4>1, <4>2, <4>3
    <3> QED
      BY <3>5, <3>6, <3>12, <3>13 DEF CallsDistinct, new
  <2>2. CASE ~ Accept(p)
    <3>1. /\ UNCHANGED <<calls, accepted, promise>>
          /\ \A r \in Producers : r # p => pc'[r] = pc[r]
          /\ pc'[p] \in {"check", "append"} => pc[p] = "check" \/ calls[p] < MaxCalls
      BY <1>0, <1>00, <1>1, <2>2
         DEF ProducerStep, StartWriteAsync, StartFlush, PassLimit, LimitTimeout, FlushWait, Goto,
             history
    <3> QED
      BY <1>a, <3>1
  <2> QED
    BY <2>1, <2>2
<1>2. ASSUME NEW w \in Workers, WorkerStep(w) PROVE CallsDistinct'
  <2>1. \A r \in Producers : pc'[r] \in {"check", "append"} => pc'[r] = pc[r]
    BY <1>0, <1>00, <1>2
       DEF WorkerStep, TakeTask, PutSucceeds, PutRetries, PutFails, TaskDone, NotifyFlushers, Goto
  <2>2. UNCHANGED <<calls, accepted>>
    BY <1>2 DEF WorkerStep, TakeTask, PutSucceeds, PutRetries, PutFails, TaskDone, history
  <2>3. \/ UNCHANGED promise
        \/ pc[w] = "put" /\ \E result \in {"value", "exception"} : Resolve(w, result)
    BY <1>2 DEF WorkerStep, TakeTask, PutSucceeds, PutRetries, PutFails, TaskDone
  <2>4. ASSUME pc[w] = "put", NEW result \in {"value", "exception"}, Resolve(w, result)
        PROVE  \A c \in Call : promise'[c] = "none" <=> promise[c] = "none"
    <3> DEFINE r == shard[w]
    <3>1. PICK k \in 0 .. Len(accepted[r]) :
              /\ Len(running[w]) \in Nat /\ k + Len(running[w]) \in k .. Len(accepted[r])
              /\ running[w] = SubSeq(accepted[r], k + 1, k + Len(running[w]))
      BY <2>4, InHandOldest
    <3>2. r \in Shards /\ accepted[r] \in Seq(Call) /\ running[w] \in Seq(Call)
      BY <2>4, InHandOldest DEF IInv, Typed
    <3>3. ASSUME NEW j \in DOMAIN running[w] PROVE promise[running[w][j]] # "none"
      <4> DEFINE acc == accepted[r]
                 run == running[w]
      <4>1. j \in 1 .. Len(run) /\ Len(acc) \in Nat /\ DOMAIN acc = 1 .. Len(acc)
        BY <3>2, <3>3, LenProperties
      <4>2. /\ k \in 0 .. Len(acc) /\ Len(run) \in Nat /\ k + Len(run) \in k .. Len(acc)
            /\ run = SubSeq(acc, k + 1, k + Len(run))
        BY <3>1
      <4> HIDE DEF acc, run
      <4>3. run[j] = acc[k + j] /\ k + j \in DOMAIN acc
        BY <4>1, <4>2
      <4> QED
        BY <1>0, <3>2, <4>3 DEF CallsDistinct, acc, run
    <3> QED
      BY <2>4, <3>3 DEF Resolve
  <2> QED
    BY <1>a, <2>1, <2>2, <2>3, <2>4
<1>3. ASSUME NEW t \in Threads, SendNextTask(t) PROVE CallsDistinct'
  <2>1. /\ UNCHANGED <<calls, accepted, promise>>
        /\ \E label \in {"idle", "wait", "submit", "count", "pop"} : pc' = [pc EXCEPT ![t] = label]
    BY <1>3 DEF SendNextTask, ObtainPack, Submit, SubmitFull, CountTask, PopPack, Return, Goto,
                history
  <2>2. \A r \in Producers : pc'[r] \in {"check", "append"} => pc'[r] = pc[r]
    BY <1>0, <1>00, <2>1
  <2> QED
    BY <1>a, <2>1, <2>2
<1>4. CASE UNCHANGED vars
  BY <1>a, <1>4 DEF vars, history
<1> QED
  BY <1>1, <1>2, <1>3, <1>4 DEF Next

----------------------------------------------------------------------------
(* Calls are resolved in the order of acceptance *)

LEMMA NextPipeline == IInv /\ [Next]_vars => PipelineInOrder'
<1> SUFFICES ASSUME IInv, [Next]_vars PROVE PipelineInOrder'
  OBVIOUS
<1>0. /\ Typed' /\ PacksFilled' /\ CallsDistinct /\ CallsDistinct'
      /\ accepted \in [Shards -> Seq(Call)] /\ accepted' \in [Shards -> Seq(Call)]
      /\ promise \in [Call -> {"none", "pending", "value", "exception"}]
  BY NextTyped, NextPacksFilled, NextCallsDistinct DEF IInv, Typed
<1>1. PipelineInOrder' <=> (\A s \in Shards : \E k \in 0 .. Len(accepted[s]) :
                                ResolvedUpTo(s, k) /\ Flow(s) = CallsAfter(s, k))'
  BY <1>0, PipelineIsFlow, PTL
<1>3. (\A s \in Shards : FlowTyped(s))'
  BY <1>0, FlowTypes, PTL
<1>2. ASSUME NEW s \in Shards
      PROVE  \E k \in 0 .. Len(accepted'[s]) : ResolvedUpTo(s, k)' /\ Flow(s)' = CallsAfter(s, k)'
  <2> DEFINE acc == accepted[s]
             n == Len(acc)
  <2>1. PICK k \in 0 .. n : ResolvedUpTo(s, k) /\ Flow(s) = CallsAfter(s, k)
    BY PipelineIsFlow DEF IInv
  <2>2. acc \in Seq(Call) /\ n \in Nat /\ DOMAIN acc = 1 .. n
    BY <1>0, LenProperties
  <2>a. k \in 0 .. n
    BY <2>1
  <2>3. \A i \in 1 .. n : acc[i] \in Call
    BY <2>2, ElementOfSeq
  <2>4. CASE Kept(s)
    BY <2>1, <2>4 DEF Kept, ResolvedUpTo, CallsAfter
  <2>5. ASSUME NEW c \in Call, Accepts(s, c)
        PROVE  ResolvedUpTo(s, k)' /\ Flow(s)' = CallsAfter(s, k)' /\ k \in 0 .. Len(accepted'[s])
    <3>1. /\ accepted'[s] = Append(acc, c) /\ promise[c] = "none"
          /\ promise' = [promise EXCEPT ![c] = "pending"]
          /\ Flow(s)' = SubSeq(acc, k + 1, n) \o <<c>>
      BY <2>1, <2>5 DEF Accepts, CallsAfter
    <3>2. /\ Len(accepted'[s]) = n + 1 /\ DOMAIN accepted'[s] = 1 .. n + 1
          /\ \A i \in 1 .. n : accepted'[s][i] = acc[i]
          /\ accepted'[s][n + 1] = c
      BY <2>a, <2>2, <3>1, AppendProperties, LenProperties
    <3>3. \A i \in 1 .. n : promise'[acc[i]] = promise[acc[i]]
      BY <1>0, <2>2, <2>3, <3>1 DEF CallsDistinct
    <3>4. promise'[c] = "pending"
      BY <1>0, <3>1
    <3>5. \A i \in 1 .. n : promise[acc[i]] = "pending" <=> i > k
      BY <2>1, <2>2 DEF ResolvedUpTo
    <3> HIDE DEF acc, n
    <3>6. ResolvedUpTo(s, k)'
      <4>1. \A i \in 1 .. n + 1 : promise'[accepted'[s][i]] = "pending" <=> i > k
        BY <2>a, <2>2, <3>2, <3>3, <3>4, <3>5
      <4> QED
        BY <3>2, <4>1 DEF ResolvedUpTo
    <3>7. SubSeq(Append(acc, c), k + 1, n + 1) = SubSeq(acc, k + 1, n) \o <<c>>
      BY <2>2, AppendSubSeq DEF n
    <3>8. Flow(s)' = SubSeq(accepted'[s], k + 1, Len(accepted'[s]))
      BY <3>1, <3>2, <3>7
    <3>9. k \in 0 .. Len(accepted'[s])
      BY <2>a, <2>2, <3>2
    <3> QED
      BY <3>6, <3>8, <3>9 DEF CallsAfter
  <2>6. ASSUME NEW w \in Workers, NEW result \in {"value", "exception"},
               pc[w] = "put", Resolves(s, running[w], result)
        PROVE  \E m \in 0 .. Len(accepted'[s]) :
                   ResolvedUpTo(s, m)' /\ Flow(s)' = CallsAfter(s, m)'
    <3> DEFINE run == running[w]
               x == Flow(s)'
    <3>0. PICK m : m = k + Len(run)
      OBVIOUS
    <3>1. /\ accepted'[s] = acc /\ run \o x = SubSeq(acc, k + 1, n)
          /\ promise' = [c \in Call |-> IF \E i \in DOMAIN run : run[i] = c
                                        THEN result ELSE promise[c]]
      BY <2>1, <2>6 DEF Resolves, CallsAfter
    <3>2. run \in Seq(Call)
      BY DEF IInv, Typed
    <3>3. x \in Seq(Call)
      BY <1>3 DEF FlowTyped
    <3> HIDE DEF x, run, acc, n
    <3>4. /\ Len(run) \in Nat /\ m \in k .. n
          /\ run = SubSeq(acc, k + 1, m) /\ x = SubSeq(acc, m + 1, n)
      <4>1. /\ acc \in Seq(Call) /\ k \in 0 .. Len(acc) /\ run \in Seq(Call) /\ x \in Seq(Call)
            /\ run \o x = SubSeq(acc, k + 1, Len(acc))
        BY <2>a, <2>2, <3>1, <3>2, <3>3 DEF n
      <4>2. /\ Len(run) \in Nat /\ k + Len(run) \in k .. Len(acc)
            /\ run = SubSeq(acc, k + 1, k + Len(run))
            /\ x = SubSeq(acc, k + Len(run) + 1, Len(acc))
        BY <4>1, SplitSubSeq, SMTT(90)
      <4> QED
        BY <3>0, <4>2 DEF n
    <3>b. k \in Int /\ m \in Int /\ n \in Int /\ k <= m /\ m <= n /\ 0 <= k /\ m = k + Len(run)
      BY <2>a, <2>2, <3>0, <3>4
    <3>5. /\ DOMAIN run = 1 .. Len(run)
          /\ \A i \in 1 .. Len(run) : run[i] = acc[k + i]
      BY <2>a, <2>2, <3>2, <3>4, LenProperties
    <3>6. \A i, j \in 1 .. n : acc[i] = acc[j] => i = j
      <4>1. \A i, j \in DOMAIN accepted[s] : accepted[s][i] = accepted[s][j] => i = j
        BY <1>0 DEF CallsDistinct
      <4> QED
        BY <2>2, <4>1 DEF acc
    <3>7. \A i \in 1 .. n : promise[acc[i]] = "pending" <=> i > k
      BY <2>1, <2>2 DEF ResolvedUpTo, acc
    <3>8. \A i \in 1 .. n : promise'[acc[i]] = "pending" <=> i > m
      <4> SUFFICES ASSUME NEW i \in 1 .. n PROVE promise'[acc[i]] = "pending" <=> i > m
        OBVIOUS
      <4>1. promise'[acc[i]] = IF \E j \in DOMAIN run : run[j] = acc[i]
                               THEN result ELSE promise[acc[i]]
        BY <2>3, <3>1
      <4>2. CASE i <= k
        BY <3>b, <3>7, <4>1, <4>2
      <4>3. CASE i > k /\ i <= m
        <5>1. i - k \in 1 .. Len(run) /\ run[i - k] = acc[i]
          BY <3>b, <3>4, <3>5, <4>3
        <5> QED
          BY <3>b, <3>5, <4>1, <4>3, <5>1
      <4>4. CASE i > m
        <5>1. \A j \in 1 .. Len(run) : k + j \in 1 .. n /\ k + j # i
          BY <3>b, <3>4, <4>4
        <5>2. \A j \in DOMAIN run : run[j] # acc[i]
          BY <3>5, <3>6, <5>1
        <5> QED
          BY <3>b, <3>7, <4>1, <4>4, <5>2
      <4> QED
        BY <3>b, <4>2, <4>3, <4>4
    <3>9. ResolvedUpTo(s, m)'
      BY <2>a, <2>2, <3>1, <3>8 DEF ResolvedUpTo
    <3>10. Flow(s)' = CallsAfter(s, m)'
      BY <3>1, <3>4 DEF CallsAfter, x, n
    <3>11. m \in 0 .. Len(accepted'[s])
      BY <2>a, <2>2, <3>1, <3>4 DEF n
    <3> QED
      BY <3>9, <3>10, <3>11
  <2> HIDE DEF acc, n
  <2>7. Kept(s) => k \in 0 .. Len(accepted'[s])
    BY <2>1 DEF Kept, acc, n
  <2> QED
    BY <2>4, <2>5, <2>6, <2>7, NextFlow
<1> QED
  BY <1>1, <1>2

----------------------------------------------------------------------------
(* The ready queue is bounded *)

AppendingBounded ==
    /\ Cardinality(Producers) \in Nat
    /\ \A s \in Shards : /\ IsFiniteSet(Appending(s))
                         /\ Cardinality(Appending(s)) \in Nat
                         /\ Cardinality(Appending(s)) <= Cardinality(Producers)

LEMMA AppendingFinite == AppendingBounded
<1>1. IsFiniteSet(Producers)
  BY ProducersAssumption DEF ProducersAssumption
<1>2. Cardinality(Producers) \in Nat
  BY <1>1, FS_CardinalityType
<1>3. ASSUME NEW s \in Shards
      PROVE  /\ IsFiniteSet(Appending(s))
             /\ Cardinality(Appending(s)) \in Nat
             /\ Cardinality(Appending(s)) <= Cardinality(Producers)
  <2>1. Appending(s) \in SUBSET Producers
    BY DEF Appending
  <2> QED
    BY <1>1, <2>1, FS_Subset, FS_CardinalityType
<1> QED
  BY <1>2, <1>3 DEF AppendingBounded

\* The packs that a buffer holds.
Packs(q) == Len(q.ready) + (IF q.current = NoPack THEN 0 ELSE 1)

LEMMA PacksOf ==
    ASSUME NEW q
    PROVE  /\ q.current = NoPack => Packs(q) = Len(q.ready) + 0
           /\ q.current # NoPack => Packs(q) = Len(q.ready) + 1
  BY DEF Packs

LEMMA PacksChange ==
    ASSUME NEW q \in PackQueue(Call), NEW timeUp \in BOOLEAN
    PROVE  /\ Packs(q) \in Nat
           /\ \A c \in Call : Packs(AppendRecord(q, c, timeUp)) <= Packs(q) + 1
           /\ \A force \in BOOLEAN : Packs(MakeReady(q, force, timeUp)) = Packs(q)
           /\ Packs(PopBackRecordPack(q)) <= Packs(q)
<1>1. q.current \in Seq(Call) /\ q.ready \in Seq(Seq(Call)) /\ Len(q.ready) \in Nat
  BY LenProperties DEF PackQueue
<1>2. \A e \in Seq(Call) : Len(Append(q.ready, e)) = Len(q.ready) + 1
  BY <1>1, AppendProperties
<1>3. ASSUME NEW c \in Call PROVE Packs(AppendRecord(q, c, timeUp)) <= Packs(q) + 1
  <2>1. <<c>> # NoPack /\ Append(q.current, c) # NoPack /\ Append(q.current, c) \in Seq(Call)
    BY <1>1, AppendProperties DEF NoPack
  <2> DEFINE r == AppendRecord(q, c, timeUp)
  <2>2. \/ q.current = NoPack /\ r = [current |-> <<c>>, ready |-> q.ready]
        \/ /\ q.current # NoPack
           /\ \/ r = [current |-> <<c>>, ready |-> Append(q.ready, q.current)]
              \/ r = [current |-> Append(q.current, c), ready |-> q.ready]
              \/ r = [current |-> NoPack, ready |-> Append(q.ready, Append(q.current, c))]
    BY AppendRecordCases
  <2> HIDE DEF r
  <2>3. \/ q.current = NoPack /\ r.ready = q.ready
        \/ /\ q.current # NoPack
           /\ r.ready = q.ready \/ Len(r.ready) = Len(q.ready) + 1
    BY <1>1, <1>2, <2>1, <2>2
  <2>4. Packs(r) <= Packs(q) + 1
    BY <1>1, <2>3, PacksOf
  <2> QED
    BY <2>4 DEF r
<1>4. ASSUME NEW force \in BOOLEAN PROVE Packs(MakeReady(q, force, timeUp)) = Packs(q)
  <2> DEFINE r == MakeReady(q, force, timeUp)
  <2>1. \/ r = q
        \/ q.current # NoPack /\ r = [current |-> NoPack, ready |-> Append(q.ready, q.current)]
    BY MakeReadyCases
  <2> HIDE DEF r
  <2>2. \/ r = q
        \/ q.current # NoPack /\ r.current = NoPack /\ Len(r.ready) = Len(q.ready) + 1
    BY <1>1, <1>2, <2>1
  <2>3. Packs(r) = Packs(q)
    BY <1>1, <2>2, PacksOf
  <2> QED
    BY <2>3 DEF r
<1>5. Packs(PopBackRecordPack(q)) <= Packs(q)
  <2>1. q.ready # <<>> => Len(Tail(q.ready)) = Len(q.ready) - 1
    BY <1>1, HeadTailProperties
  <2>2. q.ready # <<>> => /\ PopBackRecordPack(q).ready = Tail(q.ready)
                         /\ PopBackRecordPack(q).current = q.current
    BY DEF PopBackRecordPack, PackQueue
  <2>3. q.ready = <<>> => PopBackRecordPack(q) = q
    BY DEF PopBackRecordPack
  <2> DEFINE r == PopBackRecordPack(q)
  <2>4. r = q \/ (Len(r.ready) = Len(q.ready) - 1 /\ r.current = q.current)
    BY <2>1, <2>2, <2>3
  <2> HIDE DEF r
  <2>5. Packs(r) <= Packs(q)
    <3>1. CASE r = q
      BY <1>1, <3>1, PacksOf
    <3>2. CASE Len(r.ready) = Len(q.ready) - 1 /\ r.current = q.current
      BY <1>1, <3>2, PacksOf
    <3> QED
      BY <2>4, <3>1, <3>2
  <2> QED
    BY <2>5 DEF r
<1>6. Packs(q) \in Nat
  BY <1>1, PacksOf
<1> QED
  BY <1>3, <1>4, <1>5, <1>6

LEMMA NextReadyBound == IInv /\ [Next]_vars => ReadyBound'
<1> SUFFICES ASSUME IInv, [Next]_vars, NEW s \in Shards
             PROVE  Packs(queue'[s]) + Cardinality(Appending(s)') <= ReadyLimit + Cardinality(Producers)
  <2>1. ReadyBound' <=> \A s \in Shards :
            Packs(queue'[s]) + Cardinality(Appending(s)') <= ReadyLimit + Cardinality(Producers)
    BY DEF ReadyBound, Packs
  <2> QED
    BY <2>1
<1>0. /\ pc \in [Threads -> Places] /\ shard \in [Threads -> Shards]
      /\ queue \in [Shards -> PackQueue(Call)] /\ queue' \in [Shards -> PackQueue(Call)]
      /\ flushing \in [Producers -> BOOLEAN] /\ ReadyLimit \in Nat
  BY NextTyped, ReadyLimitAssumption DEF IInv, Typed, ReadyLimitAssumption
<1>00. /\ \A p \in Producers : p \in Threads /\ p \notin Workers
       /\ \A w \in Workers : w \in Threads /\ w \notin Producers
  BY ThreadsAssumption DEF ThreadsAssumption, Threads
<1> DEFINE P == Cardinality(Producers)
           a == Cardinality(Appending(s))
           b == Cardinality(Appending(s)')
<1>1. Packs(queue[s]) + a <= ReadyLimit + P
  BY DEF IInv, ReadyBound, Packs
<1>2. P \in Nat /\ a \in Nat /\ b \in Nat /\ a <= P /\ b <= P
  <2>1. AppendingBounded /\ AppendingBounded'
    BY AppendingFinite, PTL
  <2> QED
    BY <2>1 DEF AppendingBounded
<1>3. Packs(queue[s]) \in Nat /\ Packs(queue'[s]) \in Nat
  BY <1>0, PacksChange
<1> HIDE DEF P, a, b
<1>4. ASSUME Appending(s)' = Appending(s), Packs(queue'[s]) <= Packs(queue[s])
      PROVE  Packs(queue'[s]) + b <= ReadyLimit + P
  <2>1. a = b
    BY <1>4 DEF a, b
  <2> QED
    BY <1>0, <1>1, <1>2, <1>3, <1>4, <2>1
<1>5. ASSUME NEW p \in Producers, ProducerStep(p)
      PROVE  Packs(queue'[s]) + b <= ReadyLimit + P
  <2>1. CASE Accept(p)
    <3> DEFINE c == <<p, calls[p] + 1>>
    <3>1. /\ pc[p] = "append" /\ pc' = [pc EXCEPT ![p] = "send"] /\ shard' = shard
          /\ \E timeUp \in BOOLEAN : queue' = [queue EXCEPT ![shard[p]] = AppendRecord(@, c, timeUp)]
      BY <2>1 DEF Accept, Goto
    <3>2. CASE s # shard[p]
      <4>1. queue'[s] = queue[s]
        BY <1>0, <3>1, <3>2
      <4>2. Appending(s)' = Appending(s)
        BY <1>0, <1>00, <3>1, <3>2 DEF Appending, At
      <4> QED
        BY <1>3, <1>4, <4>1, <4>2
    <3>3. CASE s = shard[p]
      <4>1. Packs(queue'[s]) <= Packs(queue[s]) + 1
        <5>1. c \in Call
          <6>1. calls[p] \in 0 .. MaxCalls /\ calls[p] < MaxCalls
            BY <3>1 DEF IInv, Typed, CallsDistinct
          <6>2. calls[p] + 1 \in 1 .. MaxCalls
            BY <6>1, MaxCallsAssumption DEF MaxCallsAssumption
          <6> QED
            BY <6>2 DEF Call
        <5>2. PICK timeUp \in BOOLEAN : queue'[s] = AppendRecord(queue[s], c, timeUp)
          BY <1>0, <3>1, <3>3
        <5> HIDE DEF c
        <5> QED
          BY <1>0, <5>1, <5>2, PacksChange
      <4>2. p \in Appending(s) /\ Appending(s)' = Appending(s) \ {p}
        BY <1>0, <1>00, <3>1, <3>3 DEF Appending, At
      <4>3. b = a - 1
        <5>1. IsFiniteSet(Appending(s))
          BY AppendingFinite DEF AppendingBounded
        <5> QED
          BY <4>2, <5>1, FS_RemoveElement DEF a, b
      <4> QED
        BY <1>0, <1>1, <1>2, <1>3, <4>1, <4>3
    <3> QED
      BY <3>2, <3>3
  <2>2. CASE PassLimit(p)
    <3>1. queue' = queue /\ shard' = shard /\ pc' = [pc EXCEPT ![p] = "append"]
      BY <2>2 DEF PassLimit, Goto
    <3>2. CASE s # shard[p]
      <4>1. Appending(s)' = Appending(s)
        BY <1>0, <1>00, <3>1, <3>2 DEF Appending, At
      <4> QED
        BY <1>3, <1>4, <3>1, <4>1
    <3>3. CASE s = shard[p]
      <4>1. Len(queue[s].ready) < ReadyLimit
        BY <2>2, <3>3 DEF PassLimit, BelowLimit
      <4>2. Len(queue[s].ready) \in Nat
        BY <1>0, LenProperties DEF PackQueue
      <4>3. Packs(queue'[s]) <= ReadyLimit
        <5>1. Packs(queue'[s]) = Len(queue[s].ready) \/ Packs(queue'[s]) = Len(queue[s].ready) + 1
          BY <3>1, <4>2, PacksOf
        <5> QED
          BY <1>0, <4>1, <4>2, <5>1
      <4> QED
        BY <1>0, <1>2, <1>3, <4>3
    <3> QED
      BY <3>2, <3>3
  <2>3. CASE ~ Accept(p) /\ ~ PassLimit(p)
    <3>1. queue' = queue
      BY <1>5, <2>3 DEF ProducerStep, StartWriteAsync, StartFlush, LimitTimeout, FlushWait
    <3>2. /\ pc[p] # "append" /\ pc'[p] # "append"
          /\ \A r \in Producers : r # p => pc'[r] = pc[r] /\ shard'[r] = shard[r]
      BY <1>0, <1>00, <1>5, <2>3
         DEF ProducerStep, StartWriteAsync, StartFlush, LimitTimeout, FlushWait, Goto
    <3>3. Appending(s)' = Appending(s)
      BY <3>2 DEF Appending, At
    <3> QED
      BY <1>3, <1>4, <3>1, <3>3
  <2> QED
    BY <2>1, <2>2, <2>3
<1>6. ASSUME NEW w \in Workers, WorkerStep(w)
      PROVE  Packs(queue'[s]) + b <= ReadyLimit + P
  <2>1. queue' = queue
    BY <1>6 DEF WorkerStep, TakeTask, PutSucceeds, PutRetries, PutFails, TaskDone
  <2>2. \A r \in Producers : (pc'[r] = "append" <=> pc[r] = "append") /\ shard'[r] = shard[r]
    BY <1>0, <1>00, <1>6
       DEF WorkerStep, TakeTask, PutSucceeds, PutRetries, PutFails, TaskDone, NotifyFlushers, Goto
  <2>3. Appending(s)' = Appending(s)
    BY <2>2 DEF Appending, At
  <2> QED
    BY <1>3, <1>4, <2>1, <2>3
<1>7. ASSUME NEW t \in Threads, SendNextTask(t)
      PROVE  Packs(queue'[s]) + b <= ReadyLimit + P
  <2>1. /\ pc[t] # "append" /\ shard' = shard
        /\ \E label \in {"idle", "wait", "submit", "count", "pop"} : pc' = [pc EXCEPT ![t] = label]
    BY <1>7 DEF SendNextTask, ObtainPack, Submit, SubmitFull, CountTask, PopPack, Return, Goto
  <2>2. Appending(s)' = Appending(s)
    BY <1>0, <1>00, <2>1 DEF Appending, At
  <2>3. \/ queue' = queue
        \/ queue' = [queue EXCEPT ![shard[t]] = PopBackRecordPack(@)]
        \/ \E timeUp \in BOOLEAN :
               queue' = [queue EXCEPT ![shard[t]] = MakeReady(@, Forced(t), timeUp)]
    BY <1>7 DEF SendNextTask, ObtainPack, Submit, SubmitFull, CountTask, PopPack
  <2>4. Forced(t) \in BOOLEAN
    BY <1>0 DEF Forced
  <2>5. Packs(queue'[s]) <= Packs(queue[s])
    <3>1. CASE queue'[s] = queue[s]
      BY <1>3, <3>1
    <3>2. CASE queue'[s] = PopBackRecordPack(queue[s])
      BY <1>0, <3>2, PacksChange
    <3>3. ASSUME NEW timeUp \in BOOLEAN, queue'[s] = MakeReady(queue[s], Forced(t), timeUp)
          PROVE  Packs(queue'[s]) <= Packs(queue[s])
      <4>1. Packs(MakeReady(queue[s], Forced(t), timeUp)) = Packs(queue[s])
        BY <1>0, <2>4, PacksChange
      <4> QED
        BY <1>3, <3>3, <4>1
    <3>4. \/ queue'[s] = queue[s] \/ queue'[s] = PopBackRecordPack(queue[s])
          \/ \E timeUp \in BOOLEAN : queue'[s] = MakeReady(queue[s], Forced(t), timeUp)
      BY <1>0, <2>3
    <3> QED
      BY <3>1, <3>2, <3>3, <3>4
  <2> QED
    BY <1>4, <2>2, <2>5
<1>8. ASSUME UNCHANGED vars
      PROVE  Packs(queue'[s]) + b <= ReadyLimit + P
  <2>1. queue' = queue /\ Appending(s)' = Appending(s)
    BY <1>8 DEF vars, Appending, At
  <2> QED
    BY <1>3, <1>4, <2>1
<1>9. Packs(queue'[s]) + b <= ReadyLimit + P
  BY <1>5, <1>6, <1>7, <1>8 DEF Next
<1> QED
  BY <1>9 DEF b, P

----------------------------------------------------------------------------
(* The task counter *)

TasksOf(s) == {task \in Task : task.shard = s}

InQueue(s) == Cardinality(Positions(tasks[WorkerOf[s]], TasksOf(s)))
AtWorker(s) == IF At(WorkerOf[s], s, {"put", "done"}) THEN 1 ELSE 0
Uncounted(s) == IF \E t \in Threads : At(t, s, {"count"}) THEN 1 ELSE 0

LEMMA OutstandingParts ==
    Typed => \A s \in Shards : InQueue(s) \in Nat /\ Outstanding(s) = InQueue(s) + AtWorker(s)
<1> SUFFICES ASSUME Typed, NEW s \in Shards
             PROVE  InQueue(s) \in Nat /\ Outstanding(s) = InQueue(s) + AtWorker(s)
  OBVIOUS
<1> DEFINE seq == tasks[WorkerOf[s]]
<1>1. seq \in Seq(Task)
  BY WorkerOfAssumption DEF WorkerOfAssumption, Typed
<1>2. \A i \in DOMAIN seq : seq[i] \in Task
  BY <1>1, ElementOfSeq, LenProperties
<1>3. {i \in DOMAIN seq : seq[i].shard = s} = Positions(seq, TasksOf(s))
  BY <1>2 DEF Positions, TasksOf
<1>4. InQueue(s) \in Nat
  BY <1>1, PositionsFinite DEF InQueue
<1> QED
  BY <1>3, <1>4 DEF Outstanding, InQueue, AtWorker

\* The two equations of TaskCountExact, before and after a step.
LEMMA TaskCountParts ==
    Typed => (TaskCountExact <=> \A s \in Shards :
                                    totalTaskNum[s] = InQueue(s) + AtWorker(s) - Uncounted(s))
<1> SUFFICES ASSUME Typed
             PROVE  TaskCountExact <=> \A s \in Shards :
                        totalTaskNum[s] = InQueue(s) + AtWorker(s) - Uncounted(s)
  OBVIOUS
<1>1. TaskCountExact <=> \A s \in Shards : totalTaskNum[s] = Outstanding(s) - Uncounted(s)
  BY DEF TaskCountExact, Uncounted
<1>2. \A s \in Shards : /\ Outstanding(s) = InQueue(s) + AtWorker(s)
                        /\ InQueue(s) \in Int /\ AtWorker(s) \in Int /\ Uncounted(s) \in Int
  BY OutstandingParts DEF AtWorker, Uncounted
<1> QED
  BY <1>1, <1>2

\* mSendMutex is held by one thread.
LEMMA SubmitterAlone ==
    ASSUME IInv, NEW t \in Threads, pc[t] \in InSendNextTask, NEW u \in Threads, u # t
    PROVE  ~ At(u, shard[t], InSendNextTask)
<1>1. At(t, shard[t], InSendNextTask) /\ shard[t] \in Shards
  BY DEF At, IInv, Typed
<1> QED
  BY <1>1 DEF IInv, Owners

LEMMA NextTaskCount == IInv /\ [Next]_vars => TaskCountExact'
<1> SUFFICES ASSUME IInv, [Next]_vars PROVE TaskCountExact'
  OBVIOUS
<1>0. /\ pc \in [Threads -> Places] /\ shard \in [Threads -> Shards]
      /\ tasks \in [Workers -> Seq(Task)]
      /\ totalTaskNum \in [Shards -> Int]
      /\ WorkerOf \in [Shards -> Workers]
      /\ pack \in [Threads -> Seq(Call)]
      /\ TasksHashed
  BY WorkerOfAssumption DEF WorkerOfAssumption, IInv, Typed
<1>00. /\ \A p \in Producers : p \in Threads /\ p \notin Workers
       /\ \A w \in Workers : w \in Threads /\ w \notin Producers
  BY ThreadsAssumption DEF ThreadsAssumption, Threads
<1>b. /\ \A s \in Shards : InQueue(s) \in Nat
      /\ \A s \in Shards : totalTaskNum[s] = InQueue(s) + AtWorker(s) - Uncounted(s)
  BY OutstandingParts, TaskCountParts DEF IInv
<1>c. TaskCountExact' <=> (\A s \in Shards :
                              totalTaskNum[s] = InQueue(s) + AtWorker(s) - Uncounted(s))'
  BY NextTyped, TaskCountParts, PTL
<1>d. /\ \A s \in Shards : AtWorker(s) \in {0, 1} /\ AtWorker(s)' \in {0, 1}
      /\ \A s \in Shards : Uncounted(s) \in {0, 1} /\ Uncounted(s)' \in {0, 1}
  BY DEF AtWorker, Uncounted
<1>e. \A s \in Shards : InQueue(s)' \in Nat
  <2>1. (\A s \in Shards : InQueue(s) \in Nat /\ Outstanding(s) = InQueue(s) + AtWorker(s))'
    BY NextTyped, OutstandingParts, PTL
  <2> QED
    BY <2>1
<1> DEFINE Exact(s) == totalTaskNum'[s] = InQueue(s)' + AtWorker(s)' - Uncounted(s)'
<1>a. ASSUME NEW s \in Shards, totalTaskNum'[s] = totalTaskNum[s],
             tasks'[WorkerOf[s]] = tasks[WorkerOf[s]],
             \A t \in Threads : At(t, s, {"count"})' <=> At(t, s, {"count"}),
             At(WorkerOf[s], s, {"put", "done"})' <=> At(WorkerOf[s], s, {"put", "done"})
      PROVE  Exact(s)
  <2>1. InQueue(s)' = InQueue(s) /\ AtWorker(s)' = AtWorker(s) /\ Uncounted(s)' = Uncounted(s)
    BY <1>a DEF InQueue, AtWorker, Uncounted
  <2> QED
    BY <1>a, <1>b, <2>1
<1>1. ASSUME NEW p \in Producers, ProducerStep(p), NEW s \in Shards PROVE Exact(s)
  <2>1. /\ UNCHANGED <<totalTaskNum, tasks>>
        /\ pc[p] # "count" /\ pc'[p] # "count"
        /\ \A t \in Threads : t # p => pc'[t] = pc[t] /\ shard'[t] = shard[t]
    BY <1>0, <1>00, <1>1
       DEF ProducerStep, StartWriteAsync, StartFlush, PassLimit, LimitTimeout, Accept, FlushWait,
           Goto
  <2>2. \A t \in Threads : At(t, s, {"count"})' <=> At(t, s, {"count"})
    BY <2>1 DEF At
  <2>3. At(WorkerOf[s], s, {"put", "done"})' <=> At(WorkerOf[s], s, {"put", "done"})
    BY <1>0, <1>00, <2>1 DEF At
  <2> QED
    BY <1>a, <2>1, <2>2, <2>3
<1>2. ASSUME NEW w \in Workers, WorkerStep(w), NEW s \in Shards PROVE Exact(s)
  <2> DEFINE v == WorkerOf[s]
  <2>0. w \in Threads /\ v \in Workers /\ v \in Threads
    BY <1>0, <1>00
  <2>1. \A t \in Threads : At(t, s, {"count"})' <=> At(t, s, {"count"})
    <3>1. /\ \A t \in Threads : pc'[t] = "count" <=> pc[t] = "count"
          /\ \A t \in Threads : pc[t] = "count" => shard'[t] = shard[t]
      BY <1>0, <1>00, <1>2
         DEF WorkerStep, TakeTask, PutSucceeds, PutRetries, PutFails, TaskDone, NotifyFlushers, Goto
    <3> QED
      BY <3>1 DEF At
  <2>2. Uncounted(s)' = Uncounted(s)
    BY <2>1 DEF Uncounted
  <2>3. CASE TakeTask(w)
    <3>1. /\ pc[w] = "idle" /\ pc' = [pc EXCEPT ![w] = "put"]
          /\ tasks[w] # <<>> /\ tasks' = [tasks EXCEPT ![w] = Tail(@)]
          /\ shard' = [shard EXCEPT ![w] = Head(tasks[w]).shard]
          /\ totalTaskNum' = totalTaskNum
      BY <2>3 DEF TakeTask, Goto
    <3>2. CASE v # w
      <4>1. At(v, s, {"put", "done"})' <=> At(v, s, {"put", "done"})
        BY <1>0, <2>0, <3>1, <3>2 DEF At
      <4>2. tasks'[v] = tasks[v]
        BY <1>0, <2>0, <3>1, <3>2
      <4> QED
        BY <1>a, <2>1, <3>1, <4>1, <4>2
    <3>3. CASE v = w
      <4>1. tasks[w] \in Seq(Task) /\ tasks[w] # <<>> /\ Head(tasks[w]) \in Task
        BY <1>0, <3>1, HeadTailProperties
      <4>2. InQueue(s) = InQueue(s)' + (IF Head(tasks[w]) \in TasksOf(s) THEN 1 ELSE 0)
        <5>1. Cardinality(Positions(tasks[w], TasksOf(s)))
                  = Cardinality(Positions(Tail(tasks[w]), TasksOf(s)))
                        + (IF Head(tasks[w]) \in TasksOf(s) THEN 1 ELSE 0)
          BY <4>1, PositionsTail
        <5>2. tasks'[w] = Tail(tasks[w])
          BY <1>0, <3>1
        <5>3. TasksOf(s)' = TasksOf(s)
          BY DEF TasksOf
        <5> QED
          BY <3>3, <5>1, <5>2, <5>3 DEF InQueue
      <4>3. AtWorker(s) = 0
        BY <3>1, <3>3 DEF AtWorker, At
      <4>4. AtWorker(s)' = IF Head(tasks[w]).shard = s THEN 1 ELSE 0
        BY <1>0, <2>0, <3>1, <3>3 DEF AtWorker, At
      <4>5. Head(tasks[w]) \in TasksOf(s) <=> Head(tasks[w]).shard = s
        BY <4>1 DEF TasksOf
      <4>6. InQueue(s) + AtWorker(s) = InQueue(s)' + AtWorker(s)'
        <5>1. CASE Head(tasks[w]).shard = s
          BY <1>b, <4>2, <4>3, <4>4, <4>5, <5>1
        <5>2. CASE Head(tasks[w]).shard # s
          BY <1>b, <4>2, <4>3, <4>4, <4>5, <5>2
        <5> QED
          BY <5>1, <5>2
      <4>7. totalTaskNum'[s] = totalTaskNum[s]
        BY <3>1
      <4>8. InQueue(s)' \in Int /\ AtWorker(s)' \in Int
        BY <1>d, <1>e
      <4> QED
        BY <1>b, <1>d, <2>2, <4>6, <4>7, <4>8
    <3> QED
      BY <3>2, <3>3
  <2>4. CASE TaskDone(w)
    <3>1. /\ pc[w] = "done" /\ tasks' = tasks /\ shard' = shard
          /\ totalTaskNum' = [totalTaskNum EXCEPT ![shard[w]] = @ - 1]
          /\ pc'[w] = "send"
          /\ \A u \in Workers : u # w => (pc'[u] \in {"put", "done"} <=> pc[u] \in {"put", "done"})
      BY <1>0, <1>00, <2>4 DEF TaskDone, NotifyFlushers
    <3>2. CASE s # shard[w]
      <4>1. At(v, s, {"put", "done"})' <=> At(v, s, {"put", "done"})
        BY <1>0, <2>0, <3>1, <3>2 DEF At
      <4>2. totalTaskNum'[s] = totalTaskNum[s]
        BY <1>0, <3>1, <3>2
      <4> QED
        BY <1>a, <2>1, <3>1, <4>1, <4>2
    <3>3. CASE s = shard[w]
      <4>1. v = w
        BY <1>0, <3>1, <3>3 DEF TasksHashed
      <4>2. AtWorker(s) = 1 /\ AtWorker(s)' = 0
        BY <3>1, <3>3, <4>1 DEF AtWorker, At
      <4>3. InQueue(s)' = InQueue(s)
        BY <3>1 DEF InQueue, TasksOf
      <4>4. totalTaskNum'[s] = totalTaskNum[s] - 1
        BY <1>0, <3>1, <3>3
      <4> QED
        BY <1>b, <1>d, <2>2, <4>2, <4>3, <4>4
    <3> QED
      BY <3>2, <3>3
  <2>5. CASE PutSucceeds(w) \/ PutRetries(w) \/ PutFails(w)
    <3>1. /\ UNCHANGED <<tasks, shard, totalTaskNum>>
          /\ \A u \in Workers : pc'[u] \in {"put", "done"} <=> pc[u] \in {"put", "done"}
      BY <1>0, <1>00, <2>5 DEF PutSucceeds, PutRetries, PutFails, Goto
    <3>2. At(v, s, {"put", "done"})' <=> At(v, s, {"put", "done"})
      BY <2>0, <3>1 DEF At
    <3> QED
      BY <1>a, <2>1, <3>1, <3>2
  <2> QED
    BY <1>2, <2>3, <2>4, <2>5 DEF WorkerStep
<1>3. ASSUME NEW t \in Threads, SendNextTask(t), NEW s \in Shards PROVE Exact(s)
  <2> DEFINE v == WorkerOf[s]
  <2>0. v \in Workers /\ v \in Threads
    BY <1>0, <1>00
  <2>1. /\ shard' = shard
        /\ \A u \in Threads : u # t => pc'[u] = pc[u]
        /\ pc[t] \notin {"put", "done"} /\ pc'[t] \notin {"put", "done"}
    BY <1>0, <1>3 DEF SendNextTask, ObtainPack, Submit, SubmitFull, CountTask, PopPack, Return, Goto
  <2>2. At(v, s, {"put", "done"})' <=> At(v, s, {"put", "done"})
    BY <2>0, <2>1 DEF At
  <2>3. AtWorker(s)' = AtWorker(s)
    BY <2>2 DEF AtWorker
  <2>4. CASE Submit(t)
    <3> DEFINE w == WorkerOf[shard[t]]
               task == [shard |-> shard[t], pack |-> pack[t]]
    <3>1. /\ pc[t] = "submit" /\ pc'[t] = "count"
          /\ tasks' = [tasks EXCEPT ![w] = Append(@, task)]
          /\ totalTaskNum' = totalTaskNum
          /\ w \in Workers /\ task \in Task
      BY <1>0, <2>4 DEF Submit, Goto, Task
    <3>2. task \in TasksOf(s) <=> s = shard[t]
      BY <3>1 DEF TasksOf
    <3>3. TasksOf(s)' = TasksOf(s)
      BY DEF TasksOf
    <3> HIDE DEF task
    <3>4. v = w => InQueue(s)' = InQueue(s) + (IF task \in TasksOf(s) THEN 1 ELSE 0)
      <4>1. Cardinality(Positions(Append(tasks[w], task), TasksOf(s)))
                = Cardinality(Positions(tasks[w], TasksOf(s)))
                      + (IF task \in TasksOf(s) THEN 1 ELSE 0)
        BY <1>0, <3>1, PositionsAppend
      <4> QED
        BY <1>0, <3>1, <3>3, <4>1 DEF InQueue
    <3>5. CASE s # shard[t]
      <4>1. \A u \in Threads : At(u, s, {"count"})' <=> At(u, s, {"count"})
        BY <2>1, <3>5 DEF At
      <4>2. Uncounted(s)' = Uncounted(s)
        BY <4>1 DEF Uncounted
      <4>3. InQueue(s)' = InQueue(s)
        <5>1. CASE v = w
          BY <1>b, <3>2, <3>4, <3>5, <5>1
        <5>2. CASE v # w
          BY <1>0, <2>0, <3>1, <3>3, <5>2 DEF InQueue
        <5> QED
          BY <5>1, <5>2
      <4> QED
        BY <1>b, <2>3, <3>1, <4>2, <4>3
    <3>6. CASE s = shard[t]
      <4>1. Uncounted(s) = 0
        <5>1. \A u \in Threads : ~ At(u, s, {"count"})
          BY <3>1, <3>6, SubmitterAlone DEF At, InSendNextTask
        <5> QED
          BY <5>1 DEF Uncounted
      <4>2. Uncounted(s)' = 1
        BY <2>1, <3>1, <3>6 DEF Uncounted, At
      <4>3. InQueue(s)' = InQueue(s) + 1
        BY <3>2, <3>4, <3>6
      <4> QED
        BY <1>b, <1>d, <2>3, <3>1, <4>1, <4>2, <4>3
    <3> QED
      BY <3>5, <3>6
  <2>5. CASE CountTask(t)
    <3>1. /\ pc[t] = "count" /\ pc'[t] = "pop" /\ tasks' = tasks
          /\ totalTaskNum' = [totalTaskNum EXCEPT ![shard[t]] = @ + 1]
      BY <1>0, <2>5 DEF CountTask, Goto
    <3>2. InQueue(s)' = InQueue(s)
      BY <3>1 DEF InQueue, TasksOf
    <3>3. CASE s # shard[t]
      <4>1. \A u \in Threads : At(u, s, {"count"})' <=> At(u, s, {"count"})
        BY <2>1, <3>3 DEF At
      <4>2. totalTaskNum'[s] = totalTaskNum[s]
        BY <1>0, <3>1, <3>3
      <4> QED
        BY <1>a, <2>2, <3>1, <4>1, <4>2
    <3>4. CASE s = shard[t]
      <4>1. \A u \in Threads : ~ At(u, s, {"count"})'
        BY <2>1, <3>1, <3>4, SubmitterAlone DEF At, InSendNextTask
      <4>2. Uncounted(s) = 1 /\ Uncounted(s)' = 0
        BY <3>1, <3>4, <4>1 DEF Uncounted, At
      <4>3. totalTaskNum'[s] = totalTaskNum[s] + 1
        BY <1>0, <3>1, <3>4
      <4> QED
        BY <1>b, <1>d, <2>3, <3>2, <4>2, <4>3
    <3> QED
      BY <3>3, <3>4
  <2>6. CASE ObtainPack(t) \/ SubmitFull(t) \/ PopPack(t)
    <3>1. /\ UNCHANGED <<tasks, totalTaskNum>> /\ pc[t] # "count" /\ pc'[t] # "count"
      BY <1>0, <2>6 DEF ObtainPack, SubmitFull, PopPack, Return, Goto
    <3>2. \A u \in Threads : At(u, s, {"count"})' <=> At(u, s, {"count"})
      BY <2>1, <3>1 DEF At
    <3> QED
      BY <1>a, <2>2, <3>1, <3>2
  <2> QED
    BY <1>3, <2>4, <2>5, <2>6 DEF SendNextTask
<1>4. ASSUME UNCHANGED vars, NEW s \in Shards PROVE Exact(s)
  BY <1>a, <1>4 DEF vars, At
<1> HIDE DEF Exact
<1>5. \A s \in Shards : Exact(s)
  BY <1>1, <1>2, <1>3, <1>4 DEF Next
<1> QED
  BY <1>c, <1>5 DEF Exact

\* How many tasks are outstanding, read off the counter.
LEMMA OutstandingCounted ==
    Typed /\ TaskCountExact =>
        \A s \in Shards : /\ Outstanding(s) \in Nat
                          /\ totalTaskNum[s] \in Int
                          /\ Uncounted(s) \in {0, 1}
                          /\ Outstanding(s) = totalTaskNum[s] + Uncounted(s)
<1> SUFFICES ASSUME Typed, TaskCountExact, NEW s \in Shards
             PROVE  /\ Outstanding(s) \in Nat
                    /\ totalTaskNum[s] \in Int
                    /\ Uncounted(s) \in {0, 1}
                    /\ Outstanding(s) = totalTaskNum[s] + Uncounted(s)
  OBVIOUS
<1>1. Outstanding(s) \in Nat
  <2>1. Outstanding(s) = InQueue(s) + AtWorker(s) /\ InQueue(s) \in Nat
    BY OutstandingParts
  <2>2. AtWorker(s) \in Nat
    BY DEF AtWorker
  <2> QED
    BY <2>1, <2>2
<1>2. totalTaskNum[s] = Outstanding(s) - Uncounted(s)
  BY DEF TaskCountExact, Uncounted
<1>3. Uncounted(s) \in {0, 1}
  BY DEF Uncounted
<1> QED
  BY <1>1, <1>2, <1>3

LEMMA NextSubmitted == IInv /\ [Next]_vars => SubmittedIsOutstanding'
<1> SUFFICES ASSUME IInv, [Next]_vars PROVE SubmittedIsOutstanding'
  OBVIOUS
<1>0. /\ pc \in [Threads -> Places] /\ shard \in [Threads -> Shards]
      /\ totalTaskNum \in [Shards -> Int]
      /\ taskMutex \in [Shards -> Workers \cup {NoThread}]
      /\ Owners
  BY DEF IInv, Typed
<1>00. /\ \A p \in Producers : p \in Threads /\ p \notin Workers
       /\ \A w \in Workers : w \in Threads /\ w \notin Producers /\ w # NoThread
       /\ \A t \in Threads : t # NoThread
  BY ThreadsAssumption DEF ThreadsAssumption, Threads
<1>b. \A s \in Shards : /\ Outstanding(s) \in Nat /\ totalTaskNum[s] \in Int
                        /\ Uncounted(s) \in {0, 1}
                        /\ Outstanding(s) = totalTaskNum[s] + Uncounted(s)
                        /\ Submitted(s) => Outstanding(s) > 0 \/ taskMutex[s] # NoThread
  BY OutstandingCounted DEF IInv, SubmittedIsOutstanding
<1>c. (\A s \in Shards : /\ Outstanding(s) \in Nat
                         /\ totalTaskNum[s] \in Int
                         /\ Uncounted(s) \in {0, 1}
                         /\ Outstanding(s) = totalTaskNum[s] + Uncounted(s))'
  BY NextTyped, NextTaskCount, OutstandingCounted, PTL
<1> DEFINE Good(s) == Submitted(s)' => Outstanding(s)' > 0 \/ taskMutex'[s] # NoThread
\* Neither the counter, nor the uncounted task, nor the thread that has it, nor the mutex.
<1>a. ASSUME NEW s \in Shards, Submitted(s)' => Submitted(s),
             totalTaskNum'[s] + Uncounted(s)' = totalTaskNum[s] + Uncounted(s),
             taskMutex[s] # NoThread => taskMutex'[s] # NoThread
      PROVE  Good(s)
  BY <1>a, <1>b, <1>c
<1>1. ASSUME NEW p \in Producers, ProducerStep(p), NEW s \in Shards PROVE Good(s)
  <2>1. /\ UNCHANGED <<totalTaskNum, taskMutex>>
        /\ pc[p] \notin {"count", "pop"} /\ pc'[p] \notin {"count", "pop"}
        /\ \A t \in Threads : t # p => pc'[t] = pc[t] /\ shard'[t] = shard[t]
    BY <1>0, <1>00, <1>1
       DEF ProducerStep, StartWriteAsync, StartFlush, PassLimit, LimitTimeout, Accept, FlushWait,
           Goto, locks
  <2>2. Submitted(s)' <=> Submitted(s)
    BY <2>1 DEF Submitted, At
  <2>3. Uncounted(s)' = Uncounted(s)
    BY <2>1 DEF Uncounted, At
  <2> QED
    BY <1>a, <2>1, <2>2, <2>3
<1>2. ASSUME NEW w \in Workers, WorkerStep(w), NEW s \in Shards PROVE Good(s)
  <2>1. /\ \A t \in Threads : pc'[t] = "count" <=> pc[t] = "count"
        /\ \A t \in Threads : pc'[t] = "pop" <=> pc[t] = "pop"
        /\ \A t \in Threads : pc[t] \in {"count", "pop"} => shard'[t] = shard[t]
    BY <1>0, <1>00, <1>2
       DEF WorkerStep, TakeTask, PutSucceeds, PutRetries, PutFails, TaskDone, NotifyFlushers, Goto
  <2>2. Submitted(s)' <=> Submitted(s)
    BY <2>1 DEF Submitted, At
  <2>3. Uncounted(s)' = Uncounted(s)
    BY <2>1 DEF Uncounted, At
  <2>4. CASE TaskDone(w)
    <3>1. CASE s = shard[w]
      BY <1>0, <1>00, <2>4, <3>1 DEF TaskDone
    <3>2. CASE s # shard[w]
      <4>1. totalTaskNum'[s] = totalTaskNum[s] /\ taskMutex'[s] = taskMutex[s]
        BY <1>0, <2>4, <3>2 DEF TaskDone
      <4> QED
        BY <1>a, <2>2, <2>3, <4>1
    <3> QED
      BY <3>1, <3>2
  <2>5. CASE ~ TaskDone(w)
    <3>1. UNCHANGED <<totalTaskNum, taskMutex>>
      BY <1>2, <2>5 DEF WorkerStep, TakeTask, PutSucceeds, PutRetries, PutFails, locks
    <3> QED
      BY <1>a, <2>2, <2>3, <3>1
  <2> QED
    BY <2>4, <2>5
<1>3. ASSUME NEW t \in Threads, SendNextTask(t), NEW s \in Shards PROVE Good(s)
  <2>1. /\ shard' = shard /\ shard[t] \in Shards
        /\ \A u \in Threads : u # t => pc'[u] = pc[u]
    BY <1>0, <1>3 DEF SendNextTask, ObtainPack, Submit, SubmitFull, CountTask, PopPack, Return, Goto
  <2>2. CASE s # shard[t]
    <3>1. totalTaskNum'[s] = totalTaskNum[s] /\ taskMutex'[s] = taskMutex[s]
      BY <1>0, <1>3, <2>2
         DEF SendNextTask, ObtainPack, Submit, SubmitFull, CountTask, PopPack, Return, locks
    <3>2. Submitted(s)' <=> Submitted(s)
      BY <2>1, <2>2 DEF Submitted, At
    <3>3. Uncounted(s)' = Uncounted(s)
      BY <2>1, <2>2 DEF Uncounted, At
    <3> QED
      BY <1>a, <3>1, <3>2, <3>3
  <2>3. CASE s = shard[t] /\ Submit(t)
    <3>1. pc[t] = "submit" /\ pc'[t] = "count" /\ totalTaskNum' = totalTaskNum
      BY <1>0, <2>3 DEF Submit, Goto
    <3>2. Uncounted(s) = 0
      <4>1. \A u \in Threads : ~ At(u, s, {"count"})
        BY <2>3, <3>1, SubmitterAlone DEF At, InSendNextTask
      <4> QED
        BY <4>1 DEF Uncounted
    <3>3. Uncounted(s)' = 1
      BY <2>1, <2>3, <3>1 DEF Uncounted, At
    <3> QED
      BY <1>b, <1>c, <3>1, <3>2, <3>3
  <2>4. CASE s = shard[t] /\ CountTask(t)
    <3>1. /\ pc[t] = "count" /\ pc'[t] = "pop" /\ taskMutex' = taskMutex
          /\ totalTaskNum'[s] = totalTaskNum[s] + 1
      BY <1>0, <2>4 DEF CountTask, Goto, locks
    <3>2. Uncounted(s) = 1 /\ Submitted(s)
      BY <2>4, <3>1 DEF Uncounted, At, Submitted
    <3>3. Uncounted(s)' = 0
      <4>1. \A u \in Threads : ~ At(u, s, {"count"})'
        BY <2>1, <2>4, <3>1, SubmitterAlone DEF At, InSendNextTask
      <4> QED
        BY <4>1 DEF Uncounted
    <3> QED
      BY <1>a, <1>b, <3>1, <3>2, <3>3
  <2>5. CASE s = shard[t] /\ (ObtainPack(t) \/ SubmitFull(t) \/ PopPack(t))
    <3>1. pc'[t] \notin {"count", "pop"}
      BY <1>0, <2>5 DEF ObtainPack, SubmitFull, PopPack, Return, Goto
    <3>2. \A u \in Threads : u # t => ~ At(u, s, {"count", "pop"})
      <4>1. CASE ObtainPack(t)
        BY <1>0, <1>00, <2>1, <2>5, <4>1 DEF ObtainPack, Owners, At, InSendNextTask
      <4>2. CASE SubmitFull(t) \/ PopPack(t)
        BY <2>5, <4>2, SubmitterAlone DEF SubmitFull, PopPack, At, InSendNextTask
      <4> QED
        BY <2>5, <4>1, <4>2
    <3>3. ~ Submitted(s)'
      BY <2>1, <3>1, <3>2 DEF Submitted, At
    <3> QED
      BY <3>3
  <2> QED
    BY <1>3, <2>2, <2>3, <2>4, <2>5 DEF SendNextTask
<1>4. ASSUME UNCHANGED vars, NEW s \in Shards PROVE Good(s)
  <2>1. /\ Submitted(s)' <=> Submitted(s)
        /\ Uncounted(s)' = Uncounted(s)
        /\ UNCHANGED <<totalTaskNum, taskMutex>>
    BY <1>4 DEF vars, locks, Submitted, Uncounted, At
  <2> QED
    BY <1>a, <2>1
<1> HIDE DEF Good
<1>5. \A s \in Shards : Good(s)
  BY <1>1, <1>2, <1>3, <1>4 DEF Next
<1> QED
  BY <1>5 DEF Good, SubmittedIsOutstanding

LEMMA NextSleeper == IInv /\ [Next]_vars => SleeperCounted'
<1> SUFFICES ASSUME IInv, [Next]_vars PROVE SleeperCounted'
  OBVIOUS
<1>0. /\ pc \in [Threads -> Places] /\ shard \in [Threads -> Shards]
      /\ totalTaskNum \in [Shards -> Int]
      /\ SleeperCounted
  BY DEF IInv, Typed
<1>00. /\ \A p \in Producers : p \in Threads /\ p \notin Workers
       /\ \A w \in Workers : w \in Threads /\ w \notin Producers
  BY ThreadsAssumption DEF ThreadsAssumption, Threads
<1>a. ASSUME \A s \in Shards : totalTaskNum'[s] >= totalTaskNum[s] /\ totalTaskNum'[s] \in Int,
             \A p \in Producers : pc'[p] = "asleep" => pc[p] = "asleep" /\ shard'[p] = shard[p]
      PROVE  SleeperCounted'
  BY <1>0, <1>00, <1>a DEF SleeperCounted
<1>1. ASSUME NEW p \in Producers, ProducerStep(p) PROVE SleeperCounted'
  <2>1. CASE FlushWait(p) /\ totalTaskNum[shard[p]] # 0
    <3> DEFINE s == shard[p]
    <3>1. /\ taskMutex[s] = NoThread /\ pc' = [pc EXCEPT ![p] = "asleep"]
          /\ UNCHANGED <<totalTaskNum, shard>>
      BY <2>1 DEF FlushWait, Goto
    <3>2. s \in Shards
      BY <1>0, <1>00
    <3>3. /\ Outstanding(s) \in Nat /\ totalTaskNum[s] \in Int /\ Uncounted(s) \in {0, 1}
          /\ Outstanding(s) = totalTaskNum[s] + Uncounted(s)
      BY <3>2, OutstandingCounted DEF IInv
    <3>4. Uncounted(s) = 1 => Outstanding(s) > 0
      <4>1. Uncounted(s) = 1 => Submitted(s)
        BY DEF Uncounted, Submitted, At
      <4> QED
        BY <3>1, <3>2, <4>1 DEF IInv, SubmittedIsOutstanding
    <3>5. totalTaskNum[s] > 0
      BY <2>1, <3>3, <3>4
    <3> QED
      BY <1>0, <1>00, <3>1, <3>5 DEF SleeperCounted
  <2>2. CASE ~ (FlushWait(p) /\ totalTaskNum[shard[p]] # 0)
    <3>1. /\ totalTaskNum' = totalTaskNum
          /\ \A r \in Producers : pc'[r] = "asleep" => pc[r] = "asleep" /\ shard'[r] = shard[r]
      BY <1>0, <1>00, <1>1, <2>2
         DEF ProducerStep, StartWriteAsync, StartFlush, PassLimit, LimitTimeout, Accept, FlushWait,
             Goto
    <3> QED
      BY <1>0, <1>a, <3>1
  <2> QED
    BY <2>1, <2>2
<1>2. ASSUME NEW w \in Workers, WorkerStep(w) PROVE SleeperCounted'
  <2>1. CASE TaskDone(w)
    <3>1. /\ \A p \in Producers : pc'[p] = "asleep" => pc[p] = "asleep" /\ shard[p] # shard[w]
          /\ shard' = shard
          /\ \A s \in Shards : s # shard[w] => totalTaskNum'[s] = totalTaskNum[s]
      BY <1>0, <1>00, <2>1 DEF TaskDone, NotifyFlushers
    <3> QED
      BY <1>0, <1>00, <3>1 DEF SleeperCounted
  <2>2. CASE ~ TaskDone(w)
    <3>1. /\ totalTaskNum' = totalTaskNum
          /\ \A r \in Producers : pc'[r] = "asleep" => pc[r] = "asleep" /\ shard'[r] = shard[r]
      BY <1>0, <1>00, <1>2, <2>2
         DEF WorkerStep, TakeTask, PutSucceeds, PutRetries, PutFails, Goto
    <3> QED
      BY <1>0, <1>a, <3>1
  <2> QED
    BY <2>1, <2>2
<1>3. ASSUME NEW t \in Threads, SendNextTask(t) PROVE SleeperCounted'
  <2>1. \A p \in Producers : pc'[p] = "asleep" => pc[p] = "asleep" /\ shard'[p] = shard[p]
    BY <1>0, <1>00, <1>3
       DEF SendNextTask, ObtainPack, Submit, SubmitFull, CountTask, PopPack, Return, Goto
  <2>2. totalTaskNum' = totalTaskNum \/ totalTaskNum' = [totalTaskNum EXCEPT ![shard[t]] = @ + 1]
    BY <1>3 DEF SendNextTask, ObtainPack, Submit, SubmitFull, CountTask, PopPack
  <2>3. \A s \in Shards : totalTaskNum'[s] >= totalTaskNum[s] /\ totalTaskNum'[s] \in Int
    BY <1>0, <2>2
  <2> QED
    BY <1>a, <2>1, <2>3
<1>4. CASE UNCHANGED vars
  BY <1>0, <1>a, <1>4 DEF vars
<1> QED
  BY <1>1, <1>2, <1>3, <1>4 DEF Next

----------------------------------------------------------------------------
(* The inductive invariant holds *)

LEMMA InitIInv == Init => IInv
<1> SUFFICES ASSUME Init PROVE IInv
  OBVIOUS
<1>1. Typed /\ Owners /\ TasksHashed /\ PacksFilled
  BY InitTyped, InitOwners
<1>2. \A t \in Threads : pc[t] = "idle"
  BY DEF Init
<1>3. Producers \subseteq Threads /\ \A s \in Shards : WorkerOf[s] \in Threads /\ WorkerOf[s] \in Workers
  BY WorkerOfAssumption DEF WorkerOfAssumption, Threads
<1>4. CallsDistinct
  <2>1. \A s \in Shards : accepted[s] = <<>>
    BY DEF Init
  <2>2. \A c \in Call : promise[c] = "none" /\ c[1] \in Producers /\ c[2] > 0
    BY DEF Init, Call
  <2>3. \A p \in Producers : calls[p] = 0 /\ pc[p] = "idle"
    BY <1>2, <1>3 DEF Init
  <2>4. \A s \in Shards : DOMAIN accepted[s] = {}
    BY <2>1
  <2> QED
    BY <2>2, <2>3, <2>4 DEF CallsDistinct
<1>5. ReadyBound
  <2>1. \A s \in Shards : queue[s].current = NoPack /\ Len(queue[s].ready) = 0
    BY EmptySeq DEF Init, EmptyQueue
  <2>2. \A s \in Shards : Appending(s) = {}
    BY <1>2, <1>3 DEF Appending, At
  <2>3. Cardinality({}) = 0
    BY FS_EmptySet
  <2>4. ReadyLimit \in Nat /\ Cardinality(Producers) \in Nat
    BY ReadyLimitAssumption, AppendingFinite DEF ReadyLimitAssumption, AppendingBounded
  <2> SUFFICES ASSUME NEW s \in Shards
               PROVE  Packs(queue[s]) + Cardinality(Appending(s)) <= ReadyLimit + Cardinality(Producers)
    BY DEF ReadyBound, Packs
  <2>5. Packs(queue[s]) = 0
    <3>1. Packs(queue[s]) = Len(queue[s].ready) + 0
      BY <2>1, PacksOf
    <3> QED
      BY <2>1, <3>1
  <2>6. Cardinality(Appending(s)) = 0
    BY <2>2, <2>3
  <2> QED
    BY <2>4, <2>5, <2>6
<1>6. \A s \in Shards : /\ InHand(s) = NoPack /\ ~ Submitted(s)
                        /\ queue[s].current = NoPack /\ queue[s].ready = <<>>
                        /\ tasks[WorkerOf[s]] = <<>> /\ accepted[s] = <<>>
  BY <1>2, <1>3 DEF InHand, At, Submitted, Init, EmptyQueue
<1>7. PipelineInOrder
  <2> SUFFICES ASSUME NEW s \in Shards
               PROVE  ResolvedUpTo(s, 0) /\ Flow(s) = CallsAfter(s, 0) /\ 0 \in 0 .. Len(accepted[s])
    BY <1>1, PipelineIsFlow
  <2>1. Queued(s) = <<>> /\ Waiting(s) = <<>>
    BY <1>6 DEF Queued, Waiting
  <2>2. Flow(s) = <<>> \o (<<>> \o (<<>> \o <<>>))
    BY <1>6, <2>1, FlattenEmpty DEF Flow, NoPack
  <2>3. Flow(s) = <<>>
    BY <2>2, EmptySeq, ConcatEmptySeq
  <2>4. Len(accepted[s]) = 0 /\ DOMAIN accepted[s] = {}
    BY <1>6, EmptySeq
  <2>5. CallsAfter(s, 0) = <<>>
    BY <1>6, <2>4 DEF CallsAfter
  <2> QED
    BY <2>3, <2>4, <2>5 DEF ResolvedUpTo
<1>8. TaskCountExact
  <2> SUFFICES ASSUME NEW s \in Shards
               PROVE  totalTaskNum[s] = InQueue(s) + AtWorker(s) - Uncounted(s)
    BY <1>1, TaskCountParts
  <2>1. AtWorker(s) = 0 /\ Uncounted(s) = 0
    BY <1>2, <1>3 DEF AtWorker, Uncounted, At
  <2>2. InQueue(s) = 0
    <3>1. Positions(tasks[WorkerOf[s]], TasksOf(s)) = {}
      BY <1>6 DEF Positions
    <3> QED
      BY <3>1, FS_EmptySet DEF InQueue
  <2> QED
    BY <2>1, <2>2 DEF Init
<1>9. SubmittedIsOutstanding /\ SleeperCounted
  BY <1>2, <1>3, <1>6 DEF SubmittedIsOutstanding, SleeperCounted
<1> QED
  BY <1>1, <1>4, <1>5, <1>7, <1>8, <1>9 DEF IInv

LEMMA NextIInv == IInv /\ [Next]_vars => IInv'
  BY NextTyped, NextOwners, NextTasksHashed, NextPacksFilled, NextCallsDistinct, NextReadyBound,
     NextPipeline, NextTaskCount, NextSubmitted, NextSleeper DEF IInv

LEMMA SpecIInv == Spec => []IInv
  BY InitIInv, NextIInv, PTL DEF Spec

----------------------------------------------------------------------------
(* Safety *)

\* The variables of the write path keep their types, and a ready queue exceeds
\* mMaxRecordPackQueueLimit by at most one pack per producer: AppendRecord tests the limit
\* before it locks the queue (record_pack_queue.cpp), and each producer is past that test
\* with one call at most.
THEOREM TypesKept == Spec => []TypeOK
<1>1. IInv => TypeOK
  <2> SUFFICES ASSUME IInv, NEW s \in Shards
               PROVE  Len(queue[s].ready) <= ReadyLimit + Cardinality(Producers)
    BY DEF IInv, TypeOK
  <2>1. Packs(queue[s]) + Cardinality(Appending(s)) <= ReadyLimit + Cardinality(Producers)
    BY DEF IInv, ReadyBound, Packs
  <2>2. Len(queue[s].ready) \in Nat
    BY LenProperties DEF IInv, Typed, PackQueue
  <2>3. Packs(queue[s]) \in Nat /\ Len(queue[s].ready) <= Packs(queue[s])
    BY <2>2, PacksOf
  <2>4. /\ Cardinality(Appending(s)) \in Nat /\ Cardinality(Producers) \in Nat
        /\ ReadyLimit \in Nat
    BY AppendingFinite, ReadyLimitAssumption DEF AppendingBounded, ReadyLimitAssumption
  <2> QED
    BY <2>1, <2>2, <2>3, <2>4
<1> QED
  BY <1>1, SpecIInv, PTL

\* No accepted call is lost, duplicated or overtaken between WriteAsync and the worker
\* (shard_writer.cpp:113): the invariant of the runs, for any number of producers, workers
\* and shards, any assignment of shards to workers, and any limits.
THEOREM OrderKept == Spec => []PipelineInOrder
<1>1. IInv => PipelineInOrder
  BY DEF IInv
<1> QED
  BY <1>1, SpecIInv, PTL

\* mTotalTaskNum is the number of tasks submitted and not done, short of the one whose
\* fetch_add is still to come.
THEOREM TasksCounted == Spec => []TaskCountExact
<1>1. IInv => TaskCountExact
  BY DEF IInv
<1> QED
  BY <1>1, SpecIInv, PTL

\* A Flush that sleeps on mTaskCV has a task to be woken by, although the counter may be
\* tested while a submitted task is not counted yet: mTotalTaskNum is -1 only while the
\* worker holds mTaskMutex.
THEOREM SleeperWoken == Spec => []SleeperHasTask
<1>1. IInv => SleeperHasTask
  <2> SUFFICES ASSUME IInv, NEW p \in Producers, pc[p] = "asleep"
               PROVE  totalTaskNum[shard[p]] # 0
    BY DEF SleeperHasTask
  <2>1. totalTaskNum[shard[p]] > 0
    BY DEF IInv, SleeperCounted
  <2> QED
    BY <2>1
<1> QED
  BY <1>1, SpecIInv, PTL

----------------------------------------------------------------------------
(* The write path implements OrderedDelivery *)

\* One attempt of a worker writes the oldest unresolved calls of its shard.
LEMMA AttemptIsSend ==
    ASSUME IInv, NEW w \in Workers, pc[w] = "put", UNCHANGED accepted,
           NEW stored \in BOOLEAN, Stores(w, stored),
           NEW result, Resolve(w, result) \/ (result = "pending" /\ UNCHANGED promise)
    PROVE  /\ shard[w] \in Shards
           /\ \E m \in DOMAIN accepted[shard[w]] : \E n \in m .. Len(accepted[shard[w]]) :
                 Delivery!ASend(shard[w], m, n, stored, result)
<1> DEFINE s == shard[w]
           acc == accepted[s]
           run == running[w]
<1>1. s \in Shards
  BY InHandOldest
<1>2. PICK k \in 0 .. Len(acc) : /\ Len(run) \in Nat \ {0} /\ k + Len(run) \in k .. Len(acc)
                                 /\ run = SubSeq(acc, k + 1, k + Len(run))
                                 /\ ResolvedUpTo(s, k)
  BY InHandOldest
<1>3. /\ acc \in Seq(Call) /\ run \in Seq(Call)
      /\ promise \in [Call -> {"none", "pending", "value", "exception"}]
  BY <1>1 DEF IInv, Typed
<1>4. Len(acc) \in Nat /\ DOMAIN acc = 1 .. Len(acc)
  BY <1>3, LenProperties
<1>5. k + 1 \in DOMAIN acc /\ k + Len(run) \in k + 1 .. Len(acc)
  <2> HIDE DEF acc, run
  <2> QED
    BY <1>2, <1>4
<1>6. Delivery!OldestUnresolved(s, k + 1)
  BY <1>2, <1>4 DEF Delivery!OldestUnresolved, ResolvedUpTo
<1>7. \A i \in DOMAIN run : run[i] \in Call /\ promise[run[i]] = "pending"
  <2> SUFFICES ASSUME NEW i \in DOMAIN run PROVE run[i] \in Call /\ promise[run[i]] = "pending"
    OBVIOUS
  <2>1. i \in 1 .. Len(run)
    BY <1>3, LenProperties
  <2>2. run[i] \in Call
    BY <1>3, <2>1, ElementOfSeq
  <2>3. \A j \in DOMAIN acc : promise[acc[j]] = "pending" <=> j > k
    BY <1>2 DEF ResolvedUpTo
  <2> HIDE DEF acc, run
  <2>4. run[i] = acc[k + i] /\ k + i \in DOMAIN acc /\ k + i > k
    BY <1>2, <1>4, <2>1
  <2> QED
    BY <2>2, <2>3, <2>4
<1>8. promise' = [c \in Call |-> IF \E i \in DOMAIN run : run[i] = c THEN result ELSE promise[c]]
  <2>1. CASE Resolve(w, result)
    BY <2>1 DEF Resolve
  <2>2. CASE result = "pending" /\ UNCHANGED promise
    BY <1>3, <1>7, <2>2
  <2> QED
    BY <2>1, <2>2
<1>9. log' = IF stored THEN [log EXCEPT ![s] = Append(@, run)] ELSE log
  BY DEF Stores
<1>10. Delivery!ASend(s, k + 1, k + Len(run), stored, result)
  <2> DEFINE sub == SubSeq(acc, k + 1, k + Len(run))
  <2>1. sub = run
    BY <1>2
  <2>2. promise' = [c \in Call |-> IF \E i \in DOMAIN sub : sub[i] = c THEN result ELSE promise[c]]
    BY <1>8, <2>1
  <2>3. log' = IF stored THEN [log EXCEPT ![s] = Append(@, sub)] ELSE log
    BY <1>9, <2>1
  <2> QED
    BY <1>6, <2>2, <2>3 DEF Delivery!ASend
<1> QED
  BY <1>1, <1>5, <1>10

LEMMA StepIsDelivery ==
    ASSUME IInv, [Next]_vars
    PROVE  [Delivery!ANext]_(Delivery!abstractVars)
<1> USE DEF Delivery!abstractVars
<1>0. pc \in [Threads -> Places] /\ \A p \in Producers : p \in Threads
  BY DEF IInv, Typed, Threads
<1>1. ASSUME NEW p \in Producers, ProducerStep(p)
      PROVE  Delivery!ANext \/ UNCHANGED Delivery!abstractVars
  <2>1. CASE Accept(p)
    <3> DEFINE s == shard[p]
               c == <<p, calls[p] + 1>>
    <3>1. s \in Shards /\ accepted[s] \in Seq(Call)
      BY <1>0 DEF IInv, Typed
    <3>2. c \in Call /\ promise[c] = "none"
      <4>1. calls[p] \in 0 .. MaxCalls /\ calls[p] < MaxCalls /\ CallsDistinct
        BY <2>1 DEF Accept, IInv, Typed, CallsDistinct
      <4>2. calls[p] + 1 \in 1 .. MaxCalls /\ calls[p] + 1 > calls[p]
        BY <4>1, MaxCallsAssumption DEF MaxCallsAssumption
      <4>3. c \in Call
        BY <4>2 DEF Call
      <4>4. promise[c] = "none" <=> c[2] > calls[c[1]]
        BY <4>1, <4>3 DEF CallsDistinct
      <4> QED
        BY <4>2, <4>3, <4>4
    <3>3. Delivery!AAccept(s, c)
      BY <2>1, <3>2 DEF Accept, worker, Delivery!AAccept
    <3> HIDE DEF s, c
    <3> QED
      BY <3>1, <3>2, <3>3 DEF Delivery!ANext
  <2>2. CASE ~ Accept(p)
    BY <1>1, <2>2
       DEF ProducerStep, StartWriteAsync, StartFlush, PassLimit, LimitTimeout, FlushWait, worker,
           history
  <2> QED
    BY <2>1, <2>2
<1>2. ASSUME NEW w \in Workers, WorkerStep(w)
      PROVE  Delivery!ANext \/ UNCHANGED Delivery!abstractVars
  <2>1. CASE PutSucceeds(w)
    <3>1. pc[w] = "put" /\ UNCHANGED accepted /\ Stores(w, TRUE) /\ Resolve(w, "value")
      BY <2>1 DEF PutSucceeds, history
    <3> QED
      BY <3>1, AttemptIsSend DEF Delivery!ANext
  <2>2. CASE PutRetries(w)
    <3>1. /\ pc[w] = "put" /\ UNCHANGED <<accepted, promise>>
          /\ \E stored \in BOOLEAN : Stores(w, stored)
      BY <2>2 DEF PutRetries, history
    <3> QED
      BY <3>1, AttemptIsSend DEF Delivery!ANext
  <2>3. CASE PutFails(w)
    <3>1. /\ pc[w] = "put" /\ UNCHANGED accepted /\ Resolve(w, "exception")
          /\ \E stored \in BOOLEAN : Stores(w, stored)
      BY <2>3 DEF PutFails, history
    <3> QED
      BY <3>1, AttemptIsSend DEF Delivery!ANext
  <2>4. CASE TakeTask(w) \/ TaskDone(w)
    BY <2>4 DEF TakeTask, TaskDone, history
  <2> QED
    BY <1>2, <2>1, <2>2, <2>3, <2>4 DEF WorkerStep
<1>3. ASSUME NEW t \in Threads, SendNextTask(t) PROVE UNCHANGED Delivery!abstractVars
  BY <1>3 DEF SendNextTask, ObtainPack, Submit, SubmitFull, CountTask, PopPack, worker, history
<1>4. CASE UNCHANGED vars
  BY <1>4 DEF vars, worker, history
<1> QED
  BY <1>1, <1>2, <1>3, <1>4 DEF Next

\* What the producer promises about asynchronous writes (OrderedDelivery): calls are accepted
\* one after the other, and every attempt of WriteOnce writes a run of the oldest unresolved
\* calls of the shard, whose promises get one result together, a value only after the
\* service has stored that run.
THEOREM DeliveryImplemented == Spec => DeliverySpec
<1>1. Init => Delivery!AInit
  BY DEF Init, Delivery!AInit
<1>2. IInv /\ [Next]_vars => [Delivery!ANext]_(Delivery!abstractVars)
  BY StepIsDelivery
<1> QED
  BY <1>1, <1>2, SpecIInv, PTL DEF Spec, DeliverySpec, Delivery!ASpec

----------------------------------------------------------------------------
(* Flush, when no two shards share a worker *)

\* A call that is resolved stays so, and accepted calls stay where they are.
LEMMA NextResolved ==
    ASSUME IInv, [Next]_vars, NEW s \in Shards
    PROVE  /\ Len(accepted[s]) \in Nat /\ Len(accepted'[s]) \in Nat
           /\ Len(accepted[s]) <= Len(accepted'[s])
           /\ \A n \in 0 .. Len(accepted[s]) : Resolved(s, n) => Resolved(s, n)'
<1> DEFINE acc == accepted[s]
           new == accepted'[s]
<1>1. acc \in Seq(Call) /\ Len(acc) \in Nat /\ DOMAIN acc = 1 .. Len(acc)
  BY LenProperties DEF IInv, Typed
<1>2. \A i \in 1 .. Len(acc) : acc[i] \in Call /\ promise[acc[i]] # "none"
  BY <1>1, ElementOfSeq DEF IInv, CallsDistinct
<1>3. promise \in [Call -> {"none", "pending", "value", "exception"}]
  BY DEF IInv, Typed
<1>4. /\ Len(new) \in Nat /\ Len(acc) <= Len(new)
      /\ \A i \in 1 .. Len(acc) :
            /\ new[i] = acc[i]
            /\ promise[acc[i]] # "pending" => promise'[acc[i]] # "pending"
  <2>1. CASE Kept(s)
    BY <1>1, <2>1 DEF Kept
  <2>2. ASSUME NEW c \in Call, Accepts(s, c)
        PROVE  /\ Len(new) \in Nat /\ Len(acc) <= Len(new)
               /\ \A i \in 1 .. Len(acc) :
                     /\ new[i] = acc[i]
                     /\ promise[acc[i]] # "pending" => promise'[acc[i]] # "pending"
    <3>1. /\ new = Append(acc, c) /\ promise[c] = "none"
          /\ promise' = [promise EXCEPT ![c] = "pending"]
      BY <2>2 DEF Accepts
    <3>2. Len(new) = Len(acc) + 1 /\ \A i \in 1 .. Len(acc) : new[i] = acc[i]
      BY <1>1, <3>1, AppendProperties
    <3>3. \A i \in 1 .. Len(acc) : promise'[acc[i]] = promise[acc[i]]
      BY <1>2, <1>3, <3>1
    <3> HIDE DEF acc, new
    <3> QED
      BY <1>1, <3>2, <3>3
  <2>3. ASSUME NEW w \in Workers, NEW result \in {"value", "exception"},
               Resolves(s, running[w], result)
        PROVE  /\ Len(new) \in Nat /\ Len(acc) <= Len(new)
               /\ \A i \in 1 .. Len(acc) :
                     /\ new[i] = acc[i]
                     /\ promise[acc[i]] # "pending" => promise'[acc[i]] # "pending"
    BY <1>1, <1>2, <2>3 DEF Resolves
  <2> QED
    BY <2>1, <2>2, <2>3, NextFlow
<1>5. ASSUME NEW n \in 0 .. Len(acc), Resolved(s, n) PROVE Resolved(s, n)'
  <2>1. \A i \in 1 .. n : i \in 1 .. Len(acc)
    BY <1>1
  <2>2. \A i \in 1 .. n : promise[acc[i]] # "pending"
    BY <1>5 DEF Resolved
  <2>3. ASSUME NEW i \in 1 .. n PROVE promise'[new[i]] # "pending"
    <3>1. i \in 1 .. Len(acc) /\ promise[acc[i]] # "pending"
      BY <2>1, <2>2
    <3>2. new[i] = acc[i] /\ promise'[acc[i]] # "pending"
      <4> HIDE DEF acc, new
      <4> QED
        BY <1>4, <3>1
    <3> QED
      BY <3>2
  <2> QED
    BY <2>3 DEF Resolved
<1> QED
  BY <1>1, <1>4, <1>5

\* A call leaves the current pack for the ready queue, and never comes back.
LEMMA CurrentChange ==
    ASSUME NEW q \in PackQueue(Call), NEW timeUp \in BOOLEAN
    PROVE  /\ Len(q.current) \in Nat
           /\ \A c \in Call : /\ Len(AppendRecord(q, c, timeUp).current) \in Nat
                              /\ Len(AppendRecord(q, c, timeUp).current) <= Len(q.current) + 1
           /\ \A force \in BOOLEAN :
                 \/ Len(MakeReady(q, force, timeUp).current) = 0
                 \/ ~force /\ MakeReady(q, force, timeUp).current = q.current
           /\ PopBackRecordPack(q).current = q.current
<1>1. q.current \in Seq(Call) /\ Len(q.current) \in Nat /\ Len(NoPack) = 0
  BY LenProperties, EmptySeq DEF PackQueue, NoPack
<1>2. ASSUME NEW c \in Call
      PROVE  /\ Len(AppendRecord(q, c, timeUp).current) \in Nat
             /\ Len(AppendRecord(q, c, timeUp).current) <= Len(q.current) + 1
  <2> DEFINE r == AppendRecord(q, c, timeUp).current
  <2>1. Len(<<c>>) = 1 /\ Len(Append(q.current, c)) = Len(q.current) + 1
    BY <1>1, AppendProperties
  <2>2. r = <<c>> \/ r = Append(q.current, c) \/ r = NoPack
    BY AppendRecordCases
  <2> HIDE DEF r
  <2>3. Len(r) = 1 \/ Len(r) = Len(q.current) + 1 \/ Len(r) = 0
    BY <1>1, <2>1, <2>2
  <2>4. Len(r) \in Nat /\ Len(r) <= Len(q.current) + 1
    <3> DEFINE n == Len(q.current)
               m == Len(r)
    <3>1. n \in Nat /\ (m = 1 \/ m = n + 1 \/ m = 0)
      BY <1>1, <2>3
    <3> HIDE DEF n, m
    <3>2. m \in Nat /\ m <= n + 1
      BY <3>1
    <3> QED
      BY <3>2 DEF n, m
  <2> QED
    BY <2>4 DEF r
<1>3. ASSUME NEW force \in BOOLEAN
      PROVE  \/ Len(MakeReady(q, force, timeUp).current) = 0
             \/ ~force /\ MakeReady(q, force, timeUp).current = q.current
  BY <1>1, MakeReadyCases
<1>4. PopBackRecordPack(q).current = q.current
  BY DEF PopBackRecordPack, PackQueue
<1> QED
  BY <1>1, <1>2, <1>3, <1>4

LEMMA NextLeft ==
    ASSUME IInv, [Next]_vars, NEW s \in Shards
    PROVE  /\ Left(s) \in Int /\ Left(s)' \in Int /\ Left(s) <= Left(s)'
           /\ \A p \in Producers : ObtainPack(p) /\ flushing[p] /\ shard[p] = s =>
                                       Left(s)' = Len(accepted[s])
<1> DEFINE q == queue[s]
           r == queue'[s]
<1>0. /\ pc \in [Threads -> Places] /\ shard \in [Threads -> Shards]
      /\ queue \in [Shards -> PackQueue(Call)] /\ queue' \in [Shards -> PackQueue(Call)]
      /\ flushing \in [Producers -> BOOLEAN]
      /\ accepted \in [Shards -> Seq(Call)]
  BY NextTyped DEF IInv, Typed
<1>00. \A p \in Producers : p \in Threads
  BY DEF Threads
<1>1. q \in PackQueue(Call) /\ Len(q.current) \in Nat /\ Len(r.current) \in Nat
  BY <1>0, CurrentChange
<1>2. Len(accepted[s]) \in Nat /\ Len(accepted'[s]) \in Nat
  BY NextResolved
<1>a. Left(s) = Len(accepted[s]) - Len(q.current) /\ Left(s)' = Len(accepted'[s]) - Len(r.current)
  BY DEF Left
<1>3. ASSUME NEW p \in Producers, ProducerStep(p) PROVE Left(s) <= Left(s)'
  <2>1. CASE Accept(p)
    <3> DEFINE c == <<p, calls[p] + 1>>
    <3>1. /\ \E timeUp \in BOOLEAN : queue' = [queue EXCEPT ![shard[p]] = AppendRecord(@, c, timeUp)]
          /\ accepted' = [accepted EXCEPT ![shard[p]] = Append(@, c)]
          /\ pc[p] = "append"
      BY <2>1 DEF Accept
    <3>2. CASE s # shard[p]
      <4>1. r = q /\ accepted'[s] = accepted[s]
        BY <1>0, <3>1, <3>2
      <4> QED
        BY <1>1, <1>2, <1>a, <4>1
    <3>3. CASE s = shard[p]
      <4>1. c \in Call
        <5>1. calls[p] \in 0 .. MaxCalls /\ calls[p] < MaxCalls
          BY <3>1 DEF IInv, Typed, CallsDistinct
        <5>2. calls[p] + 1 \in 1 .. MaxCalls
          BY <5>1, MaxCallsAssumption DEF MaxCallsAssumption
        <5> QED
          BY <5>2 DEF Call
      <4> HIDE DEF c
      <4>2. PICK timeUp \in BOOLEAN : r = AppendRecord(q, c, timeUp)
        BY <1>0, <3>1, <3>3
      <4>3. Len(r.current) <= Len(q.current) + 1
        BY <1>1, <4>1, <4>2, CurrentChange
      <4>4. Len(accepted'[s]) = Len(accepted[s]) + 1
        <5>1. accepted'[s] = Append(accepted[s], c) /\ accepted[s] \in Seq(Call)
          BY <1>0, <3>1, <3>3
        <5> QED
          BY <4>1, <5>1, AppendProperties
      <4> DEFINE a == Len(q.current)
                 b == Len(r.current)
                 n == Len(accepted[s])
      <4>5. /\ a \in Nat /\ b \in Nat /\ n \in Nat /\ b <= a + 1
            /\ Left(s) = n - a /\ Left(s)' = n + 1 - b
        BY <1>1, <1>2, <1>a, <4>3, <4>4
      <4> HIDE DEF a, b, n
      <4> QED
        BY <4>5
    <3> QED
      BY <3>2, <3>3
  <2>2. CASE ~ Accept(p)
    <3>1. queue' = queue /\ accepted' = accepted
      BY <1>3, <2>2
         DEF ProducerStep, StartWriteAsync, StartFlush, PassLimit, LimitTimeout, FlushWait, history
    <3> QED
      BY <1>1, <1>2, <1>a, <3>1
  <2> QED
    BY <2>1, <2>2
<1>4. ASSUME NEW w \in Workers, WorkerStep(w) PROVE Left(s) <= Left(s)'
  <2>1. queue' = queue /\ accepted' = accepted
    BY <1>4 DEF WorkerStep, TakeTask, PutSucceeds, PutRetries, PutFails, TaskDone, history
  <2> QED
    BY <1>1, <1>2, <1>a, <2>1
<1>5. ASSUME NEW t \in Threads, SendNextTask(t)
      PROVE  /\ accepted' = accepted
             /\ r.current = q.current \/ Len(r.current) = 0
             /\ t \in Producers /\ ObtainPack(t) /\ flushing[t] /\ shard[t] = s => Len(r.current) = 0
  <2>1. accepted' = accepted /\ shard[t] \in Shards
    BY <1>0, <1>5 DEF SendNextTask, ObtainPack, Submit, SubmitFull, CountTask, PopPack, history
  <2>2. CASE ObtainPack(t)
    <3>1. PICK timeUp \in BOOLEAN :
              queue' = [queue EXCEPT ![shard[t]] = MakeReady(@, Forced(t), timeUp)]
      BY <2>2 DEF ObtainPack
    <3>2. Forced(t) \in BOOLEAN /\ (t \in Producers /\ flushing[t] => Forced(t))
      BY <1>0 DEF Forced
    <3>3. CASE s = shard[t]
      <4>1. r = MakeReady(q, Forced(t), timeUp)
        BY <1>0, <3>1, <3>3
      <4>2. Len(r.current) = 0 \/ (~Forced(t) /\ r.current = q.current)
        BY <1>1, <3>2, <4>1, CurrentChange
      <4> QED
        BY <2>1, <3>2, <4>2
    <3>4. CASE s # shard[t]
      <4>1. r = q
        BY <1>0, <2>1, <3>1, <3>4
      <4> QED
        BY <2>1, <3>4, <4>1
    <3> QED
      BY <3>3, <3>4
  <2>3. CASE ~ ObtainPack(t)
    <3>1. queue' = queue \/ queue' = [queue EXCEPT ![shard[t]] = PopBackRecordPack(@)]
      BY <1>5, <2>3 DEF SendNextTask, Submit, SubmitFull, CountTask, PopPack
    <3>2. r = q \/ r = PopBackRecordPack(q)
      BY <1>0, <2>1, <3>1
    <3>3. r.current = q.current
      BY <1>1, <3>2, CurrentChange
    <3> QED
      BY <2>1, <2>3, <3>3
  <2> QED
    BY <2>2, <2>3
<1>6. ASSUME NEW t \in Threads, SendNextTask(t) PROVE Left(s) <= Left(s)'
  <2>1. accepted' = accepted /\ (r.current = q.current \/ Len(r.current) = 0)
    BY <1>5, <1>6
  <2> HIDE DEF q, r
  <2>2. Len(r.current) <= Len(q.current)
    BY <1>1, <2>1
  <2> QED
    BY <1>1, <1>2, <1>a, <2>1, <2>2
<1>7. ASSUME UNCHANGED vars PROVE Left(s) <= Left(s)'
  <2>1. queue' = queue /\ accepted' = accepted
    BY <1>7 DEF vars, history
  <2> QED
    BY <1>1, <1>2, <1>a, <2>1
<1>8. ASSUME NEW p \in Producers, ObtainPack(p), flushing[p], shard[p] = s
      PROVE  Left(s)' = Len(accepted[s])
  <2>1. accepted' = accepted /\ Len(r.current) = 0
    BY <1>00, <1>5, <1>8 DEF SendNextTask
  <2> QED
    BY <1>2, <1>a, <2>1
<1>9. Left(s) \in Int /\ Left(s)' \in Int
  BY <1>1, <1>2, <1>a
<1>10. Left(s) <= Left(s)'
  BY <1>3, <1>4, <1>6, <1>7 DEF Next
<1>11. \A p \in Producers : ObtainPack(p) /\ flushing[p] /\ shard[p] = s =>
                                 Left(s)' = Len(accepted[s])
  BY <1>8
<1> QED
  BY <1>9, <1>10, <1>11, Zenon

\* A worker has a task of the shard if and only if one is counted as queued.
LEMMA InQueueCounts ==
    Typed => \A s \in Shards :
        /\ InQueue(s) \in Nat
        /\ InQueue(s) = 0 <=> \A i \in DOMAIN tasks[WorkerOf[s]] : tasks[WorkerOf[s]][i].shard # s
<1> SUFFICES ASSUME Typed, NEW s \in Shards
             PROVE  /\ InQueue(s) \in Nat
                    /\ InQueue(s) = 0 <=> \A i \in DOMAIN tasks[WorkerOf[s]] :
                                             tasks[WorkerOf[s]][i].shard # s
  OBVIOUS
<1> DEFINE seq == tasks[WorkerOf[s]]
<1>1. seq \in Seq(Task)
  BY WorkerOfAssumption DEF WorkerOfAssumption, Typed
<1>2. \A i \in DOMAIN seq : seq[i] \in Task
  BY <1>1, ElementOfSeq, LenProperties
<1>3. /\ Cardinality(Positions(seq, TasksOf(s))) \in Nat
      /\ Cardinality(Positions(seq, TasksOf(s))) = 0 <=> Positions(seq, TasksOf(s)) = {}
  BY <1>1, PositionsFinite
<1>4. Positions(seq, TasksOf(s)) = {} <=> \A i \in DOMAIN seq : seq[i].shard # s
  BY <1>2 DEF Positions, TasksOf
<1> QED
  BY <1>3, <1>4 DEF InQueue

\* With one shard per worker, a shard that has neither an outstanding task nor a ready pack
\* has resolved every call that left its current pack.
LEMMA Drained ==
    IInv => (OneShardPerWorker => \A s \in Shards :
                Outstanding(s) = 0 /\ queue[s].ready = <<>> => Resolved(s, Left(s)))
<1> SUFFICES ASSUME IInv, OneShardPerWorker, NEW s \in Shards,
                    Outstanding(s) = 0, queue[s].ready = <<>>
             PROVE  Resolved(s, Left(s))
  OBVIOUS
<1> DEFINE w == WorkerOf[s]
<1>1. Typed /\ PacksFilled /\ TasksHashed /\ w \in Workers
  BY WorkerOfAssumption DEF WorkerOfAssumption, IInv
<1>2. InQueue(s) = 0 /\ AtWorker(s) = 0
  <2>1. InQueue(s) \in Nat /\ AtWorker(s) \in Nat /\ InQueue(s) + AtWorker(s) = 0
    BY <1>1, OutstandingParts DEF AtWorker
  <2> QED
    BY <2>1
<1>3. tasks[w] = <<>>
  <2>1. tasks[w] \in Seq(Task) /\ \A i \in DOMAIN tasks[w] : tasks[w][i] \in Task
    BY <1>1, ElementOfSeq, LenProperties DEF Typed
  <2>2. \A i \in DOMAIN tasks[w] : tasks[w][i].shard = s
    BY <1>1, <2>1 DEF TasksHashed, OneShardPerWorker, Task
  <2>3. DOMAIN tasks[w] = {}
    BY <1>1, <1>2, <2>2, InQueueCounts
  <2>4. Len(tasks[w]) \in Nat /\ 1 .. Len(tasks[w]) = {}
    BY <2>1, <2>3, LenProperties
  <2>5. Len(tasks[w]) = 0
    BY <2>4
  <2> QED
    BY <2>1, <2>5, EmptySeq
<1>4. FlattenSeq(Queued(s)) = <<>>
  <2>1. Queued(s) \in Seq(Seq(Call)) /\ DOMAIN Queued(s) = {}
    <3>1. DOMAIN Queued(s) = DOMAIN tasks[w]
      BY DEF Queued
    <3> QED
      BY <1>1, <1>3, <3>1, FlowTypes DEF FlowTyped
  <2>2. Len(Queued(s)) = 0
    <3> DEFINE n == Len(Queued(s))
    <3>1. n \in Nat /\ 1 .. n = {}
      BY <2>1, LenProperties
    <3> HIDE DEF n
    <3>2. n = 0
      BY <3>1
    <3> QED
      BY <3>2 DEF n
  <2>3. Queued(s) = <<>>
    BY <2>1, <2>2, EmptySeq
  <2> QED
    BY <2>3, FlattenEmpty
<1>5. FlattenSeq(Waiting(s)) = <<>>
  <2>1. ~Submitted(s)
    BY <1>1 DEF PacksFilled, Submitted, At, InSendNextTask
  <2> QED
    BY <2>1, FlattenEmpty DEF Waiting
<1>6. InHand(s) = <<>>
  BY <1>2 DEF AtWorker, InHand, At, NoPack
<1>7. queue[s].current \in Seq(Call) /\ accepted[s] \in Seq(Call)
  BY <1>1 DEF Typed, PackQueue
<1>8. Flow(s) = queue[s].current
  BY <1>4, <1>5, <1>6, <1>7, ConcatEmptySeq DEF Flow
<1>9. PICK k \in 0 .. Len(accepted[s]) : ResolvedUpTo(s, k) /\ Flow(s) = CallsAfter(s, k)
  BY <1>1, PipelineIsFlow DEF IInv
<1>10. Left(s) = k
  <2> DEFINE n == Len(accepted[s])
  <2>1. n \in Nat /\ k \in 0 .. n
    BY <1>7, <1>9, LenProperties
  <2>2. queue[s].current = SubSeq(accepted[s], k + 1, n)
    BY <1>8, <1>9 DEF CallsAfter
  <2>3. Len(SubSeq(accepted[s], k + 1, n)) = n - k
    <3>1. k + 1 \in Int /\ n \in Int /\ \A i \in k + 1 .. n : i \in 1 .. n
      BY <2>1
    <3>2. \A i \in k + 1 .. n : accepted[s][i] \in Call
      BY <1>7, <3>1, ElementOfSeq
    <3>3. Len(SubSeq(accepted[s], k + 1, n)) = IF k + 1 <= n THEN n - (k + 1) + 1 ELSE 0
      BY <3>1, <3>2, SubSeqProperties
    <3> HIDE DEF n
    <3> QED
      BY <2>1, <3>3
  <2>4. Left(s) = n - (n - k)
    BY <2>2, <2>3 DEF Left
  <2> HIDE DEF n
  <2> QED
    BY <2>1, <2>4
<1>11. \A i \in 1 .. k : promise[accepted[s][i]] # "pending"
  <2>1. DOMAIN accepted[s] = 1 .. Len(accepted[s]) /\ Len(accepted[s]) \in Nat
    BY <1>7, LenProperties
  <2>2. ASSUME NEW i \in 1 .. k PROVE i \in DOMAIN accepted[s] /\ ~ (i > k)
    BY <1>9, <2>1
  <2> QED
    BY <1>9, <2>2 DEF ResolvedUpTo
<1> QED
  BY <1>10, <1>11 DEF Resolved


\* Where SendNextTask returns, what has left the current pack is counted, or resolved.
LEMMA ReturnCovered ==
    ASSUME IInv, SubmitterHasTask, OneShardPerWorker, [Next]_vars,
           NEW t \in Threads, SendNextTask(t), pc'[t] \notin InSendNextTask
    PROVE  \/ totalTaskNum[shard[t]] > 0
           \/ t \in Producers /\ taskMutex[shard[t]] # NoThread
           \/ Resolved(shard[t], Left(shard[t]))'
<1>d. (IInv => (OneShardPerWorker => \A s \in Shards :
                Outstanding(s) = 0 /\ queue[s].ready = <<>> => Resolved(s, Left(s))))'
  BY Drained, PTL
<1>c. (\A s \in Shards : /\ Outstanding(s) \in Nat
                         /\ totalTaskNum[s] \in Int
                         /\ Uncounted(s) \in {0, 1}
                         /\ Outstanding(s) = totalTaskNum[s] + Uncounted(s))'
  BY NextTyped, NextTaskCount, OutstandingCounted, PTL
<1>i. IInv'
  BY NextIInv
<1> DEFINE s == shard[t]
           w == WorkerOf[s]
<1>0. /\ Typed /\ Owners /\ TasksHashed /\ SubmittedIsOutstanding
      /\ pc \in [Threads -> Places] /\ s \in Shards /\ w \in Workers
      /\ tasks[w] \in Seq(Task)
      /\ \A i \in DOMAIN tasks[w] : tasks[w][i] \in Task
  <2>1. Typed /\ Owners /\ TasksHashed /\ SubmittedIsOutstanding
    BY DEF IInv
  <2>2. pc \in [Threads -> Places] /\ s \in Shards
    BY <2>1 DEF Typed
  <2>3. w \in Workers /\ tasks[w] \in Seq(Task)
    BY <2>1, <2>2, WorkerOfAssumption DEF Typed, WorkerOfAssumption
  <2> QED
    BY <2>1, <2>2, <2>3, ElementOfSeq, LenProperties
<1>1. /\ Outstanding(s) \in Nat /\ totalTaskNum[s] \in Int
      /\ Uncounted(s) \in {0, 1}
      /\ Outstanding(s) = totalTaskNum[s] + Uncounted(s)
      /\ Submitted(s) => Outstanding(s) > 0 \/ taskMutex[s] # NoThread
  BY <1>0, OutstandingCounted DEF IInv, SubmittedIsOutstanding
\* The thread that holds mSendMutex and is past its count is the only one that counts.
<1>2. ASSUME pc[t] \in {"submit", "pop"} PROVE Uncounted(s) = 0
  <2>1. \A u \in Threads : u # t => ~ At(u, s, InSendNextTask)
    BY <1>2, SubmitterAlone DEF InSendNextTask
  <2> QED
    BY <1>2, <2>1 DEF Uncounted, At, InSendNextTask
<1>3. ASSUME NEW i \in DOMAIN tasks[w], tasks[w][i].shard = s PROVE Outstanding(s) > 0
  <2>1. InQueue(s) \in Nat /\ InQueue(s) # 0
    BY <1>0, <1>3, InQueueCounts
  <2>2. Outstanding(s) = InQueue(s) + AtWorker(s) /\ AtWorker(s) \in Nat
    BY <1>0, OutstandingParts DEF AtWorker
  <2> QED
    BY <2>1, <2>2
<1>4. CASE ObtainPack(t)
  <2>1. /\ sendMutex[s] = NoThread /\ FrontPack(queue'[s]) = NoPack
        /\ UNCHANGED <<sendMutex, totalTaskNum, shard>>
    BY <1>0, <1>4 DEF ObtainPack, InSendNextTask, Goto
  <2>2. queue'[s].ready = <<>>
    <3>1. queue'[s] \in PackQueue(Call) /\ (queue'[s].ready # <<>> => queue'[s].ready[1] # NoPack)
      <4>1. Typed' /\ PacksFilled'
        BY <1>i DEF IInv
      <4>2. queue'[s] \in PackQueue(Call)
        BY <1>0, <4>1 DEF Typed
      <4>3. queue'[s].ready # <<>> => 1 \in DOMAIN queue'[s].ready
        <5>1. queue'[s].ready \in Seq(Seq(Call))
          BY <4>2 DEF PackQueue
        <5> QED
          BY <5>1, EmptySeq, LenProperties
      <4> QED
        BY <1>0, <4>1, <4>2, <4>3 DEF PacksFilled
    <3>2. queue'[s].ready # <<>> => Head(queue'[s].ready) = queue'[s].ready[1]
      BY <3>1, HeadTailProperties DEF PackQueue
    <3> QED
      BY <2>1, <3>1, <3>2 DEF FrontPack
  <2>3. Uncounted(s)' = 0
    <3>1. \A u \in Threads : u # NoThread
      BY ThreadsAssumption DEF ThreadsAssumption, Threads
    <3>2. \A u \in Threads : ~ At(u, s, InSendNextTask)'
      BY <1>0, <1>i, <2>1, <3>1 DEF IInv, Owners
    <3> QED
      BY <3>2 DEF Uncounted, At, InSendNextTask
  <2>4. /\ Outstanding(s)' \in Nat /\ totalTaskNum[s] \in Int
        /\ Outstanding(s)' = totalTaskNum[s] + Uncounted(s)'
    BY <1>0, <1>1, <1>c, <2>1
  <2>5. totalTaskNum[s] > 0 \/ Outstanding(s)' = 0
    BY <2>3, <2>4
  <2>6. Outstanding(s)' = 0 => Resolved(s, Left(s))'
    BY <1>0, <1>d, <1>i, <2>1, <2>2
  <2> QED
    BY <2>1, <2>5, <2>6
<1>5. CASE SubmitFull(t)
  <2>1. pc[t] = "submit" /\ Len(tasks[w]) >= QueueLimit
    BY <1>5 DEF SubmitFull
  <2>2. 1 \in DOMAIN tasks[w]
    BY <1>0, <2>1, LenProperties, QueueLimitAssumption DEF QueueLimitAssumption
  <2>3. tasks[w][1].shard = s
    BY <1>0, <2>2 DEF TasksHashed, OneShardPerWorker, Task
  <2>4. Outstanding(s) > 0 /\ Uncounted(s) = 0
    BY <1>2, <1>3, <2>1, <2>2, <2>3
  <2> QED
    BY <1>1, <2>4
<1>6. CASE PopPack(t)
  <2>1. pc[t] = "pop" /\ Uncounted(s) = 0
    BY <1>2, <1>6 DEF PopPack
  <2>2. t \in Producers => Outstanding(s) > 0 \/ taskMutex[s] # NoThread
    BY <1>1, <2>1 DEF Submitted, At
  <2>3. t \in Workers => Outstanding(s) > 0
    <3> SUFFICES ASSUME t \in Workers PROVE Outstanding(s) > 0
      OBVIOUS
    <3>1. w = t
      BY <1>0, <2>1 DEF TasksHashed
    <3> QED
      BY <1>3, <2>1, <3>1 DEF SubmitterHasTask
  <2> QED
    BY <1>1, <2>1, <2>2, <2>3 DEF Threads
<1>7. ~ Submit(t) /\ ~ CountTask(t)
  BY <1>0 DEF Submit, CountTask, Goto, InSendNextTask
<1> QED
  BY <1>4, <1>5, <1>6, <1>7 DEF SendNextTask


\* FlushTarget, for one producer.
TargetOf(p) ==
    /\ pc[p] \in {"idle", "check", "append"} => ~flushing[p]
    /\ pc[p] \in {"wait", "asleep"} => flushing[p]
    /\ ~flushing[p] => target[p] = 0
    /\ target[p] <= Len(accepted[shard[p]])
    /\ flushing[p] /\ pc[p] # "send" => target[p] <= Left(shard[p])

\* Another thread's step lets a producer be, or wakes it.
Elsewhere(p) ==
    /\ UNCHANGED <<flushing[p], target[p], shard[p]>>
    /\ \/ pc'[p] = pc[p]
       \/ pc[p] = "asleep" /\ pc'[p] = "wait"

LEMMA OthersElsewhere ==
    ASSUME Typed, NEW p \in Producers, [Next]_vars,
           ~ ProducerStep(p), ~ SendNextTask(p)
    PROVE  Elsewhere(p)
<1>0. /\ pc \in [Threads -> Places] /\ shard \in [Threads -> Shards]
      /\ flushing \in [Producers -> BOOLEAN] /\ target \in [Producers -> Nat]
  BY DEF Typed
<1>00. /\ \A q \in Producers : q \in Threads /\ q \notin Workers
       /\ \A w \in Workers : w \in Threads /\ w \notin Producers
  BY ThreadsAssumption DEF ThreadsAssumption, Threads
<1>1. ASSUME NEW q \in Producers, ProducerStep(q) PROVE Elsewhere(p)
  BY <1>0, <1>00, <1>1
     DEF ProducerStep, StartWriteAsync, StartFlush, PassLimit, LimitTimeout, Accept, FlushWait,
         Goto, history, Elsewhere
<1>2. ASSUME NEW w \in Workers, WorkerStep(w) PROVE Elsewhere(p)
  <2>1. CASE TaskDone(w)
    BY <1>0, <1>00, <2>1 DEF TaskDone, NotifyFlushers, history, Elsewhere
  <2>2. CASE ~ TaskDone(w)
    BY <1>0, <1>00, <1>2, <2>2
       DEF WorkerStep, TakeTask, PutSucceeds, PutRetries, PutFails, Goto, history, Elsewhere
  <2> QED
    BY <2>1, <2>2
<1>3. ASSUME NEW t \in Threads, SendNextTask(t) PROVE Elsewhere(p)
  <2>1. t # p /\ UNCHANGED <<flushing, target, shard>>
    BY <1>3 DEF SendNextTask, ObtainPack, Submit, SubmitFull, CountTask, PopPack, history
  <2>2. pc'[p] = pc[p]
    BY <1>0, <1>00, <1>3, <2>1
       DEF SendNextTask, ObtainPack, Submit, SubmitFull, CountTask, PopPack, Return, Goto
  <2> QED
    BY <2>1, <2>2 DEF Elsewhere
<1>4. CASE UNCHANGED vars
  BY <1>4 DEF vars, history, Elsewhere
<1> QED
  BY <1>1, <1>2, <1>3, <1>4 DEF Next

LEMMA NextFlushTarget == IInv /\ FlushTarget /\ [Next]_vars => FlushTarget'
<1> SUFFICES ASSUME IInv, FlushTarget, [Next]_vars, NEW p \in Producers PROVE TargetOf(p)'
  BY DEF FlushTarget, TargetOf
<1>0. /\ pc \in [Threads -> Places] /\ shard \in [Threads -> Shards]
      /\ flushing \in [Producers -> BOOLEAN] /\ target \in [Producers -> Nat]
      /\ accepted \in [Shards -> Seq(Call)]
      /\ p \in Threads /\ shard[p] \in Shards /\ target[p] \in Nat
      /\ pc[p] \in ProducerPlaces
  BY DEF IInv, Typed, Owners, Threads
<1>1. TargetOf(p)
  BY DEF FlushTarget, TargetOf
<1>2. \A s \in Shards : /\ Len(accepted[s]) \in Nat /\ Len(accepted'[s]) \in Nat
                        /\ Len(accepted[s]) <= Len(accepted'[s])
  BY NextResolved
<1>3. \A s \in Shards : /\ Left(s) \in Int /\ Left(s)' \in Int /\ Left(s) <= Left(s)'
                        /\ ObtainPack(p) /\ flushing[p] /\ shard[p] = s =>
                               Left(s)' = Len(accepted[s])
  BY NextLeft
\* The shard is the same and the place does not become one where more is promised.
<1>4. ASSUME UNCHANGED <<flushing[p], target[p], shard[p]>>,
             pc[p] = "send" /\ pc'[p] # "send" => ObtainPack(p) \/ ~flushing[p],
             pc'[p] \in {"idle", "check", "append"} => ~flushing[p],
             pc'[p] \in {"wait", "asleep"} => flushing[p]
      PROVE  TargetOf(p)'
  <2> DEFINE s == shard[p]
  <2>1. Left(shard[p])' = Left(s)'
    BY <1>4 DEF Left
  <2>2. target[p] <= Len(accepted'[s])
    BY <1>0, <1>1, <1>2 DEF TargetOf
  <2>3. flushing[p] /\ pc'[p] # "send" => target[p] <= Left(s)'
    <3> SUFFICES ASSUME flushing[p], pc'[p] # "send" PROVE target[p] <= Left(s)'
      OBVIOUS
    <3>1. CASE pc[p] = "send"
      <4>1. Left(s)' = Len(accepted[s])
        BY <1>0, <1>3, <1>4, <3>1
      <4> QED
        BY <1>1, <4>1 DEF TargetOf
    <3>2. CASE pc[p] # "send"
      <4>1. target[p] <= Left(s) /\ Left(s) <= Left(s)' /\ Left(s) \in Int /\ Left(s)' \in Int
        BY <1>0, <1>1, <1>3, <1>4, <3>2 DEF TargetOf
      <4> QED
        BY <1>0, <4>1
    <3> QED
      BY <3>1, <3>2
  <2> QED
    BY <1>1, <1>4, <2>1, <2>2, <2>3 DEF TargetOf
<1>5. ASSUME ProducerStep(p) PROVE TargetOf(p)'
  <2>1. ASSUME NEW r \in Shards, StartWriteAsync(p, r) PROVE TargetOf(p)'
    <3>1. /\ ~flushing'[p] /\ target'[p] = 0 /\ shard'[p] = r /\ pc'[p] = "check"
          /\ accepted' = accepted
      BY <1>0, <1>1, <2>1 DEF TargetOf, StartWriteAsync, Goto, history
    <3> QED
      BY <1>2, <3>1 DEF TargetOf
  <2>2. ASSUME NEW r \in Shards, StartFlush(p, r) PROVE TargetOf(p)'
    <3>1. /\ flushing'[p] /\ target'[p] = Len(accepted[r]) /\ shard'[p] = r /\ pc'[p] = "send"
          /\ accepted' = accepted
      BY <1>0, <2>2 DEF StartFlush, Goto
    <3> QED
      BY <1>2, <3>1 DEF TargetOf
  <2>3. CASE PassLimit(p) \/ LimitTimeout(p) \/ Accept(p)
    <3>1. /\ UNCHANGED <<flushing[p], target[p], shard[p]>>
          /\ pc[p] \in {"check", "append"} /\ pc'[p] \in {"append", "send"}
      BY <1>0, <2>3 DEF PassLimit, LimitTimeout, Accept, Goto, history
    <3> QED
      BY <1>1, <1>4, <3>1 DEF TargetOf
  <2>4. CASE FlushWait(p)
    <3>1. CASE totalTaskNum[shard[p]] = 0
      <4>1. /\ ~flushing'[p] /\ target'[p] = 0 /\ shard'[p] = shard[p] /\ pc'[p] = "idle"
        BY <1>0, <2>4, <3>1 DEF FlushWait, Goto
      <4> QED
        BY <1>0, <1>2, <4>1 DEF TargetOf
    <3>2. CASE totalTaskNum[shard[p]] # 0
      <4>1. /\ UNCHANGED <<flushing[p], target[p], shard[p]>>
            /\ pc[p] = "wait" /\ pc'[p] = "asleep"
        BY <1>0, <2>4, <3>2 DEF FlushWait, Goto
      <4> QED
        BY <1>1, <1>4, <4>1 DEF TargetOf
    <3> QED
      BY <3>1, <3>2
  <2> QED
    BY <1>5, <2>1, <2>2, <2>3, <2>4 DEF ProducerStep
<1>6. ASSUME SendNextTask(p) PROVE TargetOf(p)'
  <2>1. /\ UNCHANGED <<flushing[p], target[p], shard[p]>>
        /\ pc[p] = "send" => ObtainPack(p)
        /\ pc'[p] \in {"idle", "check", "append"} => ~flushing[p]
        /\ pc'[p] \in {"wait", "asleep"} => flushing[p]
    <3>1. UNCHANGED <<flushing, target, shard>>
      BY <1>6 DEF SendNextTask, ObtainPack, Submit, SubmitFull, CountTask, PopPack, history
    <3>2. pc[p] = "send" => ObtainPack(p)
      BY <1>6 DEF SendNextTask, Submit, SubmitFull, CountTask, PopPack
    <3>3. \/ pc'[p] = (IF flushing[p] THEN "wait" ELSE "idle")
          \/ pc'[p] \in InSendNextTask
      BY <1>0, <1>6
         DEF SendNextTask, ObtainPack, Submit, SubmitFull, CountTask, PopPack, Return, Goto, Forced,
             InSendNextTask
    <3> QED
      BY <1>0, <3>1, <3>2, <3>3 DEF InSendNextTask
  <2> QED
    BY <1>4, <2>1
<1>7. CASE ~ ProducerStep(p) /\ ~ SendNextTask(p)
  <2>1. Elsewhere(p)
    BY <1>7, OthersElsewhere DEF IInv
  <2> QED
    BY <1>1, <1>4, <2>1 DEF Elsewhere, TargetOf
<1> QED
  BY <1>5, <1>6, <1>7

\* Only a worker that is idle takes a task, and it submits into its own queue.
LEMMA NextSubmitterHasTask == IInv /\ SubmitterHasTask /\ [Next]_vars => SubmitterHasTask'
<1> SUFFICES ASSUME IInv, SubmitterHasTask, [Next]_vars, NEW w \in Workers,
                    pc'[w] \in {"count", "pop"}
             PROVE  \E i \in DOMAIN tasks'[w] : tasks'[w][i].shard = shard'[w]
  BY DEF SubmitterHasTask
<1>0. /\ pc \in [Threads -> Places] /\ shard \in [Threads -> Shards]
      /\ tasks \in [Workers -> Seq(Task)] /\ TasksHashed
      /\ pack \in [Threads -> Seq(Call)] /\ WorkerOf \in [Shards -> Workers]
  BY WorkerOfAssumption DEF WorkerOfAssumption, IInv, Typed
<1>00. /\ \A q \in Producers : q \in Threads /\ q \notin Workers
       /\ \A v \in Workers : v \in Threads /\ v \notin Producers
  BY ThreadsAssumption DEF ThreadsAssumption, Threads
\* Tasks are only added at the end, to a queue nobody takes from.
<1>1. ASSUME pc[w] \in {"count", "pop"}, shard'[w] = shard[w],
             \/ tasks'[w] = tasks[w]
             \/ \E e \in Task : tasks'[w] = Append(tasks[w], e)
      PROVE  \E i \in DOMAIN tasks'[w] : tasks'[w][i].shard = shard'[w]
  <2>1. PICK i \in DOMAIN tasks[w] : tasks[w][i].shard = shard[w]
    BY <1>1 DEF SubmitterHasTask
  <2>2. i \in DOMAIN tasks'[w] /\ tasks'[w][i] = tasks[w][i]
    <3>1. tasks[w] \in Seq(Task) /\ i \in 1 .. Len(tasks[w]) /\ Len(tasks[w]) \in Nat
      BY <1>0, <2>1, LenProperties
    <3>2. ASSUME NEW e \in Task, tasks'[w] = Append(tasks[w], e)
          PROVE  i \in DOMAIN tasks'[w] /\ tasks'[w][i] = tasks[w][i]
      BY <3>1, <3>2, AppendProperties, LenProperties
    <3> QED
      BY <1>1, <2>1, <3>2
  <2> QED
    BY <1>1, <2>1, <2>2
<1>2. ASSUME NEW q \in Producers, ProducerStep(q) PROVE pc'[w] = pc[w] /\ UNCHANGED <<tasks, shard[w]>>
  BY <1>0, <1>00, <1>2
     DEF ProducerStep, StartWriteAsync, StartFlush, PassLimit, LimitTimeout, Accept, FlushWait, Goto
<1>3. ASSUME NEW v \in Workers, WorkerStep(v)
      PROVE  pc'[w] = pc[w] /\ UNCHANGED <<tasks[w], shard[w]>>
  <2>1. CASE TakeTask(v)
    <3>1. v # w
      BY <1>0, <1>00, <2>1 DEF TakeTask, Goto
    <3> QED
      BY <1>0, <1>00, <2>1, <3>1 DEF TakeTask, Goto
  <2>2. CASE PutSucceeds(v) \/ PutRetries(v) \/ PutFails(v)
    <3>1. v # w \/ pc'[w] = pc[w]
      BY <1>0, <1>00, <2>2 DEF PutSucceeds, PutRetries, PutFails, Goto
    <3> QED
      BY <1>0, <1>00, <2>2, <3>1 DEF PutSucceeds, PutRetries, PutFails, Goto
  <2>3. CASE TaskDone(v)
    BY <1>0, <1>00, <2>3 DEF TaskDone, NotifyFlushers
  <2> QED
    BY <1>3, <2>1, <2>2, <2>3 DEF WorkerStep
<1>4. ASSUME NEW t \in Threads, SendNextTask(t)
      PROVE  \E i \in DOMAIN tasks'[w] : tasks'[w][i].shard = shard'[w]
  <2>0. shard' = shard
    BY <1>4 DEF SendNextTask, ObtainPack, Submit, SubmitFull, CountTask, PopPack
  <2>1. CASE Submit(t)
    <3> DEFINE e == [shard |-> shard[t], pack |-> pack[t]]
               v == WorkerOf[shard[t]]
    <3>1. e \in Task /\ tasks' = [tasks EXCEPT ![v] = Append(@, e)] /\ v \in Workers
      BY <1>0, <2>1 DEF Submit, Task
    <3>2. CASE t = w
      <4>1. v = w
        BY <1>0, <2>1, <3>2 DEF TasksHashed, Submit
      <4> HIDE DEF e
      <4>2. tasks'[w] = Append(tasks[w], e) /\ tasks[w] \in Seq(Task)
        BY <1>0, <3>1, <4>1
      <4>3. /\ Len(tasks[w]) + 1 \in DOMAIN tasks'[w]
            /\ tasks'[w][Len(tasks[w]) + 1] = e
        BY <3>1, <4>2, AppendProperties, LenProperties
      <4> QED
        BY <2>0, <3>2, <4>3 DEF e
    <3>3. CASE t # w
      <4>1. pc[w] \in {"count", "pop"}
        BY <1>0, <1>00, <2>1, <3>3 DEF Submit, Goto
      <4> HIDE DEF e
      <4>2. tasks'[w] = tasks[w] \/ tasks'[w] = Append(tasks[w], e)
        BY <1>0, <3>1
      <4> QED
        BY <1>1, <2>0, <3>1, <4>1, <4>2
    <3> QED
      BY <3>2, <3>3
  <2>2. CASE ~ Submit(t)
    <3>1. tasks' = tasks /\ pc[w] \in {"count", "pop"}
      BY <1>0, <1>00, <1>4, <2>2
         DEF SendNextTask, ObtainPack, SubmitFull, CountTask, PopPack, Return, Goto
    <3> QED
      BY <1>1, <2>0, <3>1
  <2> QED
    BY <2>1, <2>2
<1>5. ASSUME UNCHANGED vars PROVE pc'[w] = pc[w] /\ UNCHANGED <<tasks[w], shard[w]>>
  BY <1>5 DEF vars
<1> QED
  BY <1>1, <1>2, <1>3, <1>4, <1>5 DEF Next


LEMMA NextFlushCounted ==
    ASSUME OneShardPerWorker, IInv, FInv, [Next]_vars
    PROVE  FlushCounted'
<1> SUFFICES ASSUME NEW p \in Producers, pc'[p] \in {"wait", "asleep"}
             PROVE  \/ totalTaskNum'[shard'[p]] > 0
                    \/ taskMutex'[shard'[p]] # NoThread
                    \/ Resolved(shard[p], target[p])'
  BY DEF FlushCounted
<1>0. /\ pc \in [Threads -> Places] /\ shard \in [Threads -> Shards]
      /\ flushing \in [Producers -> BOOLEAN] /\ target \in [Producers -> Nat]
      /\ totalTaskNum \in [Shards -> Int]
      /\ taskMutex \in [Shards -> Workers \cup {NoThread}]
      /\ Typed /\ Owners /\ FlushTarget
  BY DEF IInv, Typed, FInv
<1>00. /\ \A q \in Producers : q \in Threads /\ q \notin Workers
       /\ \A w \in Workers : w \in Threads /\ w \notin Producers /\ w # NoThread
  BY ThreadsAssumption DEF ThreadsAssumption, Threads
<1>1. /\ pc[p] \in {"wait", "asleep"} =>
             \/ totalTaskNum[shard[p]] > 0
             \/ taskMutex[shard[p]] # NoThread
             \/ Resolved(shard[p], target[p])
      /\ target[p] \in 0 .. Len(accepted[shard[p]])
  <2>1. Len(accepted[shard[p]]) \in Nat /\ target[p] \in Nat
    BY <1>0, <1>00, LenProperties DEF Typed
  <2>2. target[p] <= Len(accepted[shard[p]])
    BY <1>0 DEF FlushTarget
  <2> QED
    BY <2>1, <2>2 DEF FInv, FlushCounted
\* A flush that was waiting goes on, and nothing it waits for is taken away.
<1>2. ASSUME pc[p] \in {"wait", "asleep"}, UNCHANGED <<shard[p], target[p]>>,
             totalTaskNum[shard[p]] > 0 => totalTaskNum'[shard[p]] > 0,
             taskMutex[shard[p]] # NoThread => taskMutex'[shard[p]] # NoThread
      PROVE  \/ totalTaskNum'[shard'[p]] > 0
             \/ taskMutex'[shard'[p]] # NoThread
             \/ Resolved(shard[p], target[p])'
  <2> DEFINE s == shard[p]
             n == target[p]
  <2>1. PICK r \in Shards : r = s
    BY <1>0, <1>00
  <2>2. PICK m \in 0 .. Len(accepted[r]) : m = n
    BY <1>1, <2>1
  <2>3. Resolved(r, m) => Resolved(r, m)'
    BY <2>2, NextResolved
  <2>4. shard'[p] = r /\ target'[p] = m
    BY <1>2, <2>1, <2>2
  <2>5. Resolved(r, m)' => Resolved(shard[p], target[p])'
    BY <2>4 DEF Resolved
  <2> QED
    BY <1>1, <1>2, <2>1, <2>2, <2>3, <2>4, <2>5
<1>3. ASSUME NEW q \in Producers, ProducerStep(q)
      PROVE  /\ pc[p] \in {"wait", "asleep"} /\ UNCHANGED <<shard[p], target[p]>>
             /\ UNCHANGED <<totalTaskNum, taskMutex>>
  <2>1. CASE q = p
    <3>1. FlushWait(p) /\ totalTaskNum[shard[p]] # 0
      BY <1>0, <1>00, <1>3, <2>1
         DEF ProducerStep, StartWriteAsync, StartFlush, PassLimit, LimitTimeout, Accept, FlushWait,
             Goto
    <3> QED
      BY <3>1 DEF FlushWait, locks
  <2>2. CASE q # p
    BY <1>0, <1>00, <1>3, <2>2
       DEF ProducerStep, StartWriteAsync, StartFlush, PassLimit, LimitTimeout, Accept, FlushWait,
           Goto, locks, history
  <2> QED
    BY <2>1, <2>2
<1>4. ASSUME NEW w \in Workers, WorkerStep(w), ~ (TaskDone(w) /\ shard[w] = shard[p])
      PROVE  /\ pc[p] \in {"wait", "asleep"} /\ UNCHANGED <<shard[p], target[p]>>
             /\ totalTaskNum'[shard[p]] = totalTaskNum[shard[p]]
             /\ taskMutex'[shard[p]] = taskMutex[shard[p]]
  <2>1. CASE TaskDone(w)
    <3>1. shard[w] # shard[p] /\ shard[p] \in Shards /\ shard[w] \in Shards
      BY <1>0, <1>00, <1>4, <2>1
    <3>2. pc[p] \in {"wait", "asleep"}
      BY <1>0, <1>00, <2>1 DEF TaskDone, NotifyFlushers
    <3> QED
      BY <1>0, <2>1, <3>1, <3>2 DEF TaskDone, history
  <2>2. CASE ~ TaskDone(w)
    BY <1>0, <1>00, <1>4, <2>2
       DEF WorkerStep, TakeTask, PutSucceeds, PutRetries, PutFails, Goto, locks, history
  <2> QED
    BY <2>1, <2>2
<1>5. ASSUME NEW w \in Workers, TaskDone(w), shard[w] = shard[p]
      PROVE  taskMutex'[shard'[p]] # NoThread
  BY <1>0, <1>00, <1>5 DEF TaskDone
<1>6. ASSUME NEW t \in Threads, SendNextTask(t), pc'[t] \notin InSendNextTask, shard[t] = shard[p]
      PROVE  \/ totalTaskNum'[shard'[p]] > 0
             \/ taskMutex'[shard'[p]] # NoThread
             \/ Resolved(shard[p], target[p])'
  <2> DEFINE s == shard[p]
  <2>1. /\ \/ totalTaskNum[s] > 0
           \/ t \in Producers /\ taskMutex[s] # NoThread
           \/ Resolved(s, Left(s))'
    <3>1. \/ totalTaskNum[shard[t]] > 0
          \/ t \in Producers /\ taskMutex[shard[t]] # NoThread
          \/ Resolved(shard[t], Left(shard[t]))'
      BY <1>6, ReturnCovered DEF FInv
    <3>2. Resolved(shard[t], Left(shard[t]))' => Resolved(s, Left(s))'
      <4>1. shard'[t] = shard'[p]
        BY <1>6 DEF SendNextTask, ObtainPack, Submit, SubmitFull, CountTask, PopPack
      <4> QED
        BY <4>1
    <3> QED
      BY <1>6, <3>1, <3>2
  <2>2. /\ UNCHANGED <<totalTaskNum, shard>>
        /\ t \in Producers => taskMutex' = taskMutex
    <3>1. ~ CountTask(t) /\ ~ Submit(t)
      BY <1>0, <1>6 DEF CountTask, Submit, Goto, InSendNextTask
    <3> QED
      BY <1>00, <1>6, <3>1 DEF SendNextTask, ObtainPack, SubmitFull, PopPack, Return
  <2>3. target'[p] \in Nat /\ target'[p] <= Left(s)' /\ Left(s)' \in Int
    <3>1. FlushTarget' /\ Typed'
      BY <1>0, NextFlushTarget, NextTyped
    <3>2. /\ pc'[p] \in {"wait", "asleep"} => flushing'[p]
          /\ flushing'[p] /\ pc'[p] # "send" => target'[p] <= Left(shard[p])'
      BY <3>1 DEF FlushTarget
    <3>3. target'[p] \in Nat
      BY <3>1 DEF Typed
    <3>4. PICK r \in Shards : r = s
      BY <1>0, <1>00
    <3>5. Left(r)' \in Int
      BY <3>4, NextLeft
    <3>6. Left(s)' = Left(r)'
      BY <2>2, <3>4
    <3> QED
      BY <3>2, <3>3, <3>5, <3>6
  <2>4. Resolved(s, Left(s))' => Resolved(shard[p], target[p])'
    <3> DEFINE m == Left(s)'
    <3>1. Resolved(s, Left(s))' => \A i \in 1 .. m : promise'[accepted'[shard'[p]][i]] # "pending"
      BY DEF Resolved
    <3>2. m \in Int /\ target'[p] \in Nat /\ target'[p] <= m
      BY <2>3
    <3> HIDE DEF m
    <3>3. \A i \in 1 .. target'[p] : i \in 1 .. m
      BY <3>2
    <3>4. Resolved(s, Left(s))' => \A i \in 1 .. target'[p] : promise'[accepted'[shard'[p]][i]] # "pending"
      BY <3>1, <3>3
    <3> QED
      BY <3>4 DEF Resolved
  <2> QED
    BY <2>1, <2>2, <2>4
<1>7. ASSUME NEW t \in Threads, SendNextTask(t), pc'[t] \in InSendNextTask \/ shard[t] # shard[p]
      PROVE  /\ pc[p] \in {"wait", "asleep"} /\ UNCHANGED <<shard[p], target[p]>>
             /\ totalTaskNum[shard[p]] > 0 => totalTaskNum'[shard[p]] > 0
             /\ taskMutex'[shard[p]] = taskMutex[shard[p]]
  <2>1. UNCHANGED <<shard, target>>
    BY <1>7 DEF SendNextTask, ObtainPack, Submit, SubmitFull, CountTask, PopPack, history
  <2>2. t # p
    BY <1>00, <1>7 DEF InSendNextTask
  <2>3. pc[p] \in {"wait", "asleep"}
    BY <1>0, <1>00, <1>7, <2>2
       DEF SendNextTask, ObtainPack, Submit, SubmitFull, CountTask, PopPack, Return, Goto
  <2>4. totalTaskNum[shard[p]] > 0 => totalTaskNum'[shard[p]] > 0
    <3>1. totalTaskNum' = totalTaskNum \/ totalTaskNum' = [totalTaskNum EXCEPT ![shard[t]] = @ + 1]
      BY <1>7 DEF SendNextTask, ObtainPack, Submit, SubmitFull, CountTask, PopPack
    <3> QED
      BY <1>0, <1>00, <3>1
  <2>5. taskMutex'[shard[p]] = taskMutex[shard[p]]
    <3>1. \/ taskMutex' = taskMutex
          \/ /\ taskMutex' = [taskMutex EXCEPT ![shard[t]] = NoThread]
             /\ Return(t)
      BY <1>7 DEF SendNextTask, ObtainPack, Submit, SubmitFull, CountTask, PopPack, Return, locks
    <3>2. Return(t) => pc'[t] \notin InSendNextTask
      BY <1>0 DEF Return, Goto, InSendNextTask
    <3> QED
      BY <1>0, <1>00, <1>7, <3>1, <3>2
  <2> QED
    BY <2>1, <2>3, <2>4, <2>5
<1>8. ASSUME UNCHANGED vars
      PROVE  /\ pc[p] \in {"wait", "asleep"} /\ UNCHANGED <<shard[p], target[p]>>
             /\ UNCHANGED <<totalTaskNum, taskMutex>>
  BY <1>8 DEF vars, locks, history
<1> QED
  BY <1>2, <1>3, <1>4, <1>5, <1>6, <1>7, <1>8 DEF Next

LEMMA InitFInv == Init => FInv
<1> SUFFICES ASSUME Init PROVE FInv
  OBVIOUS
<1>1. FlushTarget
  BY EmptySeq, ShardsAssumption
     DEF Init, FlushTarget, Threads, ShardsAssumption
<1> QED
  BY <1>1 DEF Init, FInv, FlushCounted, SubmitterHasTask, Threads

\* What a Flush that returns waited for was counted until it was done.
LEMMA FlushStep ==
    ASSUME IInv, FInv, [Next]_vars
    PROVE  [\A p \in Producers :
               pc[p] = "wait" /\ pc'[p] = "idle" =>
                   \A i \in 1 .. target[p] :
                       promise[accepted[shard[p]][i]] \in {"value", "exception"}]_vars
<1> SUFFICES ASSUME NEW p \in Producers, pc[p] = "wait", pc'[p] = "idle",
                    NEW i \in 1 .. target[p]
             PROVE  promise[accepted[shard[p]][i]] \in {"value", "exception"}
  OBVIOUS
<1> DEFINE s == shard[p]
           c == accepted[s][i]
<1>0. /\ pc \in [Threads -> Places] /\ Typed /\ Owners /\ s \in Shards
      /\ target[p] \in Nat /\ accepted[s] \in Seq(Call)
  BY DEF IInv, Typed, Threads
<1>00. /\ \A q \in Producers : q \in Threads /\ q \notin Workers
       /\ \A w \in Workers : w \in Threads /\ w \notin Producers
  BY ThreadsAssumption DEF ThreadsAssumption, Threads
<1>1. totalTaskNum[s] = 0 /\ taskMutex[s] = NoThread
  <2>1. ProducerStep(p)
    <3>1. ProducerStep(p) \/ SendNextTask(p)
      BY <1>0, OthersElsewhere DEF Elsewhere
    <3> QED
      BY <3>1 DEF SendNextTask, ObtainPack, Submit, SubmitFull, CountTask, PopPack
  <2>2. FlushWait(p)
    BY <2>1 DEF ProducerStep, StartWriteAsync, StartFlush, PassLimit, LimitTimeout, Accept
  <2> QED
    BY <1>0, <1>00, <2>2 DEF FlushWait, Goto
<1>2. Resolved(s, target[p])
  BY <1>1 DEF FInv, FlushCounted
<1>3. promise[c] # "pending"
  BY <1>2 DEF Resolved
<1>4. i \in DOMAIN accepted[s]
  <2>1. target[p] <= Len(accepted[s])
    BY DEF FInv, FlushTarget
  <2>2. Len(accepted[s]) \in Nat /\ DOMAIN accepted[s] = 1 .. Len(accepted[s])
    BY <1>0, LenProperties
  <2> QED
    BY <1>0, <2>1, <2>2
<1>5. promise[c] # "none" /\ c \in Call
  BY <1>0, <1>4, ElementOfSeq, LenProperties DEF IInv, CallsDistinct
<1>6. promise[c] \in {"none", "pending", "value", "exception"}
  BY <1>0, <1>5 DEF Typed
<1> QED
  BY <1>3, <1>5, <1>6

\* When Flush returns, every call that was accepted before it was called is resolved, if no
\* two shards share a worker (shard_writer.cpp:70-77).  If they do, a pack of this shard
\* stays ready and uncounted when the tasks of other shards fill the worker's queue.
THEOREM FlushIsComplete ==
    ASSUME OneShardPerWorker
    PROVE  Spec => FlushComplete
<1>1. Init => IInv /\ FInv
  BY InitIInv, InitFInv
<1>2. IInv /\ FInv /\ [Next]_vars => (IInv /\ FInv)'
  <2> SUFFICES ASSUME IInv, FInv, [Next]_vars PROVE IInv' /\ FInv'
    OBVIOUS
  <2>1. FlushTarget' /\ SubmitterHasTask'
    BY NextFlushTarget, NextSubmitterHasTask DEF FInv
  <2> QED
    BY <2>1, NextIInv, NextFlushCounted DEF FInv
<1>3. IInv /\ FInv /\ [Next]_vars =>
          [\A p \in Producers :
               pc[p] = "wait" /\ pc'[p] = "idle" =>
                   \A i \in 1 .. target[p] : Answered(accepted[shard[p]][i])]_vars
  BY FlushStep DEF Answered
<1> QED
  BY <1>1, <1>2, <1>3, PTL DEF Spec, FlushComplete

============================================================================
