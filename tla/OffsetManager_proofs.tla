----------------------- MODULE OffsetManager_proofs -----------------------
(***************************************************************************)
(* The OffsetManager hands the service only what the application has       *)
(* acknowledged, for any number of shards, records, sessions and retries.  *)
(***************************************************************************)
EXTENDS OffsetManager, SequenceTheorems, WellFoundedInduction, TLAPS

USE MaxRetryAssumption, MaxSequenceAssumption, MaxSessionAssumption
    DEF MaxRetryAssumption, MaxSequenceAssumption, MaxSessionAssumption

----------------------------------------------------------------------------
(* Helpers *)

\* There is a first key that is not acknowledged, or there is none: AckedPrefix, the
\* loop of SyncOffset, is defined for every queue.
LEMMA AckedPrefixBounds ==
    ASSUME NEW requests \in Seq(Key)
    PROVE  /\ AckedPrefix(requests) \in 0 .. Len(requests)
           /\ \A i \in 1 .. AckedPrefix(requests) : requests[i] \in acked
<1> DEFINE T == {n \in 0 .. Len(requests) : n < Len(requests) => requests[n + 1] \notin acked}
<1>1. Len(requests) \in Nat
  OBVIOUS
<1>2. T \subseteq Nat /\ T # {}
  <2>1. Len(requests) \in T
    BY <1>1
  <2> QED
    BY <1>1, <2>1
<1> DEFINE R == {pair \in Nat \X Nat : pair[1] < pair[2]}
<1>3. IsWellFoundedOn(R, Nat)
  BY NatLessThanWellFounded DEF OpToRel
<1>4. PICK n \in T : \A m \in T : ~ (m < n)
  <2>1. PICK n \in T : \A m \in T : ~ (<<m, n>> \in R)
    <3> HIDE DEF T, R
    <3> QED
      BY <1>2, <1>3, WFMin
  <2> QED
    BY <1>2, <2>1
<1>5. \A i \in 1 .. n : requests[i] \in acked
  <2> SUFFICES ASSUME NEW i \in 1 .. n PROVE requests[i] \in acked
    OBVIOUS
  <2>1. i - 1 \in 0 .. Len(requests) /\ i - 1 < n /\ i - 1 < Len(requests)
    BY <1>1
  <2>2. i - 1 \notin T
    BY <1>4, <2>1
  <2> QED
    BY <2>1, <2>2
<1>6. \E k \in 0 .. Len(requests) :
          /\ \A i \in 1 .. k : requests[i] \in acked
          /\ k < Len(requests) => requests[k + 1] \notin acked
  BY <1>5
<1> QED
  BY <1>6 DEF AckedPrefix

\* The maps of the code: their entries keep their type.
LEMMA EmptyMapType == \A V : IsMap(EmptyMap, V)
  BY DEF IsMap, EmptyMap

LEMMA AssignType ==
    ASSUME NEW V, NEW map, NEW new, IsMap(map, V), IsMap(new, V)
    PROVE  IsMap(Assign(map, new), V)
  BY DEF IsMap, Assign

LEMMA EraseType ==
    ASSUME NEW V, NEW map, NEW keys, IsMap(map, V)
    PROVE  IsMap(Erase(map, keys), V)
  BY DEF IsMap, Erase

LEMMA MapEntryType ==
    ASSUME NEW V, NEW map, NEW s \in DOMAIN map, IsMap(map, V)
    PROVE  s \in Shards /\ map[s] \in V
  BY DEF IsMap

----------------------------------------------------------------------------
(* Types *)

LEMMA InitTypeOK == Init => TypeOK
<1> SUFFICES ASSUME Init PROVE TypeOK
  OBVIOUS
<1> USE DEF Init
<1>1. ManagerType
  BY EmptyMapType DEF ManagerType
<1>2. CommitThreadType
  <2>1. retryNum \in 0 .. MaxRetry - 1
    OBVIOUS
  <2> QED
    BY <2>1, Zenon DEF CommitThreadType
<1>3. GroupType
  BY EmptyMapType, FirstShardsAssumption DEF FirstShardsAssumption, GroupType, Idle
<1>4. ApplicationType
  BY DEF ApplicationType, NotReading
<1>5. ServiceType
  BY DEF ServiceType
<1> QED
  BY <1>1, <1>2, <1>3, <1>4, <1>5 DEF TypeOK

\* What a step leaves alone keeps its type.
LEMMA UnchangedTypes ==
    /\ ManagerType /\ UNCHANGED manager => ManagerType'
    /\ CommitThreadType /\ UNCHANGED commitThread => CommitThreadType'
    /\ GroupType /\ UNCHANGED group /\ user'.step \in {user.step, "idle", "send"} => GroupType'
    /\ GroupType /\ UNCHANGED group /\ UNCHANGED application => GroupType'
    /\ ApplicationType /\ UNCHANGED application => ApplicationType'
    /\ ServiceType /\ UNCHANGED service => ServiceType'
<1>1. ManagerType /\ UNCHANGED manager => ManagerType'
  BY DEF ManagerType, manager, IsMap
<1>2. CommitThreadType /\ UNCHANGED commitThread => CommitThreadType'
  BY DEF CommitThreadType, commitThread
<1>3. GroupType /\ UNCHANGED group /\ user'.step \in {user.step, "idle", "send"} => GroupType'
  BY DEF GroupType, group, IsMap
<1>4. GroupType /\ UNCHANGED group /\ UNCHANGED application => GroupType'
  BY <1>3 DEF application
<1>5. ApplicationType /\ UNCHANGED application => ApplicationType'
  BY DEF ApplicationType, application
<1>6. ServiceType /\ UNCHANGED service => ServiceType'
  BY DEF ServiceType, service
<1> QED
  BY <1>1, <1>2, <1>3, <1>4, <1>5, <1>6

\* The two steps of CreateShardReader, whichever thread calls it.
LEMMA OpenSessionTypes ==
    ASSUME TypeOK, NEW shards \in SUBSET Shards, OpenSession(shards), UNCHANGED committed
    PROVE  ServiceType' /\ IsMap(shardOffset', Position) /\ DOMAIN shardOffset' = shards
<1> USE DEF OpenSession
<1>1. \A s \in shards : session[s] + 1 \in 1 .. MaxSession
  BY LastSessionAssumption DEF LastSessionAssumption, TypeOK, ServiceType
<1>2. ServiceType'
  BY <1>1 DEF TypeOK, ServiceType
<1>3. \A s \in shards : committed[s] + 1 \in 1 .. MaxSequence + 1
  BY DEF TypeOK, ServiceType
<1> QED
  BY <1>1, <1>2, <1>3 DEF Position, IsMap

LEMMA AddReadersTypes ==
    ASSUME TypeOK, AddReaders(DOMAIN shardOffset), UNCHANGED lastOffset
    PROVE  ManagerType' /\ IsMap(reader', Position) /\ IsMap(shardOffset', Position)
<1> USE DEF AddReaders, TypeOK
<1> DEFINE add == DOMAIN shardOffset
<1>1. IsMap(shardOffset, Position) /\ add \subseteq Shards
  BY DEF GroupType, IsMap
<1>2. IsMap([s \in add |-> shardOffset[s].id], 1 .. MaxSession)
  BY <1>1 DEF IsMap, Position
<1>3. IsMap([s \in add |-> <<>>], Seq(Key))
  BY <1>1 DEF IsMap
<1>4. sent' \in [Shards -> Seq(Key)]
  BY DEF ManagerType
<1>5. IsMap(lastOffset', Key)
  BY DEF ManagerType, IsMap
<1>6. mixed' \in SUBSET Shards
  BY <1>1 DEF ManagerType
<1>7. IsMap(reader', Position) /\ IsMap(shardOffset', Position)
  BY <1>1, AssignType, EmptyMapType DEF GroupType
<1>8. ManagerType'
  BY <1>2, <1>3, <1>4, <1>5, <1>6, AssignType DEF ManagerType
<1> QED
  BY <1>7, <1>8

LEMMA NextTypeOK == TypeOK /\ [Next]_vars => TypeOK'
<1> SUFFICES ASSUME TypeOK, [Next]_vars PROVE TypeOK'
  OBVIOUS
<1> USE UnchangedTypes DEF TypeOK
<1>1. ASSUME NEW s \in Shards, ReadRecord(s) PROVE TypeOK'
  <2> USE <1>1 DEF ReadRecord
  <2>1. reader[s] \in Position /\ reader[s].next <= MaxSequence
    <3>1. reader[s] \in Position
      BY MapEntryType DEF GroupType
    <3>2. LastRecord[s] \in 0 .. MaxSequence
      BY LastRecordAssumption DEF LastRecordAssumption
    <3> QED
      BY <3>1, <3>2 DEF Position
  <2>2. GroupType'
    <3>1. [reader[s] EXCEPT !.next = @ + 1] \in Position
      BY <2>1 DEF Position
    <3>2. reader' = [reader EXCEPT ![s] = [reader[s] EXCEPT !.next = @ + 1]]
      OBVIOUS
    <3>3. IsMap(reader', Position)
      BY <3>1, <3>2 DEF GroupType, IsMap
    <3> QED
      BY <3>3 DEF GroupType, IsMap
  <2>3. ApplicationType'
    BY <2>1 DEF ApplicationType, Position, Key
  <2> QED
    BY <2>2, <2>3
<1>2. ASSUME NEW key \in user.key, SendOffsetRequest(key) PROVE TypeOK'
  <2> USE <1>2 DEF SendOffsetRequest
  <2>1. key \in Key /\ key.shard \in Shards
    BY DEF ApplicationType, Key
  <2>2. ManagerType'
    <3>1. CASE key.shard \in DOMAIN offsetRequest
      <4>1. Append(offsetRequest[key.shard], key) \in Seq(Key)
        BY <2>1, <3>1, MapEntryType DEF ManagerType
      <4>2. IsMap(offsetRequest', Seq(Key))
        BY <3>1, <4>1 DEF ManagerType, Push, IsMap
      <4>3. Append(sent[key.shard], key) \in Seq(Key)
        BY <2>1 DEF ManagerType
      <4>4. sent' \in [Shards -> Seq(Key)]
        BY <3>1, <4>3 DEF ManagerType
      <4> QED
        BY <4>2, <4>4 DEF ManagerType, IsMap
    <3>2. CASE key.shard \notin DOMAIN offsetRequest
      BY <3>2 DEF ManagerType, IsMap
    <3> QED
      BY <3>1, <3>2
  <2>3. ApplicationType'
    BY <2>1 DEF ApplicationType, NotReading
  <2>4. GroupType'
    BY DEF NotReading
  <2> QED
    BY <2>2, <2>3, <2>4
<1>3. ASSUME NEW key \in returned, Ack(key) PROVE TypeOK'
  BY <1>3 DEF Ack, ApplicationType
<1>4. CASE Rejoin
  BY <1>4 DEF Rejoin, GroupType, IsMap
<1>5. ASSUME NEW plan \in SUBSET Shards, Heartbeat(plan) PROVE TypeOK'
  BY <1>5 DEF Heartbeat, GroupType, IsMap
<1>6. CASE InitSession
  <2>1. ServiceType' /\ IsMap(shardOffset', Position) /\ DOMAIN shardOffset' = heartbeat.add
    BY <1>6, OpenSessionTypes DEF InitSession, GroupType
  <2>2. GroupType'
    BY <1>6, <2>1 DEF InitSession, ReadersUnlocked, application, GroupType, IsMap
  <2> QED
    BY <1>6, <2>1, <2>2 DEF InitSession
<1>7. CASE CreateReaders
  <2>1. ManagerType' /\ IsMap(reader', Position) /\ IsMap(shardOffset', Position)
    BY <1>7, AddReadersTypes DEF CreateReaders, GroupType
  <2>2. GroupType'
    BY <1>7, <2>1 DEF CreateReaders, GroupType, Idle
  <2> QED
    BY <1>7, <2>1, <2>2 DEF CreateReaders
<1>8. CASE RemoveReaders
  <2>1. IsMap(reader', Position)
    BY <1>8, EraseType DEF RemoveReaders, GroupType
  <2> QED
    BY <1>8, <2>1 DEF RemoveReaders, GroupType, IsMap
<1>9. CASE ForceCommitDone \/ ForceCommitTimeout
  BY <1>9 DEF ForceCommitDone, ForceCommitTimeout, GroupType, IsMap
<1>10. CASE EraseShards
  <2> USE <1>10 DEF EraseShards
  <2>1. ManagerType'
    BY EraseType DEF EraseMaps, ManagerType
  <2>2. GroupType'
    BY DEF GroupType, Idle, IsMap
  <2> QED
    BY <2>1, <2>2
<1>11. CASE ResetReaders
  <2>1. IsMap(reader', Position)
    BY <1>11, EmptyMapType DEF ResetReaders
  <2> QED
    BY <1>11, <2>1 DEF ResetReaders, Idle, GroupType, IsMap
<1>12. CASE ClearOffsets
  <2>1. ManagerType'
    BY <1>12, EmptyMapType DEF ClearOffsets, ManagerType
  <2>2. GroupType'
    BY <1>12 DEF ClearOffsets, Idle, GroupType, IsMap
  <2> QED
    BY <1>12, <2>1, <2>2 DEF ClearOffsets
<1>13. CASE SyncOffset
  <2> DEFINE popped == [s \in DOMAIN offsetRequest |-> AckedPrefix(offsetRequest[s])]
             synced == {s \in DOMAIN offsetRequest : popped[s] > 0}
  <2>1. \A s \in DOMAIN offsetRequest :
           /\ s \in Shards
           /\ offsetRequest[s] \in Seq(Key)
           /\ popped[s] \in 0 .. Len(offsetRequest[s])
    BY MapEntryType, AckedPrefixBounds DEF ManagerType
  <2> HIDE DEF popped
  <2>2. IsMap(offsetRequest', Seq(Key))
    <3>1. \A s \in DOMAIN offsetRequest :
             SubSeq(offsetRequest[s], popped[s] + 1, Len(offsetRequest[s])) \in Seq(Key)
      BY <2>1
    <3> QED
      BY <1>13, <2>1, <3>1 DEF SyncOffset, IsMap, popped
  <2>3. IsMap([s \in synced |-> offsetRequest[s][popped[s]]], Key)
    BY <2>1 DEF IsMap
  <2>4. IsMap(lastOffset', Key)
    BY <1>13, <2>3, AssignType DEF SyncOffset, ManagerType, popped
  <2>5. CommitThreadType'
    BY <1>13, MaxRetryAssumption DEF SyncOffset, CommitThreadType
  <2>6. ManagerType'
    BY <1>13, <2>2, <2>4 DEF SyncOffset, ManagerType, IsMap
  <2> QED
    BY <1>13, <2>5, <2>6 DEF SyncOffset
<1>14. ASSUME Store, session' = session PROVE ServiceType'
  <2>1. \A s \in DOMAIN lastOffset : lastOffset[s].seq \in 0 .. MaxSequence
    BY DEF ManagerType, IsMap, Key
  <2> QED
    BY <1>14, <2>1 DEF Store, ServiceType
<1>15. CASE CommitSucceeds
  <2>1. ManagerType'
    BY <1>15, EmptyMapType DEF CommitSucceeds, ManagerType, IsMap
  <2>2. retryNum' \in 0 .. MaxRetry - 1
    BY <1>15 DEF CommitSucceeds
  <2>3. CommitThreadType'
    BY <1>15, <2>2, Zenon DEF CommitSucceeds, CommitThreadType
  <2> QED
    BY <1>14, <1>15, <2>1, <2>3 DEF CommitSucceeds
<1>16. CASE CommitFails
  <2>1. CommitThreadType'
    <3>1. retryNum' \in 0 .. MaxRetry - 1
      <4>1. retryNum \in 0 .. MaxRetry - 1
        BY DEF CommitThreadType
      <4>2. \/ retryNum' = 0
            \/ retryNum + 1 < MaxRetry /\ retryNum' = retryNum + 1
        BY <1>16 DEF CommitFails, AttemptsLeft
      <4> QED
        BY <4>1, <4>2
    <3>2. committing' \in BOOLEAN /\ terminated' \in BOOLEAN
      <4>1. CommitThreadType
        OBVIOUS
      <4>2. \/ terminated' = TRUE /\ committing' = FALSE
            \/ UNCHANGED <<committing, terminated>>
        BY <1>16 DEF CommitFails
      <4> HIDE <1>16 DEF TypeOK
      <4> QED
        BY <4>1, <4>2, Zenon DEF CommitThreadType
    <3> QED
      BY <3>1, <3>2, Zenon DEF CommitThreadType
  <2>2. ServiceType'
    BY <1>14, <1>16 DEF CommitFails, ServiceType
  <2> QED
    BY <1>16, <2>1, <2>2 DEF CommitFails
<1>17. ASSUME NEW s \in Shards, RewindSubscription(s) PROVE TypeOK'
  <2>1. LastSession[s] \in 0 .. MaxSession
    BY LastSessionAssumption DEF LastSessionAssumption
  <2> QED
    BY <1>17, <2>1 DEF RewindSubscription, ServiceType
<1>18. CASE Restart
  <2> USE <1>18 DEF Restart
  <2>1. ManagerType'
    BY EmptyMapType DEF ManagerType
  <2>2. CommitThreadType'
    <3>1. retryNum' \in 0 .. MaxRetry - 1
      OBVIOUS
    <3> QED
      BY <3>1, Zenon DEF CommitThreadType
  <2>3. GroupType'
    BY EmptyMapType DEF GroupType, Idle
  <2>4. ApplicationType'
    BY DEF ApplicationType, NotReading
  <2> QED
    BY <2>1, <2>2, <2>3, <2>4
<1>19. ASSUME NEW new \in SUBSET (Shards \ listed), ListShard(new) PROVE TypeOK'
  <2>1. ServiceType' /\ IsMap(shardOffset', Position)
    BY <1>19, OpenSessionTypes DEF ListShard
  <2>2. GroupType'
    BY <1>19, <2>1 DEF ListShard, ReadersUnlocked, GroupType, IsMap
  <2>3. ApplicationType'
    BY <1>19 DEF ListShard, NotReading, ApplicationType
  <2> QED
    BY <1>19, <2>1, <2>2, <2>3 DEF ListShard
<1>20. CASE CreateListedReader
  <2>1. ManagerType' /\ IsMap(reader', Position) /\ IsMap(shardOffset', Position)
    BY <1>20, AddReadersTypes DEF CreateListedReader
  <2>2. DOMAIN shardOffset \subseteq Shards /\ heartbeat.step # "create"
    BY <1>20 DEF CreateListedReader, GroupType, IsMap
  <2>3. GroupType'
    BY <1>20, <2>1, <2>2 DEF CreateListedReader, GroupType
  <2>4. ApplicationType'
    BY <1>20 DEF CreateListedReader, NotReading, ApplicationType
  <2> QED
    BY <1>20, <2>1, <2>3, <2>4 DEF CreateListedReader
<1>21. ASSUME NEW s \in Shards, ReadEnd(s) PROVE TypeOK'
  <2>1. IsMap(reader', Position)
    BY <1>21, EraseType DEF ReadEnd, GroupType
  <2> QED
    BY <1>21, <2>1 DEF ReadEnd, application, GroupType, IsMap
<1>22. CASE UNCHANGED vars
  BY <1>22 DEF vars
<1> QED
  BY <1>1, <1>2, <1>3, <1>4, <1>5, <1>6, <1>7, <1>8, <1>9, <1>10, <1>11, <1>12, <1>13,
     <1>15, <1>16, <1>17, <1>18, <1>19, <1>20, <1>21, <1>22 DEF Next, User, HeartbeatThread, CommitOffsetTask

\* TypeOK holds for all constants: sessions, sequences and retries stay in range.
THEOREM TypeCorrect == Spec => []TypeOK
<1> QED
  BY InitTypeOK, NextTypeOK, PTL DEF Spec

----------------------------------------------------------------------------
(* The maps of the OffsetManager gain and lose a shard together *)

LEMMA InitMetaFound == Init => MetaFound
  BY DEF Init, MetaFound, EmptyMap

LEMMA NextMetaFound == MetaFound /\ [Next]_vars => MetaFound'
<1> SUFFICES ASSUME MetaFound, [Next]_vars PROVE MetaFound'
  OBVIOUS
<1> USE DEF MetaFound
<1>1. ASSUME UNCHANGED manager PROVE MetaFound'
  BY <1>1 DEF manager
<1>2. ASSUME NEW key \in user.key, SendOffsetRequest(key) PROVE MetaFound'
  BY <1>2 DEF SendOffsetRequest, Push
<1>3. CASE CreateReaders \/ CreateListedReader
  BY <1>3 DEF CreateReaders, CreateListedReader, AddReaders, Assign
<1>4. CASE EraseShards
  BY <1>4 DEF EraseShards, EraseMaps, Erase
<1>5. CASE ClearOffsets \/ Restart
  BY <1>5 DEF ClearOffsets, Restart, EmptyMap
<1>6. CASE SyncOffset
  BY <1>6 DEF SyncOffset, Assign
<1>7. CASE CommitSucceeds
  BY <1>7 DEF CommitSucceeds, EmptyMap
<1> QED
  BY <1>1, <1>2, <1>3, <1>4, <1>5, <1>6, <1>7
     DEF Next, User, HeartbeatThread, CommitOffsetTask, ReadRecord, Ack, Rejoin, Heartbeat,
         ListShard, ReadEnd, InitSession, RemoveReaders, ForceCommitDone, ForceCommitTimeout,
         ResetReaders, CommitFails, RewindSubscription, vars

\* CommitOffset never dereferences end(): the session of every offset it commits is in
\* mOffsetMetaMap.
THEOREM MetaAlwaysFound == Spec => []MetaFound
<1> QED
  BY InitMetaFound, NextMetaFound, PTL DEF Spec

----------------------------------------------------------------------------
(* Only acknowledged keys leave the queues *)

\* What is left of a queue after its first n keys.
LEMMA SuffixProperties ==
    ASSUME NEW seq \in Seq(Key), NEW n \in 0 .. Len(seq)
    PROVE  /\ SubSeq(seq, n + 1, Len(seq)) \in Seq(Key)
           /\ Len(SubSeq(seq, n + 1, Len(seq))) = Len(seq) - n
           /\ \A i \in 1 .. Len(seq) - n : SubSeq(seq, n + 1, Len(seq))[i] = seq[n + i]
<1>1. Len(seq) \in Nat /\ n + 1 \in Int
  OBVIOUS
<1>2. \A i \in n + 1 .. Len(seq) : seq[i] \in Key
  BY <1>1
<1> QED
  BY <1>1, <1>2, SubSeqProperties

LEMMA SuffixOfAppend ==
    ASSUME NEW seq \in Seq(Key), NEW key \in Key, NEW n \in 0 .. Len(seq)
    PROVE  SubSeq(Append(seq, key), n + 1, Len(Append(seq, key)))
              = Append(SubSeq(seq, n + 1, Len(seq)), key)
<1> DEFINE longer == Append(seq, key)
           left   == SubSeq(longer, n + 1, Len(longer))
           right  == Append(SubSeq(seq, n + 1, Len(seq)), key)
<1>1. /\ longer \in Seq(Key)
      /\ Len(longer) = Len(seq) + 1
      /\ \A i \in 1 .. Len(longer) : longer[i] = IF i <= Len(seq) THEN seq[i] ELSE key
  OBVIOUS
<1>2. /\ SubSeq(seq, n + 1, Len(seq)) \in Seq(Key)
      /\ Len(SubSeq(seq, n + 1, Len(seq))) = Len(seq) - n
      /\ \A i \in 1 .. Len(seq) - n : SubSeq(seq, n + 1, Len(seq))[i] = seq[n + i]
  BY SuffixProperties
<1>3. /\ right \in Seq(Key)
      /\ Len(right) = Len(seq) - n + 1
      /\ \A i \in 1 .. Len(seq) - n + 1 :
            right[i] = IF i <= Len(seq) - n THEN seq[n + i] ELSE key
  BY <1>2
<1>4. /\ left \in Seq(Key)
      /\ Len(left) = Len(longer) - n
      /\ \A i \in 1 .. Len(longer) - n : left[i] = longer[n + i]
  <2>1. n \in 0 .. Len(longer)
    BY <1>1
  <2> HIDE DEF longer
  <2> QED
    BY <1>1, <2>1, SuffixProperties
<1>5. Len(left) = Len(right) /\ \A i \in 1 .. Len(left) : left[i] = right[i]
  <2> HIDE DEF longer, left, right
  <2>1. Len(seq) \in Nat /\ n \in 0 .. Len(seq)
    OBVIOUS
  <2>2. Len(left) = Len(right) /\ Len(left) = Len(seq) + 1 - n
    BY <1>1, <1>3, <1>4, <2>1
  <2>3. ASSUME NEW i \in 1 .. Len(left) PROVE left[i] = right[i]
    <3>1. /\ n + i \in 1 .. Len(longer)
          /\ i <= Len(seq) - n <=> n + i <= Len(seq)
          /\ i \in 1 .. Len(longer) - n
          /\ i \in 1 .. Len(seq) - n + 1
      BY <1>1, <2>1, <2>2
    <3> QED
      BY <1>1, <1>3, <1>4, <3>1
  <2> QED
    BY <2>2, <2>3
<1> HIDE DEF longer, left, right
<1>6. left = right
  BY <1>1, <1>3, <1>4, <1>5, SeqEqual
<1> QED
  BY <1>6 DEF longer, left, right

LEMMA SuffixOfSuffix ==
    ASSUME NEW seq \in Seq(Key), NEW m \in 0 .. Len(seq), NEW n \in 0 .. Len(seq) - m
    PROVE  LET suffix == SubSeq(seq, m + 1, Len(seq))
           IN SubSeq(suffix, n + 1, Len(suffix)) = SubSeq(seq, m + n + 1, Len(seq))
<1> DEFINE suffix == SubSeq(seq, m + 1, Len(seq))
           left   == SubSeq(suffix, n + 1, Len(suffix))
           right  == SubSeq(seq, m + n + 1, Len(seq))
<1>1. /\ suffix \in Seq(Key)
      /\ Len(suffix) = Len(seq) - m
      /\ \A i \in 1 .. Len(seq) - m : suffix[i] = seq[m + i]
  BY SuffixProperties
<1>2. /\ left \in Seq(Key)
      /\ Len(left) = Len(suffix) - n
      /\ \A i \in 1 .. Len(suffix) - n : left[i] = suffix[n + i]
  <2>1. n \in 0 .. Len(suffix)
    BY <1>1
  <2> HIDE DEF suffix
  <2> QED
    BY <1>1, <2>1, SuffixProperties
<1>3. /\ right \in Seq(Key)
      /\ Len(right) = Len(seq) - (m + n)
      /\ \A i \in 1 .. Len(seq) - (m + n) : right[i] = seq[m + n + i]
  <2>1. m + n \in 0 .. Len(seq)
    OBVIOUS
  <2> QED
    BY <2>1, SuffixProperties
<1>4. Len(left) = Len(right) /\ \A i \in 1 .. Len(left) : left[i] = right[i]
  <2> HIDE DEF suffix, left, right
  <2>1. Len(seq) \in Nat /\ m \in Nat /\ n \in Nat
    OBVIOUS
  <2>2. Len(left) = Len(right)
    BY <1>1, <1>2, <1>3, <2>1
  <2>3. ASSUME NEW i \in 1 .. Len(left) PROVE left[i] = right[i]
    <3>1. n + i \in 1 .. Len(seq) - m /\ m + (n + i) = m + n + i
      BY <1>1, <1>2, <2>1
    <3> QED
      BY <1>1, <1>2, <1>3, <2>1, <2>2, <3>1
  <2> QED
    BY <2>2, <2>3
<1> HIDE DEF suffix, left, right
<1>5. left = right
  BY <1>2, <1>3, <1>4, SeqEqual
<1> QED
  BY <1>5 DEF suffix, left, right

\* The keys queued for a shard are keys of its records: SyncOffset files an offset under
\* the shard whose queue it comes from.
SentOfShard ==
    \A s \in Shards : \A i \in 1 .. Len(sent[s]) : sent[s][i].shard = s

\* PoppedAcked alone is not inductive: lastOffset takes its keys from the queues.
IInv == TypeOK /\ SentOfShard /\ PoppedAcked

LEMMA InitIInv == Init => IInv
<1> SUFFICES ASSUME Init PROVE IInv
  OBVIOUS
<1>1. TypeOK
  BY InitTypeOK
<1>2. SentOfShard /\ PoppedAcked
  BY DEF Init, SentOfShard, PoppedAcked, EmptyMap
<1> QED
  BY <1>1, <1>2 DEF IInv

\* A queue that a step leaves alone stays right, whatever is acknowledged meanwhile.
LEMMA QueueKept ==
    ASSUME NEW s \in DOMAIN offsetRequest, QueueSuffix(s),
           offsetRequest'[s] = offsetRequest[s], sent'[s] = sent[s],
           acked \subseteq acked'
    PROVE  QueueSuffix(s)'
  BY DEF QueueSuffix, Popped

\* The keys in the queue of a shard are the last ones queued.
LEMMA QueueEntries ==
    ASSUME NEW s, sent[s] \in Seq(Key), offsetRequest[s] \in Seq(Key), QueueSuffix(s)
    PROVE  /\ Popped(s) \in 0 .. Len(sent[s])
           /\ Len(offsetRequest[s]) = Len(sent[s]) - Popped(s)
           /\ \A i \in 1 .. Len(offsetRequest[s]) : offsetRequest[s][i] = sent[s][Popped(s) + i]
<1>1. Len(sent[s]) \in Nat /\ Len(offsetRequest[s]) \in Nat
  OBVIOUS
<1>2. Popped(s) >= 0 /\ offsetRequest[s] = SubSeq(sent[s], Popped(s) + 1, Len(sent[s]))
  BY DEF QueueSuffix
<1>3. Popped(s) \in 0 .. Len(sent[s]) /\ Len(offsetRequest[s]) = Len(sent[s]) - Popped(s)
  <2> DEFINE m == Len(sent[s])
             n == Len(offsetRequest[s])
  <2>1. Popped(s) = m - n
    BY DEF Popped
  <2>2. m \in Nat /\ n \in Nat
    BY <1>1
  <2>3. m - n >= 0
    BY <1>2, <2>1
  <2> HIDE DEF m, n
  <2>4. Popped(s) \in 0 .. m /\ n = m - Popped(s)
    BY <2>1, <2>2, <2>3
  <2> QED
    BY <2>4 DEF m, n
<1>4. \A i \in 1 .. Len(sent[s]) - Popped(s) :
          SubSeq(sent[s], Popped(s) + 1, Len(sent[s]))[i] = sent[s][Popped(s) + i]
  BY <1>3, SuffixProperties
<1> QED
  BY <1>2, <1>3, <1>4

LEMMA SendKeepsIInv ==
    ASSUME IInv, NEW key \in user.key, SendOffsetRequest(key)
    PROVE  SentOfShard' /\ PoppedAcked'
<1> USE DEF SendOffsetRequest
<1> DEFINE s == key.shard
<1>1. key \in Key /\ s \in Shards
  BY DEF IInv, TypeOK, ApplicationType, Key
<1>2. sent \in [Shards -> Seq(Key)] /\ acked' = acked /\ lastOffset' = lastOffset
  BY DEF IInv, TypeOK, ManagerType
<1>3. CASE s \notin DOMAIN offsetRequest
  <2>1. offsetRequest' = offsetRequest /\ sent' = sent
    BY <1>3
  <2> QED
    BY <1>2, <2>1, QueueKept DEF IInv, SentOfShard, PoppedAcked
<1>4. CASE s \in DOMAIN offsetRequest
  <2>1. /\ sent' = [sent EXCEPT ![s] = Append(@, key)]
        /\ offsetRequest' = [offsetRequest EXCEPT ![s] = Append(@, key)]
    BY <1>4 DEF Push
  <2>2. SentOfShard'
    <3>1. ASSUME NEW x \in Shards, NEW i \in 1 .. Len(sent'[x]) PROVE sent'[x][i].shard = x
      <4>1. sent[x] \in Seq(Key) /\ \A j \in 1 .. Len(sent[x]) : sent[x][j].shard = x
        BY <1>2 DEF IInv, SentOfShard
      <4>2. sent'[x] = IF x = s THEN Append(sent[x], key) ELSE sent[x]
        BY <1>2, <2>1
      <4> QED
        BY <1>1, <3>1, <4>1, <4>2
    <3> QED
      BY <3>1 DEF SentOfShard
  <2>3. QueueSuffix(s)'
    <3>1. /\ sent[s] \in Seq(Key)
          /\ offsetRequest[s] \in Seq(Key)
          /\ QueueSuffix(s)
      BY <1>1, <1>2, <1>4, MapEntryType DEF IInv, TypeOK, ManagerType, PoppedAcked
    <3>2. sent'[s] = Append(sent[s], key) /\ offsetRequest'[s] = Append(offsetRequest[s], key)
      BY <1>1, <1>2, <1>4, <2>1
    <3>3. Popped(s)' = Popped(s) /\ Popped(s) \in 0 .. Len(sent[s])
      <4>1. Popped(s) \in 0 .. Len(sent[s])
        BY <3>1, QueueEntries
      <4>2. Len(sent'[s]) = Len(sent[s]) + 1 /\ Len(offsetRequest'[s]) = Len(offsetRequest[s]) + 1
        BY <1>1, <3>1, <3>2
      <4>3. Len(sent[s]) \in Nat /\ Len(offsetRequest[s]) \in Nat
        BY <3>1
      <4>4. \A m, n \in Nat : (m + 1) - (n + 1) = m - n
        OBVIOUS
      <4>5. Popped(s)' = Popped(s)
        BY <4>2, <4>3, <4>4 DEF Popped
      <4> QED
        BY <4>1, <4>5
    <3>4. offsetRequest'[s] = SubSeq(sent'[s], Popped(s) + 1, Len(sent'[s]))
      BY <1>1, <3>1, <3>2, <3>3, SuffixOfAppend DEF QueueSuffix
    <3>5. \A i \in 1 .. Popped(s) : sent'[s][i] = sent[s][i]
      BY <1>1, <3>1, <3>2, <3>3
    <3> QED
      BY <1>2, <3>1, <3>3, <3>4, <3>5 DEF QueueSuffix
  <2>4. ASSUME NEW x \in DOMAIN offsetRequest, x # s PROVE QueueSuffix(x)'
    <3>1. offsetRequest'[x] = offsetRequest[x] /\ sent'[x] = sent[x]
      BY <1>1, <1>2, <2>1, <2>4, MapEntryType DEF IInv, TypeOK, ManagerType
    <3> QED
      BY <1>2, <3>1, QueueKept DEF IInv, PoppedAcked
  <2>5. DOMAIN offsetRequest' = DOMAIN offsetRequest
    BY <2>1
  <2> QED
    BY <1>2, <2>2, <2>3, <2>4, <2>5 DEF IInv, PoppedAcked
<1> QED
  BY <1>3, <1>4

LEMMA SyncKeepsIInv ==
    ASSUME IInv, SyncOffset
    PROVE  SentOfShard' /\ PoppedAcked'
<1> DEFINE popped == [s \in DOMAIN offsetRequest |-> AckedPrefix(offsetRequest[s])]
           synced == {s \in DOMAIN offsetRequest : popped[s] > 0}
           newest == [s \in synced |-> offsetRequest[s][popped[s]]]
<1>1. /\ offsetRequest' = [s \in DOMAIN offsetRequest |->
             SubSeq(offsetRequest[s], popped[s] + 1, Len(offsetRequest[s]))]
      /\ lastOffset' = Assign(lastOffset, newest)
      /\ sent' = sent
      /\ acked' = acked
  BY DEF SyncOffset, application
<1>2. ASSUME NEW s \in DOMAIN offsetRequest
      PROVE  /\ s \in Shards
             /\ sent[s] \in Seq(Key)
             /\ offsetRequest[s] \in Seq(Key)
             /\ QueueSuffix(s)
             /\ popped[s] \in 0 .. Len(offsetRequest[s])
             /\ \A i \in 1 .. popped[s] : offsetRequest[s][i] \in acked
  BY MapEntryType, AckedPrefixBounds DEF IInv, TypeOK, ManagerType, PoppedAcked
<1> HIDE DEF popped
<1>3. ASSUME NEW s \in DOMAIN offsetRequest
      PROVE  /\ Popped(s) \in 0 .. Len(sent[s])
             /\ Len(offsetRequest[s]) = Len(sent[s]) - Popped(s)
             /\ \A i \in 1 .. Len(offsetRequest[s]) :
                   offsetRequest[s][i] = sent[s][Popped(s) + i]
  BY <1>2, QueueEntries
<1>4. ASSUME NEW s \in DOMAIN offsetRequest PROVE QueueSuffix(s)'
  <2> DEFINE p == Popped(s)
             k == popped[s]
  <2>1. /\ p \in 0 .. Len(sent[s])
        /\ k \in 0 .. Len(sent[s]) - p
        /\ Len(offsetRequest[s]) = Len(sent[s]) - p
    BY <1>2, <1>3
  <2>2. offsetRequest'[s] = SubSeq(offsetRequest[s], k + 1, Len(offsetRequest[s]))
    BY <1>1
  <2>3. offsetRequest'[s] = SubSeq(sent[s], p + k + 1, Len(sent[s]))
    <3> HIDE DEF p, k
    <3>1. offsetRequest[s] = SubSeq(sent[s], p + 1, Len(sent[s]))
      BY <1>2 DEF QueueSuffix, p
    <3> QED
      BY <1>2, <2>1, <2>2, <3>1, SuffixOfSuffix
  <2>4. Popped(s)' = p + k
    <3>1. Len(offsetRequest'[s]) = Len(offsetRequest[s]) - k
      BY <1>2, <2>2, SuffixProperties
    <3>2. Len(sent[s]) \in Nat
      BY <1>2
    <3>3. Popped(s)' = Len(sent[s]) - Len(offsetRequest'[s])
      BY <1>1 DEF Popped
    <3> DEFINE l == Len(sent[s])
    <3>4. Popped(s)' = l - ((l - p) - k) /\ l \in Nat /\ p \in 0 .. l /\ k \in 0 .. l - p
      BY <2>1, <3>1, <3>2, <3>3
    <3> HIDE DEF p, k, l
    <3> QED
      BY <3>4
  <2>5. ASSUME NEW i \in 1 .. p + k PROVE sent[s][i] \in acked
    <3>1. CASE i <= p
      BY <1>2, <2>1, <3>1 DEF QueueSuffix
    <3>2. CASE i > p
      <4>1. i - p \in 1 .. k /\ i - p \in 1 .. Len(offsetRequest[s]) /\ p + (i - p) = i
        BY <2>1, <3>2
      <4>2. sent[s][i] = offsetRequest[s][i - p]
        BY <1>3, <4>1
      <4> QED
        BY <1>2, <4>1, <4>2
    <3> QED
      BY <2>1, <3>1, <3>2
  <2>6. p + k >= 0 /\ sent'[s] = sent[s]
    BY <1>1, <2>1
  <2> HIDE DEF p, k
  <2> QED
    BY <1>1, <2>3, <2>4, <2>5, <2>6 DEF QueueSuffix
<1>5. ASSUME NEW s \in synced PROVE newest[s].shard = s /\ newest[s] \in acked
  <2>1. popped[s] \in 1 .. popped[s] /\ popped[s] \in 1 .. Len(offsetRequest[s])
    BY <1>2
  <2>2. newest[s] = sent[s][Popped(s) + popped[s]]
    BY <1>3, <2>1
  <2>3. Popped(s) + popped[s] \in 1 .. Len(sent[s])
    BY <1>2, <1>3, <2>1
  <2> QED
    BY <1>2, <2>1, <2>2, <2>3 DEF IInv, SentOfShard
<1>6. ASSUME NEW s \in DOMAIN lastOffset'
      PROVE  lastOffset'[s].shard = s /\ lastOffset'[s] \in acked
  <2>1. CASE s \in synced
    BY <1>1, <1>5, <2>1 DEF Assign
  <2>2. CASE s \notin synced
    BY <1>1, <2>2 DEF Assign, IInv, PoppedAcked
  <2> QED
    BY <2>1, <2>2
<1> QED
  BY <1>1, <1>4, <1>6 DEF IInv, SentOfShard, PoppedAcked

LEMMA NextIInv == IInv /\ [Next]_vars => IInv'
<1> SUFFICES ASSUME IInv, [Next]_vars PROVE IInv'
  OBVIOUS
<1>1. TypeOK'
  BY NextTypeOK DEF IInv
<1> SUFFICES SentOfShard' /\ PoppedAcked'
  BY <1>1 DEF IInv
<1>2. ASSUME UNCHANGED manager, acked \subseteq acked' PROVE SentOfShard' /\ PoppedAcked'
  <2>1. offsetRequest' = offsetRequest /\ sent' = sent /\ lastOffset' = lastOffset
    BY <1>2 DEF manager
  <2> QED
    BY <1>2, <2>1, QueueKept DEF IInv, SentOfShard, PoppedAcked
<1>3. ASSUME UNCHANGED <<sent, acked>>,
             \A s \in DOMAIN offsetRequest' :
                 s \in DOMAIN offsetRequest /\ offsetRequest'[s] = offsetRequest[s],
             \A s \in DOMAIN lastOffset' :
                 s \in DOMAIN lastOffset /\ lastOffset'[s] = lastOffset[s]
      PROVE  SentOfShard' /\ PoppedAcked'
  BY <1>3, QueueKept DEF IInv, SentOfShard, PoppedAcked
<1>4. ASSUME NEW key \in user.key, SendOffsetRequest(key) PROVE SentOfShard' /\ PoppedAcked'
  BY <1>4, SendKeepsIInv
<1>5. ASSUME NEW key \in returned, Ack(key) PROVE SentOfShard' /\ PoppedAcked'
  BY <1>2, <1>5 DEF Ack
<1>6. CASE CreateReaders \/ CreateListedReader
  <2>1. PICK add : /\ offsetRequest' = Assign(offsetRequest, [s \in add |-> <<>>])
                   /\ sent' = [s \in Shards |-> IF s \in add THEN <<>> ELSE sent[s]]
                   /\ lastOffset' = lastOffset /\ acked' = acked
    <3>1. CASE CreateReaders
      BY <3>1 DEF CreateReaders, AddReaders, application
    <3>2. CASE CreateListedReader
      BY <3>2 DEF CreateListedReader, AddReaders
    <3> QED
      BY <1>6, <3>1, <3>2
  <2>2. SentOfShard'
    BY <2>1 DEF IInv, SentOfShard
  <2>3. ASSUME NEW s \in DOMAIN offsetRequest' PROVE QueueSuffix(s)'
    <3>1. s \in Shards
      BY <1>1, <2>3 DEF TypeOK, ManagerType, IsMap
    <3>2. CASE s \in add
      <4>1. offsetRequest'[s] = <<>> /\ sent'[s] = <<>>
        BY <2>1, <3>1, <3>2 DEF Assign
      <4> QED
        BY <4>1 DEF QueueSuffix, Popped
    <3>3. CASE s \notin add
      <4>1. s \in DOMAIN offsetRequest /\ offsetRequest'[s] = offsetRequest[s] /\ sent'[s] = sent[s]
        BY <2>1, <2>3, <3>1, <3>3 DEF Assign
      <4> QED
        BY <2>1, <4>1, QueueKept DEF IInv, PoppedAcked
    <3> QED
      BY <3>2, <3>3
  <2> QED
    BY <2>1, <2>2, <2>3 DEF IInv, PoppedAcked
<1>7. CASE EraseShards
  BY <1>3, <1>7 DEF EraseShards, EraseMaps, Erase, application
<1>8. CASE ClearOffsets
  BY <1>3, <1>8 DEF ClearOffsets, EmptyMap, application
<1>9. CASE Restart
  BY <1>3, <1>9 DEF Restart, EmptyMap
<1>10. CASE SyncOffset
  BY <1>10, SyncKeepsIInv
<1>11. CASE CommitSucceeds
  BY <1>3, <1>11 DEF CommitSucceeds, EmptyMap, application
<1> QED
  BY <1>2, <1>4, <1>5, <1>6, <1>7, <1>8, <1>9, <1>10, <1>11
     DEF Next, User, HeartbeatThread, CommitOffsetTask, ReadRecord, Rejoin, Heartbeat,
         ListShard, ReadEnd, InitSession, RemoveReaders, ForceCommitDone, ForceCommitTimeout,
         ResetReaders, CommitFails, RewindSubscription, vars, application

\* Whatever is committed was acknowledged: a key leaves its queue only with all keys
\* queued before it acknowledged, across releases, resets, failures and restarts.
THEOREM PopsOnlyAcked == Spec => []PoppedAcked
<1>1. IInv => PoppedAcked
  BY DEF IInv
<1> QED
  BY <1>1, InitIInv, NextIInv, PTL DEF Spec
----------------------------------------------------------------------------
(* At least once, through restarts, releases and new sessions *)

AckedUpTo(s, n) == \A m \in 1 .. n : Acknowledged(s, m)

\* The user thread is between reading a record and queueing its key, or has no key.
ReadsOne == IF user.step = "send" THEN \E key \in Key : user.key = {key} ELSE user.key = {}

AckedReturned == acked \subseteq returned

\* Sessions are numbered upwards; what the last InitSubscriptionOffsetSession has opened is
\* newer than every reader and key of the shard.
SessionsGrow ==
    /\ \A s \in DOMAIN offsetMeta :
          /\ offsetMeta[s] <= session[s]
          /\ s \in DOMAIN reader => reader[s].id <= offsetMeta[s]
          /\ \A key \in user.key \cup returned : key.shard = s => key.reader <= offsetMeta[s]
    /\ \A s \in DOMAIN reader : reader[s].id <= session[s]
    /\ \A key \in user.key \cup returned : key.reader <= session[key.shard]
    /\ \A s \in DOMAIN shardOffset :
          /\ shardOffset[s].id <= session[s]
          /\ s \in DOMAIN offsetMeta => offsetMeta[s] < shardOffset[s].id
          /\ s \in DOMAIN reader => reader[s].id < shardOffset[s].id
          /\ \A key \in user.key \cup returned :
                key.shard = s => key.reader < shardOffset[s].id

\* CommitOffset lets mMutex go only when mLastOffsetMap is empty, or when it throws.
NothingHeldBack == Unlocked /\ ~terminated => DOMAIN lastOffset = {}

\* The OffsetManager knows what the heartbeat thread holds, adds and releases.
HeldHasMeta ==
    /\ ~ offsetReset => currShards \subseteq DOMAIN offsetMeta
    /\ heartbeat.step \notin {"idle", "clear"} => ~ offsetReset /\ heartbeat.del \subseteq currShards
    /\ heartbeat.step \in {"remove", "force", "erase"} => heartbeat.add \subseteq DOMAIN offsetMeta
    /\ heartbeat.step = "clear" => offsetReset

\* n is the record whose key comes next in the queue of s.
Follows(s, n) ==
    IF sent[s] = <<>>
    THEN AckedUpTo(s, n - 1) /\ (offsetMeta[s] = session[s] => committed[s] = n - 1)
    ELSE n = sent[s][Len(sent[s])].seq + 1

\* The keys of the reader of s that the user thread is about to queue.
Pending(s) == {key \in user.key : key.shard = s /\ key.reader = offsetMeta[s]}

\* The record before the first one whose key was queued for s.
Start(s) == sent[s][1].seq - 1

\* One reader queues the keys of consecutive records, from the first one that was not committed.
KeysInRun(s) ==
    /\ \A i \in 1 .. Len(sent[s]) : sent[s][i].seq = Start(s) + i
    /\ sent[s] # <<>> => AckedUpTo(s, Start(s))
    /\ \A key \in Pending(s) : Follows(s, key.seq)
    /\ s \in DOMAIN reader /\ reader[s].id = offsetMeta[s] =>
          IF Pending(s) = {} THEN Follows(s, reader[s].next)
                             ELSE \A key \in Pending(s) : reader[s].next = key.seq + 1

\* What is to be committed is the key popped last; without it, that key is committed.
LastIsPopped(s) ==
    /\ s \in DOMAIN lastOffset => Popped(s) > 0 /\ lastOffset[s] = sent[s][Popped(s)]
    /\ sent[s] # <<>> /\ offsetMeta[s] = session[s] =>
          /\ committed[s] <= Start(s) + Popped(s)
          /\ s \notin DOMAIN lastOffset => committed[s] = Start(s) + Popped(s)

OneReader == \A s \in DOMAIN offsetRequest \ mixed : KeysInRun(s) /\ LastIsPopped(s)

\* A reader starts after what was committed when its session was opened.
OffsetsAcked ==
    \A s \in DOMAIN shardOffset \ mixed :
        /\ AckedUpTo(s, shardOffset[s].next - 1)
        /\ shardOffset[s].id = session[s] => committed[s] = shardOffset[s].next - 1

\* Read returns a record of the session only when its key was queued.
ReturnedQueued ==
    \A key \in returned :
        key.shard \in DOMAIN offsetMeta \ mixed /\ key.reader = offsetMeta[key.shard] =>
            \E i \in 1 .. Len(sent[key.shard]) : sent[key.shard][i] = key

\* OneReaderAtLeastOnce is not inductive: a commit stores lastOffset, which says nothing of the
\* records before it unless the keys of the queue are consecutive and begin right after what
\* was committed when the session was opened.
DeliveryInv ==
    /\ IInv
    /\ MetaFound
    /\ ReadsOne
    /\ AckedReturned
    /\ SessionsGrow
    /\ NothingHeldBack
    /\ HeldHasMeta
    /\ OneReader
    /\ OffsetsAcked
    /\ ReturnedQueued
    /\ OneReaderAtLeastOnce

----------------------------------------------------------------------------
(* The user and the heartbeat thread, around the maps *)

LEMMA InitDelivery == Init => DeliveryInv
<1> SUFFICES ASSUME Init PROVE DeliveryInv
  OBVIOUS
<1>1. IInv /\ MetaFound
  BY InitIInv, InitMetaFound
<1>2. ReadsOne /\ AckedReturned /\ SessionsGrow
  BY DEF Init, ReadsOne, AckedReturned, SessionsGrow, NotReading, EmptyMap
<1>3. NothingHeldBack /\ HeldHasMeta
  BY DEF Init, NothingHeldBack, HeldHasMeta, Idle, EmptyMap
<1>4. OneReader /\ OffsetsAcked /\ ReturnedQueued
  BY DEF Init, OneReader, OffsetsAcked, ReturnedQueued, EmptyMap
<1>5. OneReaderAtLeastOnce
  BY DEF Init, OneReaderAtLeastOnce
<1> QED
  BY <1>1, <1>2, <1>3, <1>4, <1>5 DEF DeliveryInv

\* CreateShardReader opens a session ...
Opens == InitSession \/ \E new \in SUBSET (Shards \ listed) : ListShard(new)

\* ... and adds the readers, in the heartbeat or in the user thread.
Creates == CreateReaders \/ CreateListedReader

LEMMA OpensFacts ==
    ASSUME TypeOK, ReadsOne, Opens
    PROVE  \E add \in SUBSET Shards :
               /\ OpenSession(add)
               /\ user'.key = user.key
               /\ UNCHANGED <<offsetMeta, offsetRequest, lastOffset, sent, mixed, reader,
                              acked, returned, committed>>
<1>1. CASE InitSession
  BY <1>1 DEF InitSession, manager, application, TypeOK, GroupType
<1>2. ASSUME NEW new \in SUBSET (Shards \ listed), ListShard(new)
      PROVE  /\ OpenSession(new)
             /\ user'.key = user.key
             /\ UNCHANGED <<offsetMeta, offsetRequest, lastOffset, sent, mixed, reader,
                            acked, returned, committed>>
  BY <1>2 DEF ListShard, NotReading, ReadsOne, manager
<1> QED
  BY <1>1, <1>2 DEF Opens

LEMMA CreatesFacts ==
    ASSUME TypeOK, ReadsOne, Creates
    PROVE  /\ AddReaders(DOMAIN shardOffset)
           /\ DOMAIN shardOffset \subseteq Shards
           /\ ~terminated
           /\ user'.key = user.key
           /\ UNCHANGED <<lastOffset, committing, terminated, offsetReset, acked, returned,
                          session, committed>>
<1>1. DOMAIN shardOffset \subseteq Shards
  BY DEF TypeOK, GroupType, IsMap
<1>2. CASE CreateReaders
  BY <1>1, <1>2 DEF CreateReaders, commitThread, application, service, TypeOK, GroupType
<1>3. CASE CreateListedReader
  BY <1>1, <1>3 DEF CreateListedReader, NotReading, ReadsOne, commitThread, service
<1> QED
  BY <1>2, <1>3 DEF Creates

LEMMA NextReadsOne ==
    ASSUME TypeOK, ReadsOne, AckedReturned, [Next]_vars
    PROVE  ReadsOne' /\ AckedReturned'
<1> USE DEF ReadsOne, AckedReturned
<1>1. ASSUME NEW s \in Shards, ReadRecord(s) PROVE ReadsOne' /\ AckedReturned'
  <2> DEFINE key == [shard |-> s, seq |-> reader[s].next, reader |-> reader[s].id]
  <2>1. user' = [step |-> "send", key |-> {key}] /\ UNCHANGED <<acked, returned>>
    BY <1>1 DEF ReadRecord
  <2>2. TypeOK'
    BY NextTypeOK
  <2>3. key \in Key
    BY <2>1, <2>2 DEF TypeOK, ApplicationType
  <2> QED
    BY <2>1, <2>3
<1>2. ASSUME NEW key \in user.key, SendOffsetRequest(key) PROVE ReadsOne' /\ AckedReturned'
  BY <1>2 DEF SendOffsetRequest, NotReading
<1>3. ASSUME NEW key \in returned, Ack(key) PROVE ReadsOne' /\ AckedReturned'
  BY <1>3 DEF Ack
<1>4. CASE Restart
  BY <1>4 DEF Restart, NotReading
<1>5. ASSUME NEW new \in SUBSET (Shards \ listed), ListShard(new) PROVE ReadsOne' /\ AckedReturned'
  BY <1>5 DEF ListShard, NotReading
<1>6. CASE CreateListedReader
  BY <1>6 DEF CreateListedReader, NotReading
<1>7. CASE UNCHANGED application
  BY <1>7 DEF application
<1> QED
  BY <1>1, <1>2, <1>3, <1>4, <1>5, <1>6, <1>7
     DEF Next, User, HeartbeatThread, CommitOffsetTask, Rejoin, ReadEnd, Heartbeat, InitSession,
         CreateReaders, RemoveReaders, ForceCommitDone, ForceCommitTimeout, EraseShards,
         ResetReaders, ClearOffsets, SyncOffset, CommitSucceeds, CommitFails,
         RewindSubscription, vars

LEMMA NextNothingHeldBack ==
    ASSUME NothingHeldBack, [Next]_vars
    PROVE  NothingHeldBack'
<1> USE DEF NothingHeldBack, Unlocked
<1>1. CASE EraseShards
  BY <1>1 DEF EraseShards, EraseMaps, Erase, commitThread
<1>2. CASE ClearOffsets \/ Restart
  BY <1>2 DEF ClearOffsets, Restart, EmptyMap
<1>3. CASE SyncOffset
  BY <1>3 DEF SyncOffset
<1>4. CASE CommitSucceeds
  BY <1>4 DEF CommitSucceeds, EmptyMap
<1>5. CASE CommitFails
  BY <1>5 DEF CommitFails, manager
<1>6. CASE UNCHANGED <<lastOffset, commitThread>>
  BY <1>6 DEF commitThread
<1> QED
  BY <1>1, <1>2, <1>3, <1>4, <1>5, <1>6
     DEF Next, User, HeartbeatThread, CommitOffsetTask, ReadRecord, SendOffsetRequest, Ack,
         Rejoin, ListShard, CreateListedReader, ReadEnd, Heartbeat, InitSession, CreateReaders,
         RemoveReaders, ForceCommitDone, ForceCommitTimeout, ResetReaders, RewindSubscription,
         vars, manager

LEMMA NextHeldHasMeta ==
    ASSUME TypeOK, ReadsOne, HeldHasMeta, [Next]_vars
    PROVE  HeldHasMeta'
<1> USE DEF HeldHasMeta
<1>0. heartbeat \in [step : {"idle", "init", "create", "remove", "force", "erase", "clear"},
                     add : SUBSET Shards, del : SUBSET Shards]
  BY DEF TypeOK, GroupType
<1>1. ASSUME UNCHANGED <<currShards, heartbeat, offsetReset>>,
             DOMAIN offsetMeta \subseteq DOMAIN offsetMeta'
      PROVE  HeldHasMeta'
  BY <1>1
<1>2. ASSUME NEW key \in user.key, SendOffsetRequest(key) PROVE HeldHasMeta'
  BY <1>1, <1>2 DEF SendOffsetRequest, group
<1>3. CASE Rejoin
  BY <1>3 DEF Rejoin, manager
<1>4. ASSUME NEW plan \in SUBSET Shards, Heartbeat(plan) PROVE HeldHasMeta'
  BY <1>4 DEF Heartbeat, manager
<1>5. CASE InitSession
  BY <1>0, <1>5 DEF InitSession, manager
<1>6. CASE CreateReaders
  <2>1. DOMAIN offsetMeta' = DOMAIN offsetMeta \cup heartbeat.add
    BY <1>6 DEF CreateReaders, AddReaders, Assign
  <2>2. /\ offsetReset' = offsetReset
        /\ ~ offsetReset /\ heartbeat.del \subseteq currShards
        /\ currShards \subseteq DOMAIN offsetMeta
    BY <1>6 DEF CreateReaders
  <2>3. \/ heartbeat' = Idle /\ currShards' = currShards \cup heartbeat.add
        \/ heartbeat' = [heartbeat EXCEPT !.step = "remove"] /\ currShards' = currShards
    BY <1>6 DEF CreateReaders
  <2> QED
    BY <1>0, <2>1, <2>2, <2>3 DEF Idle
<1>7. CASE CreateListedReader
  <2>1. DOMAIN offsetMeta \subseteq DOMAIN offsetMeta'
    BY <1>7 DEF CreateListedReader, AddReaders, Assign
  <2> QED
    BY <1>1, <1>7, <2>1 DEF CreateListedReader
<1>8. CASE RemoveReaders
  BY <1>0, <1>8 DEF RemoveReaders, manager
<1>9. CASE ForceCommitDone \/ ForceCommitTimeout
  BY <1>0, <1>9 DEF ForceCommitDone, ForceCommitTimeout, manager
<1>10. CASE EraseShards
  BY <1>10 DEF EraseShards, EraseMaps, Erase, Idle
<1>11. CASE ResetReaders
  BY <1>11 DEF ResetReaders, Idle, manager
<1>12. CASE ClearOffsets
  BY <1>12 DEF ClearOffsets, EmptyMap, Idle
<1>13. CASE Restart
  BY <1>13 DEF Restart, EmptyMap, Idle
<1>14. CASE UNCHANGED <<offsetMeta, currShards, heartbeat, offsetReset>>
  BY <1>1, <1>14
<1> QED
  BY <1>2, <1>3, <1>4, <1>5, <1>6, <1>7, <1>8, <1>9, <1>10, <1>11, <1>12, <1>13, <1>14
     DEF Next, User, HeartbeatThread, CommitOffsetTask, ReadRecord, Ack, ListShard, ReadEnd,
         SyncOffset, CommitSucceeds, CommitFails, RewindSubscription, vars, manager, group

\* A step that opens no session, adds no reader and makes no key keeps the sessions in order.
LEMMA SessionsKept ==
    ASSUME SessionsGrow,
           TypeOK, TypeOK',
           \A s \in DOMAIN offsetMeta' : s \in DOMAIN offsetMeta /\ offsetMeta'[s] = offsetMeta[s],
           \A s \in DOMAIN reader' : s \in DOMAIN reader /\ reader'[s].id = reader[s].id,
           \A s \in DOMAIN shardOffset' :
               s \in DOMAIN shardOffset /\ shardOffset'[s] = shardOffset[s],
           \A s \in Shards : session[s] <= session'[s],
           user'.key \cup returned' \subseteq user.key \cup returned
    PROVE  SessionsGrow'
<1> USE DEF SessionsGrow
<1>1. /\ session \in [Shards -> Int] /\ session' \in [Shards -> Int]
      /\ \A key \in user.key \cup returned : key.shard \in Shards /\ key.reader \in Int
      /\ \A s \in DOMAIN offsetMeta : s \in Shards /\ offsetMeta[s] \in Int
      /\ \A s \in DOMAIN reader : s \in Shards /\ reader[s].id \in Int
      /\ \A s \in DOMAIN shardOffset : s \in Shards /\ shardOffset[s].id \in Int
  BY DEF TypeOK, ServiceType, ApplicationType, ManagerType, GroupType, IsMap, Key, Position
<1>2. \A a, b, c \in Int : a <= b /\ b <= c => a <= c
  OBVIOUS
<1>3. ASSUME NEW s \in DOMAIN offsetMeta'
      PROVE  /\ offsetMeta'[s] <= session'[s]
             /\ s \in DOMAIN reader' => reader'[s].id <= offsetMeta'[s]
             /\ \A key \in user'.key \cup returned' : key.shard = s => key.reader <= offsetMeta'[s]
  BY <1>1, <1>2, <1>3
<1>4. ASSUME NEW s \in DOMAIN reader' PROVE reader'[s].id <= session'[s]
  BY <1>1, <1>2, <1>4
<1>5. ASSUME NEW key \in user'.key \cup returned' PROVE key.reader <= session'[key.shard]
  BY <1>1, <1>2, <1>5
<1>6. ASSUME NEW s \in DOMAIN shardOffset'
      PROVE  /\ shardOffset'[s].id <= session'[s]
             /\ s \in DOMAIN offsetMeta' => offsetMeta'[s] < shardOffset'[s].id
             /\ s \in DOMAIN reader' => reader'[s].id < shardOffset'[s].id
             /\ \A key \in user'.key \cup returned' :
                   key.shard = s => key.reader < shardOffset'[s].id
  BY <1>1, <1>2, <1>6
<1> QED
  BY <1>3, <1>4, <1>5, <1>6

LEMMA NextSessionsGrow ==
    ASSUME TypeOK, ReadsOne, AckedReturned, SessionsGrow, [Next]_vars
    PROVE  SessionsGrow'
<1>0. TypeOK'
  BY NextTypeOK
<1>a. \A s \in Shards : session[s] \in Int /\ session[s] <= session[s] /\ session[s] <= session[s] + 1
  BY DEF TypeOK, ServiceType
<1>b. session \in [Shards -> Int] /\ session' \in [Shards -> Int]
  BY <1>0 DEF TypeOK, ServiceType
<1>c. \A s \in DOMAIN reader : s \in Shards /\ reader[s] \in Position
  BY DEF TypeOK, GroupType, IsMap
<1>1. ASSUME NEW s \in Shards, ReadRecord(s) PROVE SessionsGrow'
  <2> DEFINE key == [shard |-> s, seq |-> reader[s].next, reader |-> reader[s].id]
  <2>1. /\ user.key = {} /\ user'.key = {key}
        /\ s \in DOMAIN reader /\ reader' = [reader EXCEPT ![s].next = @ + 1]
        /\ UNCHANGED <<offsetMeta, shardOffset, session, returned>>
    BY <1>1 DEF ReadRecord, ReadsOne, manager, service
  <2>2. \A x \in DOMAIN reader' : x \in DOMAIN reader /\ reader'[x].id = reader[x].id
    BY <1>c, <2>1 DEF Position
  <2>3. key.shard = s /\ key.reader = reader[s].id
    OBVIOUS
  <2> HIDE DEF key
  <2>4. user'.key \cup returned' = {key} \cup returned
    BY <2>1
  <2> QED
    BY <2>1, <2>2, <2>3, <2>4 DEF SessionsGrow
<1>2. ASSUME NEW key \in user.key, SendOffsetRequest(key) PROVE SessionsGrow'
  <2>1. user'.key \cup returned' \subseteq user.key \cup returned
    BY <1>2 DEF SendOffsetRequest, NotReading
  <2>2. UNCHANGED <<offsetMeta, reader, shardOffset, session>>
    BY <1>2 DEF SendOffsetRequest, group, service
  <2> QED
    BY <1>0, <1>a, <2>1, <2>2, SessionsKept
<1>3. CASE Opens
  <2>1. PICK add \in SUBSET Shards :
           /\ session' = [s \in Shards |-> IF s \in add THEN session[s] + 1 ELSE session[s]]
           /\ DOMAIN shardOffset' = add
           /\ \A s \in add : shardOffset'[s].id = session[s] + 1
           /\ user'.key = user.key
           /\ UNCHANGED <<offsetMeta, reader, returned>>
    BY <1>3, OpensFacts DEF OpenSession
  <2>2. \A s \in Shards : session[s] <= session'[s]
    BY <1>a, <2>1
  <2>3. /\ \A key \in user.key \cup returned : key.shard \in Shards /\ key.reader \in Int
        /\ \A s \in DOMAIN offsetMeta : s \in Shards /\ offsetMeta[s] \in Int
        /\ \A s \in DOMAIN reader : s \in Shards /\ reader[s].id \in Int
    BY DEF TypeOK, ServiceType, ApplicationType, ManagerType, GroupType, IsMap, Key, Position
  <2>4. \A a, b, c \in Int : /\ a <= b /\ b <= c => a <= c
                             /\ a <= b => a < b + 1
    OBVIOUS
  <2>5. ASSUME NEW s \in DOMAIN offsetMeta
        PROVE  /\ offsetMeta[s] <= session'[s]
               /\ s \in DOMAIN reader => reader[s].id <= offsetMeta[s]
               /\ \A key \in user.key \cup returned : key.shard = s => key.reader <= offsetMeta[s]
    BY <1>b, <2>2, <2>3, <2>4 DEF SessionsGrow
  <2>6. ASSUME NEW s \in DOMAIN reader PROVE reader[s].id <= session'[s]
    BY <1>b, <2>2, <2>3, <2>4 DEF SessionsGrow
  <2>7. ASSUME NEW key \in user.key \cup returned PROVE key.reader <= session'[key.shard]
    BY <1>b, <2>2, <2>3, <2>4 DEF SessionsGrow
  <2>8. ASSUME NEW s \in add
        PROVE  /\ session[s] + 1 <= session'[s]
               /\ s \in DOMAIN offsetMeta => offsetMeta[s] < session[s] + 1
               /\ s \in DOMAIN reader => reader[s].id < session[s] + 1
               /\ \A key \in user.key \cup returned :
                     key.shard = s => key.reader < session[s] + 1
    BY <1>a, <1>b, <2>1, <2>3, <2>4 DEF SessionsGrow
  <2> QED
    BY <2>1, <2>5, <2>6, <2>7, <2>8 DEF SessionsGrow
<1>4. CASE Creates
  <2> DEFINE add == DOMAIN shardOffset
  <2>1. /\ DOMAIN shardOffset' = {}
        /\ user'.key = user.key
        /\ UNCHANGED <<returned, session>>
        /\ DOMAIN offsetMeta' = DOMAIN offsetMeta \cup add
        /\ \A s \in DOMAIN offsetMeta' :
              offsetMeta'[s] = IF s \in add THEN shardOffset[s].id ELSE offsetMeta[s]
        /\ DOMAIN reader' = DOMAIN reader \cup add
        /\ \A s \in DOMAIN reader' :
              reader'[s] = IF s \in DOMAIN reader THEN reader[s] ELSE shardOffset[s]
    BY <1>4, CreatesFacts DEF AddReaders, Assign, EmptyMap
  <2>2. \A s \in add : shardOffset[s].id \in Int
    BY <2>1 DEF TypeOK, GroupType, IsMap, Position
  <2>3. \A a, b \in Int : a < b => a <= b
    OBVIOUS
  <2>4. /\ \A key \in user.key \cup returned : key.reader \in Int
        /\ \A s \in DOMAIN reader : reader[s].id \in Int
        /\ \A a \in Int : a <= a
    BY <1>c DEF TypeOK, ApplicationType, Key, Position
  <2>5. ASSUME NEW s \in DOMAIN offsetMeta'
        PROVE  /\ offsetMeta'[s] <= session[s]
               /\ s \in DOMAIN reader' => reader'[s].id <= offsetMeta'[s]
               /\ \A key \in user.key \cup returned : key.shard = s => key.reader <= offsetMeta'[s]
    <3>1. CASE s \in add
      BY <2>1, <2>2, <2>3, <2>4, <3>1 DEF SessionsGrow
    <3>2. CASE s \notin add
      BY <2>1, <3>2 DEF SessionsGrow
    <3> QED
      BY <3>1, <3>2
  <2>6. ASSUME NEW s \in DOMAIN reader' PROVE reader'[s].id <= session[s]
    BY <2>1 DEF SessionsGrow
  <2>7. \A key \in user.key \cup returned : key.reader <= session[key.shard]
    BY DEF SessionsGrow
  <2> QED
    BY <2>1, <2>5, <2>6, <2>7 DEF SessionsGrow
<1>5. CASE /\ UNCHANGED <<offsetMeta, session, application>>
           /\ \A s \in DOMAIN reader' : s \in DOMAIN reader /\ reader'[s] = reader[s]
           /\ shardOffset' = shardOffset
  <2>1. /\ offsetMeta' = offsetMeta /\ session' = session /\ shardOffset' = shardOffset
        /\ user' = user /\ returned' = returned
    BY <1>5 DEF application
  <2>2. \A s \in DOMAIN reader' : s \in DOMAIN reader /\ reader'[s].id = reader[s].id
    BY <1>5
  <2> QED
    BY <1>0, <1>a, <2>1, <2>2, SessionsKept
<1>6. CASE EraseShards
  BY <1>0, <1>6, <1>a, SessionsKept DEF EraseShards, EraseMaps, Erase, application, service
<1>7. CASE ClearOffsets
  BY <1>0, <1>7, <1>a, SessionsKept DEF ClearOffsets, EmptyMap, application, service
<1>8. ASSUME NEW s \in Shards, RewindSubscription(s) PROVE SessionsGrow'
  <2>1. \A x \in Shards : session[x] <= session'[x]
    BY <1>8, <1>a, <1>b DEF RewindSubscription
  <2> QED
    BY <1>0, <1>8, <2>1, SessionsKept DEF RewindSubscription, manager, group, application
<1>9. CASE Restart
  BY <1>0, <1>9, <1>a, SessionsKept
     DEF Restart, EmptyMap, NotReading, AckedReturned, service
<1>10. ASSUME NEW key \in returned, Ack(key) PROVE SessionsGrow'
  BY <1>0, <1>10, <1>a, SessionsKept DEF Ack, manager, group, service
<1> QED
  BY <1>1, <1>2, <1>3, <1>4, <1>5, <1>6, <1>7, <1>8, <1>9, <1>10
     DEF Next, User, HeartbeatThread, CommitOffsetTask, Opens, Creates, Rejoin, ReadEnd,
         Heartbeat, RemoveReaders, Erase,
         ForceCommitDone, ForceCommitTimeout, ResetReaders, EmptyMap, SyncOffset,
         CommitSucceeds, CommitFails, vars, manager, group, service

----------------------------------------------------------------------------
(* The keys of one reader *)

\* What is acknowledged stays acknowledged.
LEMMA AckedStays ==
    ASSUME NEW s, NEW n, AckedUpTo(s, n), acked \subseteq acked'
    PROVE  AckedUpTo(s, n)'
  BY DEF AckedUpTo, Acknowledged

\* A shard whose queue and session a step leaves alone.
SameShard(s) ==
    /\ sent'[s] = sent[s]
    /\ offsetMeta'[s] = offsetMeta[s]
    /\ acked \subseteq acked'
    /\ offsetMeta[s] = session'[s] => session[s] = session'[s] /\ committed'[s] = committed[s]

LEMMA FollowsKept ==
    ASSUME NEW s, NEW n, SameShard(s), Follows(s, n)
    PROVE  Follows(s, n)'
<1>1. CASE sent[s] = <<>>
  <2>1. AckedUpTo(s, n - 1)'
    BY <1>1, AckedStays DEF SameShard, Follows
  <2>2. offsetMeta'[s] = session'[s] => committed'[s] = n - 1
    BY <1>1 DEF SameShard, Follows
  <2> QED
    BY <1>1, <2>1, <2>2 DEF SameShard, Follows
<1>2. CASE sent[s] # <<>>
  BY <1>2 DEF SameShard, Follows
<1> QED
  BY <1>1, <1>2

LEMMA KeysKept ==
    ASSUME NEW s, SameShard(s), KeysInRun(s),
           s \in DOMAIN reader' => s \in DOMAIN reader /\ reader'[s] = reader[s],
           Pending(s)' = Pending(s)
    PROVE  KeysInRun(s)'
<1>1. Start(s)' = Start(s) /\ sent'[s] = sent[s] /\ offsetMeta'[s] = offsetMeta[s]
  BY DEF Start, SameShard
<1>2. \A i \in 1 .. Len(sent'[s]) : sent'[s][i].seq = Start(s)' + i
  BY <1>1 DEF KeysInRun
<1>3. sent'[s] # <<>> => AckedUpTo(s, Start(s))'
  <2>1. sent[s] # <<>> => \A m \in 1 .. Start(s) : Acknowledged(s, m)
    BY DEF KeysInRun, AckedUpTo
  <2>2. \A m : Acknowledged(s, m) => Acknowledged(s, m)'
    BY DEF Acknowledged, SameShard
  <2> QED
    BY <1>1, <2>1, <2>2 DEF AckedUpTo
<1>4. \A key \in Pending(s) : Follows(s, key.seq)'
  BY FollowsKept DEF KeysInRun
<1>5. s \in DOMAIN reader' /\ reader'[s].id = offsetMeta'[s] =>
          IF Pending(s) = {} THEN Follows(s, reader[s].next)'
                             ELSE \A key \in Pending(s) : reader'[s].next = key.seq + 1
  <2> SUFFICES ASSUME s \in DOMAIN reader', reader'[s].id = offsetMeta'[s]
               PROVE  IF Pending(s) = {} THEN Follows(s, reader[s].next)'
                                         ELSE \A key \in Pending(s) : reader'[s].next = key.seq + 1
    OBVIOUS
  <2>1. s \in DOMAIN reader /\ reader'[s] = reader[s]
    OBVIOUS
  <2>2. IF Pending(s) = {} THEN Follows(s, reader[s].next)
                           ELSE \A key \in Pending(s) : reader[s].next = key.seq + 1
    BY <1>1, <2>1 DEF KeysInRun
  <2>3. ASSUME Follows(s, reader[s].next) PROVE Follows(s, reader[s].next)'
    <3>1. PICK n : n = reader[s].next
      OBVIOUS
    <3>2. Follows(s, n)'
      BY <2>3, <3>1, FollowsKept
    <3> QED
      BY <2>1, <3>1, <3>2 DEF Follows, AckedUpTo
  <2> QED
    BY <2>1, <2>2, <2>3
<1> QED
  <2>1. \A key \in Pending(s)' : Follows(s, key.seq)'
    BY <1>4
  <2>2. s \in DOMAIN reader' /\ reader'[s].id = offsetMeta'[s] =>
          IF Pending(s)' = {} THEN Follows(s, reader[s].next)'
                              ELSE \A key \in Pending(s)' : reader'[s].next = key.seq + 1
    BY <1>5
  <2> QED
    BY <1>2, <1>3, <2>1, <2>2 DEF KeysInRun

LEMMA LastKept ==
    ASSUME NEW s, SameShard(s), LastIsPopped(s),
           offsetRequest'[s] = offsetRequest[s],
           s \in DOMAIN lastOffset' <=> s \in DOMAIN lastOffset,
           s \in DOMAIN lastOffset => lastOffset'[s] = lastOffset[s]
    PROVE  LastIsPopped(s)'
<1>1. Start(s)' = Start(s) /\ Popped(s)' = Popped(s)
  BY DEF Start, Popped, SameShard
<1> QED
  BY <1>1 DEF LastIsPopped, SameShard

LEMMA ShardFacts ==
    ASSUME IInv, MetaFound, NEW s \in DOMAIN offsetRequest
    PROVE  /\ s \in Shards /\ s \in DOMAIN offsetMeta
           /\ sent[s] \in Seq(Key) /\ Len(sent[s]) \in Nat
           /\ offsetRequest[s] \in Seq(Key)
           /\ \A i \in 1 .. Len(sent[s]) :
                 sent[s][i] \in Key /\ sent[s][i].shard = s /\ sent[s][i].seq \in Int
           /\ sent[s] # <<>> => Start(s) \in Int /\ Len(sent[s]) > 0
           /\ Popped(s) \in 0 .. Len(sent[s])
           /\ offsetMeta[s] \in Int
<1>1. s \in Shards /\ s \in DOMAIN offsetMeta
  BY DEF IInv, TypeOK, ManagerType, IsMap, MetaFound
<1>2. sent[s] \in Seq(Key) /\ offsetRequest[s] \in Seq(Key) /\ offsetMeta[s] \in Int
  BY <1>1 DEF IInv, TypeOK, ManagerType, IsMap
<1>3. Popped(s) \in 0 .. Len(sent[s])
  BY <1>2, QueueEntries DEF IInv, PoppedAcked
<1>4. \A i \in 1 .. Len(sent[s]) :
          sent[s][i] \in Key /\ sent[s][i].shard = s /\ sent[s][i].seq \in Int
  <2>1. \A i \in 1 .. Len(sent[s]) : sent[s][i] \in Key
    BY <1>2
  <2>2. \A key \in Key : key.seq \in Int
    BY DEF Key
  <2> QED
    BY <1>1, <2>1, <2>2 DEF IInv, SentOfShard
<1>5. sent[s] # <<>> => Start(s) \in Int /\ Len(sent[s]) > 0
  <2>1. sent[s] # <<>> => Len(sent[s]) > 0
    BY <1>2
  <2> QED
    BY <1>2, <1>4, <2>1 DEF Start
<1> QED
  BY <1>1, <1>2, <1>3, <1>4, <1>5

\* What is to be committed for a shard of one reader follows the records committed before.
LEMMA LastOffsetAcked ==
    ASSUME IInv, MetaFound, NEW s \in DOMAIN lastOffset \ mixed, KeysInRun(s), LastIsPopped(s)
    PROVE  /\ s \in DOMAIN offsetRequest /\ sent[s] # <<>>
           /\ lastOffset[s].seq = Start(s) + Popped(s)
           /\ AckedUpTo(s, lastOffset[s].seq)
<1>1. s \in DOMAIN offsetRequest
  BY DEF MetaFound
<1>2. /\ sent[s] \in Seq(Key) /\ Len(sent[s]) \in Nat
      /\ Popped(s) \in 1 .. Len(sent[s])
      /\ \A i \in 1 .. Len(sent[s]) : sent[s][i].shard = s
  BY <1>1, ShardFacts DEF LastIsPopped
<1>3. sent[s] # <<>> /\ Start(s) \in Int
  BY <1>1, <1>2, ShardFacts
<1>4. lastOffset[s].seq = Start(s) + Popped(s)
  BY <1>2 DEF LastIsPopped, KeysInRun
<1>5. ASSUME NEW m \in 1 .. lastOffset[s].seq PROVE Acknowledged(s, m)
  <2>1. CASE m <= Start(s)
    BY <1>3, <1>4, <1>5, <2>1 DEF KeysInRun, AckedUpTo
  <2>2. CASE m > Start(s)
    <3>1. m \in Int /\ m <= Start(s) + Popped(s)
      BY <1>2, <1>3, <1>4, <1>5
    <3>2. \A a, b, c \in Int : a > b /\ a <= b + c => a - b \in 1 .. c /\ b + (a - b) = a
      OBVIOUS
    <3>3. m - Start(s) \in 1 .. Popped(s) /\ Start(s) + (m - Start(s)) = m
      BY <1>2, <1>3, <2>2, <3>1, <3>2
    <3>4. m - Start(s) \in 1 .. Len(sent[s])
      BY <1>2, <3>3
    <3>5. /\ sent[s][m - Start(s)].seq = m
          /\ sent[s][m - Start(s)].shard = s
      BY <1>2, <3>3, <3>4 DEF KeysInRun
    <3>6. sent[s][m - Start(s)] \in acked
      BY <1>1, <3>3 DEF IInv, PoppedAcked, QueueSuffix
    <3> QED
      BY <3>5, <3>6 DEF Acknowledged
  <2> QED
    BY <1>2, <1>3, <1>4, <2>1, <2>2
<1> QED
  BY <1>1, <1>3, <1>4, <1>5 DEF AckedUpTo

\* SyncOffset pops the acknowledged keys and files the last of them.
LEMMA SyncedShard ==
    ASSUME IInv, MetaFound, SyncOffset, NEW s \in DOMAIN offsetRequest
    PROVE  \E k \in 0 .. Len(sent[s]) - Popped(s) :
               /\ Popped(s)' = Popped(s) + k
               /\ k = 0 => /\ s \in DOMAIN lastOffset' <=> s \in DOMAIN lastOffset
                           /\ s \in DOMAIN lastOffset => lastOffset'[s] = lastOffset[s]
                           /\ offsetRequest'[s] = offsetRequest[s]
               /\ k > 0 => s \in DOMAIN lastOffset' /\ lastOffset'[s] = sent[s][Popped(s) + k]
<1> DEFINE popped == [x \in DOMAIN offsetRequest |-> AckedPrefix(offsetRequest[x])]
           synced == {x \in DOMAIN offsetRequest : popped[x] > 0}
           newest == [x \in synced |-> offsetRequest[x][popped[x]]]
<1>1. /\ offsetRequest' = [x \in DOMAIN offsetRequest |->
             SubSeq(offsetRequest[x], popped[x] + 1, Len(offsetRequest[x]))]
      /\ lastOffset' = Assign(lastOffset, newest)
      /\ sent' = sent
  BY DEF SyncOffset
<1>2. /\ sent[s] \in Seq(Key) /\ offsetRequest[s] \in Seq(Key) /\ QueueSuffix(s)
      /\ popped[s] \in 0 .. Len(offsetRequest[s])
  BY ShardFacts, AckedPrefixBounds DEF IInv, PoppedAcked
<1>3. /\ Popped(s) \in 0 .. Len(sent[s])
      /\ Len(offsetRequest[s]) = Len(sent[s]) - Popped(s)
      /\ \A i \in 1 .. Len(offsetRequest[s]) : offsetRequest[s][i] = sent[s][Popped(s) + i]
  BY <1>2, QueueEntries
<1> HIDE DEF popped
<1> DEFINE k == popped[s]
           l == Len(sent[s])
<1>4. k \in 0 .. l - Popped(s)
  BY <1>2, <1>3
<1>5. Popped(s)' = Popped(s) + k
  <2>1. Len(offsetRequest'[s]) = Len(offsetRequest[s]) - k
    BY <1>1, <1>2, SuffixProperties
  <2>2. Popped(s)' = l - ((l - Popped(s)) - k)
    BY <1>1, <1>3, <2>1 DEF Popped
  <2>3. l \in Nat /\ Popped(s) \in Nat /\ k \in Nat
    BY <1>2, <1>3, <1>4
  <2>4. \A a, b, c \in Nat : a - ((a - b) - c) = b + c
    OBVIOUS
  <2> HIDE DEF l, k
  <2> QED
    BY <2>2, <2>3, <2>4
<1>6. ASSUME k = 0
      PROVE  /\ s \in DOMAIN lastOffset' <=> s \in DOMAIN lastOffset
             /\ s \in DOMAIN lastOffset => lastOffset'[s] = lastOffset[s]
             /\ offsetRequest'[s] = offsetRequest[s]
  <2>1. s \notin synced
    BY <1>6
  <2>2. s \in DOMAIN lastOffset' <=> s \in DOMAIN lastOffset
    BY <1>1, <2>1 DEF Assign
  <2>3. s \in DOMAIN lastOffset => lastOffset'[s] = lastOffset[s]
    BY <1>1, <2>1, <2>2 DEF Assign
  <2>4. offsetRequest'[s] = offsetRequest[s]
    BY <1>1, <1>2, <1>6, SuffixProperties, SeqEqual
  <2> QED
    BY <2>2, <2>3, <2>4
<1>7. ASSUME k > 0
      PROVE  s \in DOMAIN lastOffset' /\ lastOffset'[s] = sent[s][Popped(s) + k]
  <2>1. s \in synced /\ newest[s] = offsetRequest[s][k]
    BY <1>7
  <2>2. k \in 1 .. Len(offsetRequest[s])
    BY <1>2, <1>7
  <2> QED
    BY <1>1, <1>3, <2>1, <2>2 DEF Assign
<1> QED
  BY <1>4, <1>5, <1>6, <1>7

LEMMA SendKeepsOneReader ==
    ASSUME DeliveryInv, NEW key \in user.key, SendOffsetRequest(key),
           NEW s \in DOMAIN offsetRequest' \ mixed'
    PROVE  KeysInRun(s)' /\ LastIsPopped(s)'
<1>1. /\ user.key = {key} /\ user'.key = {}
      /\ UNCHANGED <<offsetMeta, lastOffset, reader, acked, session, committed>>
  BY DEF SendOffsetRequest, DeliveryInv, ReadsOne, NotReading, group, service
<1>2. IInv /\ MetaFound
  BY DEF DeliveryInv
<1>3. key \in Key /\ key.seq \in Int
  BY <1>2 DEF IInv, TypeOK, ApplicationType, Key
<1>4. /\ s \in DOMAIN offsetRequest \ mixed
      /\ s = key.shard => offsetMeta[s] = key.reader
  BY DEF SendOffsetRequest, Push
<1>5. KeysInRun(s) /\ LastIsPopped(s)
  BY <1>4 DEF DeliveryInv, OneReader
<1>6. Pending(s)' = {}
  BY <1>1 DEF Pending
<1>7. CASE s # key.shard
  <2>1. Pending(s) = {}
    BY <1>1, <1>7 DEF Pending
  <2>2. sent'[s] = sent[s] /\ offsetRequest'[s] = offsetRequest[s]
    <3>1. sent \in [Shards -> Seq(Key)] /\ s \in Shards
      BY <1>2, <1>4, ShardFacts DEF IInv, TypeOK, ManagerType
    <3>2. CASE key.shard \in DOMAIN offsetRequest
      BY <1>4, <1>7, <3>1, <3>2 DEF SendOffsetRequest, Push
    <3>3. CASE key.shard \notin DOMAIN offsetRequest
      BY <3>3 DEF SendOffsetRequest
    <3> QED
      BY <3>2, <3>3
  <2>3. SameShard(s)
    BY <1>1, <2>2 DEF SameShard
  <2> QED
    BY <1>1, <1>5, <1>6, <2>1, <2>2, <2>3, KeysKept, LastKept
<1>8. CASE s = key.shard
  <2>1. Pending(s) = {key} /\ Follows(s, key.seq)
    BY <1>1, <1>4, <1>5, <1>8 DEF Pending, KeysInRun
  <2>2. /\ s \in Shards /\ sent[s] \in Seq(Key) /\ Len(sent[s]) \in Nat
        /\ offsetRequest[s] \in Seq(Key)
        /\ sent[s] # <<>> => Start(s) \in Int /\ Len(sent[s]) > 0
        /\ Popped(s) \in 0 .. Len(sent[s])
    BY <1>2, <1>4, ShardFacts
  <2>3. /\ sent'[s] = Append(sent[s], key)
        /\ offsetRequest'[s] = Append(offsetRequest[s], key)
    <3>1. sent \in [Shards -> Seq(Key)]
      BY <1>2 DEF IInv, TypeOK, ManagerType
    <3> QED
      BY <1>4, <1>8, <2>2, <3>1 DEF SendOffsetRequest, Push
  <2>4. /\ Len(sent'[s]) = Len(sent[s]) + 1
        /\ \A i \in 1 .. Len(sent[s]) : sent'[s][i] = sent[s][i]
        /\ sent'[s][Len(sent[s]) + 1] = key
        /\ sent'[s] # <<>>
    <3>1. /\ Append(sent[s], key) # <<>>
          /\ Len(Append(sent[s], key)) = Len(sent[s]) + 1
          /\ \A i \in 1 .. Len(sent[s]) : Append(sent[s], key)[i] = sent[s][i]
          /\ Append(sent[s], key)[Len(sent[s]) + 1] = key
      BY <1>3, <2>2, AppendProperties
    <3> QED
      BY <2>3, <3>1
  <2>5. Popped(s)' = Popped(s)
    <3>1. Len(offsetRequest'[s]) = Len(offsetRequest[s]) + 1
      BY <1>3, <2>2, <2>3
    <3>2. \A m, n \in Nat : (m + 1) - (n + 1) = m - n
      OBVIOUS
    <3>3. Len(offsetRequest[s]) \in Nat
      BY <2>2
    <3> QED
      BY <2>2, <2>4, <3>1, <3>2, <3>3 DEF Popped
  <2>6. reader'[s] = reader[s] /\ offsetMeta'[s] = offsetMeta[s]
    BY <1>1
  <2>7. s \in DOMAIN reader' /\ reader'[s].id = offsetMeta'[s] => Follows(s, reader[s].next)'
    <3> SUFFICES ASSUME s \in DOMAIN reader', reader'[s].id = offsetMeta'[s]
                 PROVE  Follows(s, reader[s].next)'
      OBVIOUS
    <3>1. reader[s].next = key.seq + 1
      BY <1>1, <1>5, <2>1, <2>6 DEF KeysInRun
    <3> QED
      BY <2>4, <2>6, <3>1 DEF Follows
  <2>8. CASE sent[s] = <<>>
    <3>1. /\ Len(sent[s]) = 0 /\ Popped(s) = 0
          /\ sent'[s][1] = key /\ Start(s)' = key.seq - 1
      BY <2>2, <2>4, <2>8 DEF Start
    <3>2. \A i \in 1 .. Len(sent'[s]) : sent'[s][i].seq = Start(s)' + i
      <4>1. \A i \in 1 .. Len(sent'[s]) : i = 1
        BY <2>4, <3>1
      <4> QED
        BY <1>3, <3>1, <4>1
    <3>3. AckedUpTo(s, Start(s))'
      <4>1. AckedUpTo(s, key.seq - 1)
        BY <2>1, <2>8 DEF Follows
      <4> QED
        BY <1>1, <3>1, <4>1 DEF AckedUpTo, Acknowledged
    <3>4. s \notin DOMAIN lastOffset'
      BY <1>1, <1>5, <3>1 DEF LastIsPopped
    <3>5. offsetMeta'[s] = session'[s] => committed'[s] = Start(s)' + Popped(s)'
      <4>1. offsetMeta'[s] = session'[s] => committed'[s] = key.seq - 1
        BY <1>1, <2>1, <2>8 DEF Follows
      <4> QED
        BY <1>3, <2>5, <3>1, <4>1
    <3>6. Start(s)' + Popped(s)' \in Int
      BY <1>3, <2>5, <3>1
    <3>7. LastIsPopped(s)'
      BY <3>4, <3>5, <3>6 DEF LastIsPopped
    <3>8. KeysInRun(s)'
      BY <1>6, <2>7, <3>2, <3>3 DEF KeysInRun
    <3> QED
      BY <3>7, <3>8
  <2>9. CASE sent[s] # <<>>
    <3>1. Start(s)' = Start(s)
      BY <2>2, <2>4, <2>9 DEF Start
    <3>2. \A i \in 1 .. Len(sent'[s]) : sent'[s][i].seq = Start(s)' + i
      <4>1. key.seq = Start(s) + (Len(sent[s]) + 1)
        <5>1. Len(sent[s]) \in 1 .. Len(sent[s])
          BY <2>2, <2>9
        <5>2. key.seq = (Start(s) + Len(sent[s])) + 1
          BY <1>5, <2>1, <2>9, <5>1 DEF Follows, KeysInRun
        <5> QED
          BY <2>2, <2>9, <5>2
      <4>2. \A i \in 1 .. Len(sent'[s]) : i \in 1 .. Len(sent[s]) \/ i = Len(sent[s]) + 1
        BY <2>2, <2>4
      <4> QED
        BY <1>5, <2>4, <3>1, <4>1, <4>2 DEF KeysInRun
    <3>3. AckedUpTo(s, Start(s))'
      <4>1. AckedUpTo(s, Start(s))
        BY <1>5, <2>9 DEF KeysInRun
      <4> QED
        BY <1>1, <3>1, <4>1 DEF AckedUpTo, Acknowledged
    <3>4. s \in DOMAIN lastOffset' => Popped(s)' > 0 /\ lastOffset'[s] = sent'[s][Popped(s)']
      BY <1>1, <1>5, <2>2, <2>4, <2>5 DEF LastIsPopped
    <3>5. LastIsPopped(s)'
      BY <1>1, <1>5, <2>5, <2>9, <3>1, <3>4 DEF LastIsPopped
    <3>6. KeysInRun(s)'
      BY <1>6, <2>7, <3>2, <3>3 DEF KeysInRun
    <3> QED
      BY <3>5, <3>6
  <2> QED
    BY <2>8, <2>9
<1> QED
  BY <1>7, <1>8

LEMMA CreateKeepsOneReader ==
    ASSUME DeliveryInv, Creates, NEW s \in DOMAIN offsetRequest' \ mixed'
    PROVE  KeysInRun(s)' /\ LastIsPopped(s)'
<1> DEFINE add == DOMAIN shardOffset
<1>1. /\ IInv /\ TypeOK /\ MetaFound /\ ReadsOne /\ SessionsGrow /\ NothingHeldBack
      /\ OffsetsAcked /\ OneReader
  BY DEF DeliveryInv, IInv
<1>2. /\ AddReaders(add) /\ ~terminated /\ add \subseteq Shards
      /\ user'.key = user.key
      /\ UNCHANGED <<acked, session, committed, lastOffset>>
  BY <1>1, CreatesFacts
<1>3. /\ DOMAIN offsetRequest' = DOMAIN offsetRequest \cup add
      /\ mixed' = mixed \cup (add \cap DOMAIN reader)
      /\ DOMAIN lastOffset = {}
  BY <1>1, <1>2 DEF AddReaders, Assign, NothingHeldBack
<1>4. CASE s \in add
  <2>1. s \notin DOMAIN reader /\ s \in DOMAIN shardOffset \ mixed
    BY <1>3, <1>4
  <2>2. /\ sent'[s] = <<>> /\ offsetRequest'[s] = <<>>
        /\ offsetMeta'[s] = shardOffset[s].id
        /\ reader'[s] = shardOffset[s]
    BY <1>2, <1>4, <2>1 DEF AddReaders, Assign
  <2>3. /\ AckedUpTo(s, shardOffset[s].next - 1)
        /\ shardOffset[s].id = session[s] => committed[s] = shardOffset[s].next - 1
    BY <1>1, <2>1 DEF OffsetsAcked
  <2>4. Pending(s)' = {}
    <3>1. \A key \in user.key : key.shard = s => key.reader < shardOffset[s].id
      BY <1>1, <2>1 DEF SessionsGrow
    <3>2. \A key \in user.key : key.shard = s => key.reader # shardOffset[s].id
      <4>1. shardOffset[s].id \in Int
        BY <1>1, <1>4 DEF TypeOK, GroupType, IsMap, Position
      <4> QED
        BY <3>1, <4>1
    <3> QED
      BY <1>2, <2>2, <3>2 DEF Pending
  <2>5. Follows(s, reader[s].next)'
    <3>1. AckedUpTo(s, reader[s].next - 1)'
      BY <1>2, <2>2, <2>3 DEF AckedUpTo, Acknowledged
    <3> QED
      BY <1>2, <2>2, <2>3, <3>1 DEF Follows
  <2>6. Len(sent'[s]) = 0
    BY <2>2
  <2>7. KeysInRun(s)'
    BY <2>2, <2>4, <2>5, <2>6 DEF KeysInRun
  <2>8. LastIsPopped(s)'
    BY <1>2, <1>3, <2>2 DEF LastIsPopped
  <2> QED
    BY <2>7, <2>8
<1>5. CASE s \notin add
  <2>1. s \in DOMAIN offsetRequest \ mixed /\ s \in DOMAIN offsetMeta /\ s \in Shards
    BY <1>1, <1>3, <1>5, ShardFacts
  <2>2. /\ sent'[s] = sent[s] /\ offsetRequest'[s] = offsetRequest[s]
        /\ offsetMeta'[s] = offsetMeta[s]
        /\ s \in DOMAIN reader' => s \in DOMAIN reader /\ reader'[s] = reader[s]
    BY <1>2, <1>5, <2>1 DEF AddReaders, Assign
  <2>3. SameShard(s) /\ Pending(s)' = Pending(s)
    BY <1>2, <2>2 DEF SameShard, Pending
  <2>4. KeysInRun(s) /\ LastIsPopped(s)
    BY <1>1, <2>1 DEF OneReader
  <2> QED
    BY <1>2, <2>2, <2>3, <2>4, KeysKept, LastKept
<1> QED
  BY <1>4, <1>5

LEMMA SyncKeepsOneReader ==
    ASSUME DeliveryInv, SyncOffset, NEW s \in DOMAIN offsetRequest \ mixed
    PROVE  KeysInRun(s)' /\ LastIsPopped(s)'
<1>1. IInv /\ MetaFound /\ KeysInRun(s) /\ LastIsPopped(s)
  BY DEF DeliveryInv, OneReader
<1>2. UNCHANGED <<offsetMeta, sent, reader, user, acked, session, committed>>
  BY DEF SyncOffset, group, application, service
<1>3. SameShard(s) /\ Pending(s)' = Pending(s)
  BY <1>2 DEF SameShard, Pending
<1>4. KeysInRun(s)'
  BY <1>1, <1>2, <1>3, KeysKept
<1>5. PICK k \in 0 .. Len(sent[s]) - Popped(s) :
          /\ Popped(s)' = Popped(s) + k
          /\ k = 0 => /\ s \in DOMAIN lastOffset' <=> s \in DOMAIN lastOffset
                      /\ s \in DOMAIN lastOffset => lastOffset'[s] = lastOffset[s]
                      /\ offsetRequest'[s] = offsetRequest[s]
          /\ k > 0 => s \in DOMAIN lastOffset' /\ lastOffset'[s] = sent[s][Popped(s) + k]
  BY <1>1, SyncedShard
<1>6. CASE k = 0
  <2>1. LastIsPopped(s)'
    BY <1>1, <1>3, <1>5, <1>6, LastKept
  <2> QED
    BY <1>4, <2>1
<1>7. CASE k > 0
  <2>1. Popped(s) \in Nat /\ (sent[s] # <<>> => Start(s) \in Int)
    BY <1>1, ShardFacts
  <2>2. Popped(s)' > 0 /\ lastOffset'[s] = sent'[s][Popped(s)'] /\ s \in DOMAIN lastOffset'
    BY <1>2, <1>5, <1>7, <2>1
  <2>3. ASSUME sent[s] # <<>>, offsetMeta[s] = session[s]
        PROVE  committed[s] <= Start(s) + Popped(s)'
    <3>1. committed[s] <= Start(s) + Popped(s)
      BY <1>1, <2>3 DEF LastIsPopped
    <3>2. committed[s] \in Int
      <4>1. s \in Shards
        BY <1>1, ShardFacts
      <4> QED
        BY <1>1, <4>1 DEF IInv, TypeOK, ServiceType
    <3>3. \A a, b, c, d \in Int : a <= b + c /\ d > 0 => a <= b + (c + d)
      OBVIOUS
    <3> QED
      BY <1>5, <1>7, <2>1, <2>3, <3>1, <3>2, <3>3
  <2>4. Start(s)' = Start(s)
    BY <1>2 DEF Start
  <2> QED
    BY <1>2, <1>4, <2>2, <2>3, <2>4 DEF LastIsPopped
<1> QED
  BY <1>4, <1>5, <1>6, <1>7

\* The service takes the offsets, and CommitOffset hears of it or repeats them.
LEMMA StoreKeepsOneReader ==
    ASSUME DeliveryInv, Accepted, Store,
           UNCHANGED <<offsetMeta, offsetRequest, sent, mixed, reader, user, acked, session>>,
           lastOffset' = lastOffset \/ DOMAIN lastOffset' = {},
           NEW s \in DOMAIN offsetRequest \ mixed
    PROVE  KeysInRun(s)' /\ LastIsPopped(s)'
<1>1. IInv /\ MetaFound /\ KeysInRun(s) /\ LastIsPopped(s)
  BY DEF DeliveryInv, OneReader
<1>2. s \in Shards /\ (sent[s] # <<>> => Start(s) \in Int) /\ Popped(s) \in Int
  BY <1>1, ShardFacts
<1>3. Start(s)' = Start(s) /\ Popped(s)' = Popped(s) /\ Pending(s)' = Pending(s)
  BY DEF Start, Popped, Pending
<1>4. CASE s \in DOMAIN lastOffset
  <2>1. /\ sent[s] # <<>> /\ lastOffset[s].seq = Start(s) + Popped(s)
        /\ committed'[s] = Start(s) + Popped(s)
    BY <1>1, <1>2, <1>4, LastOffsetAcked DEF Store
  <2>2. \A n : Follows(s, n) => Follows(s, n)'
    BY <2>1 DEF Follows
  <2>3. AckedUpTo(s, Start(s))'
    BY <1>1, <1>3, <2>1 DEF KeysInRun, AckedUpTo, Acknowledged
  <2>4. Follows(s, reader[s].next) => Follows(s, reader[s].next)'
    BY <2>1 DEF Follows
  <2>5. \A i \in 1 .. Len(sent'[s]) : sent'[s][i].seq = Start(s)' + i
    BY <1>1, <1>3 DEF KeysInRun
  <2>6. \A key \in Pending(s)' : Follows(s, key.seq)'
    BY <1>1, <1>3, <2>2 DEF KeysInRun
  <2>7. s \in DOMAIN reader' /\ reader'[s].id = offsetMeta'[s] =>
          IF Pending(s)' = {} THEN Follows(s, reader[s].next)'
                              ELSE \A key \in Pending(s)' : reader'[s].next = key.seq + 1
    BY <1>1, <1>3, <2>4 DEF KeysInRun
  <2>8. KeysInRun(s)'
    BY <2>3, <2>5, <2>6, <2>7 DEF KeysInRun
  <2>9. s \in DOMAIN lastOffset' => Popped(s)' > 0 /\ lastOffset'[s] = sent'[s][Popped(s)']
    BY <1>1, <1>3 DEF LastIsPopped
  <2>10. Start(s) + Popped(s) <= Start(s) + Popped(s)
    BY <1>2, <2>1
  <2>11. LastIsPopped(s)'
    BY <1>3, <2>1, <2>9, <2>10 DEF LastIsPopped
  <2> QED
    BY <2>8, <2>11
<1>5. CASE s \notin DOMAIN lastOffset
  <2>1. committed'[s] = committed[s]
    BY <1>2, <1>5 DEF Store
  <2>2. SameShard(s)
    BY <2>1 DEF SameShard
  <2>3. s \notin DOMAIN lastOffset'
    BY <1>5
  <2>4. KeysInRun(s)'
    BY <1>1, <1>3, <2>2, KeysKept
  <2>5. LastIsPopped(s)'
    BY <1>1, <1>5, <2>2, <2>3, LastKept
  <2> QED
    BY <2>4, <2>5
<1> QED
  BY <1>4, <1>5

\* A step that touches neither the queues nor the reader of a shard: what the service does
\* at most is to make the session of the shard an old one.
LEMMA OthersKeepOneReader ==
    ASSUME DeliveryInv,
           \A s \in DOMAIN offsetRequest' \ mixed' :
               /\ s \in DOMAIN offsetRequest \ mixed
               /\ SameShard(s)
               /\ offsetRequest'[s] = offsetRequest[s]
               /\ s \in DOMAIN lastOffset' <=> s \in DOMAIN lastOffset
               /\ s \in DOMAIN lastOffset => lastOffset'[s] = lastOffset[s]
               /\ s \in DOMAIN reader' => s \in DOMAIN reader /\ reader'[s] = reader[s],
           user'.key = user.key
    PROVE  OneReader'
<1> SUFFICES ASSUME NEW s \in DOMAIN offsetRequest' \ mixed'
             PROVE  KeysInRun(s)' /\ LastIsPopped(s)'
  BY DEF OneReader
<1>1. KeysInRun(s) /\ LastIsPopped(s)
  BY DEF DeliveryInv, OneReader
<1>2. Pending(s)' = Pending(s)
  BY DEF Pending, SameShard
<1> QED
  BY <1>1, <1>2, KeysKept, LastKept

\* A record read is the next one.
LEMMA ReadKeepsOneReader ==
    ASSUME DeliveryInv, NEW t \in Shards, ReadRecord(t), NEW s \in DOMAIN offsetRequest \ mixed
    PROVE  KeysInRun(s)' /\ LastIsPopped(s)'
<1> DEFINE key == [shard |-> t, seq |-> reader[t].next, reader |-> reader[t].id]
<1>1. /\ user.key = {} /\ user'.key = {key}
      /\ t \in DOMAIN reader /\ reader' = [reader EXCEPT ![t].next = @ + 1]
      /\ UNCHANGED <<offsetMeta, offsetRequest, lastOffset, sent, acked, session, committed>>
  BY DEF ReadRecord, DeliveryInv, ReadsOne, manager, service
<1>2. IInv /\ MetaFound /\ KeysInRun(s) /\ LastIsPopped(s)
  BY DEF DeliveryInv, OneReader
<1>3. SameShard(s) /\ Start(s)' = Start(s)
  BY <1>1 DEF SameShard, Start
<1>4. LastIsPopped(s)'
  BY <1>1, <1>2, <1>3, LastKept
<1>5. Pending(s) = {}
  BY <1>1 DEF Pending
<1>6. CASE Pending(s)' = {}
  <2>1. s \in DOMAIN reader' /\ reader'[s].id = offsetMeta'[s] =>
            s \in DOMAIN reader /\ reader'[s] = reader[s]
    <3>1. CASE s = t
      <4>1. reader[t] \in Position
        BY <1>1, <1>2 DEF IInv, TypeOK, GroupType, IsMap
      <4>2. reader'[t].id = reader[t].id
        BY <1>1, <4>1 DEF Position
      <4>3. reader[t].id # offsetMeta[t]
        <5>1. key.shard = t /\ key.reader = reader[t].id
          OBVIOUS
        <5>2. key \in user'.key /\ offsetMeta'[t] = offsetMeta[t]
          BY <1>1
        <5> HIDE DEF key
        <5> QED
          BY <1>6, <3>1, <5>1, <5>2 DEF Pending
      <4> QED
        BY <1>1, <3>1, <4>2, <4>3
    <3>2. CASE s # t
      BY <1>1, <3>2
    <3> QED
      BY <3>1, <3>2
  <2>2. s \in DOMAIN reader' /\ reader'[s].id = offsetMeta'[s] => Follows(s, reader[s].next)'
    <3> SUFFICES ASSUME s \in DOMAIN reader', reader'[s].id = offsetMeta'[s]
                 PROVE  Follows(s, reader[s].next)'
      OBVIOUS
    <3>1. PICK n : n = reader[s].next
      OBVIOUS
    <3>2. reader'[s].next = n /\ Follows(s, n)
      BY <1>1, <1>2, <1>5, <2>1, <3>1 DEF KeysInRun
    <3>3. Follows(s, n)'
      BY <1>3, <3>2, FollowsKept
    <3> QED
      BY <3>2, <3>3 DEF Follows, AckedUpTo
  <2>3. sent'[s] # <<>> => AckedUpTo(s, Start(s))'
    BY <1>1, <1>2, <1>3 DEF KeysInRun, AckedUpTo, Acknowledged
  <2>4. \A i \in 1 .. Len(sent'[s]) : sent'[s][i].seq = Start(s)' + i
    BY <1>1, <1>2, <1>3 DEF KeysInRun
  <2> QED
    BY <1>4, <1>6, <2>2, <2>3, <2>4 DEF KeysInRun
<1>7. CASE Pending(s)' # {}
  <2>1. s = t /\ reader[s].id = offsetMeta[s] /\ Pending(s)' = {key}
    BY <1>1, <1>7 DEF Pending
  <2>2. Follows(s, key.seq)
    BY <1>1, <1>2, <1>5, <2>1 DEF KeysInRun
  <2>3. reader'[s].next = key.seq + 1
    <3>1. reader[t] \in Position
      BY <1>1, <1>2 DEF IInv, TypeOK, GroupType, IsMap
    <3> QED
      BY <1>1, <2>1, <3>1 DEF Position
  <2> HIDE DEF key
  <2>4. \A k \in Pending(s)' : Follows(s, k.seq)'
    <3>1. PICK n : n = key.seq
      OBVIOUS
    <3>2. Follows(s, n)'
      BY <1>3, <2>2, <3>1, FollowsKept
    <3>3. ASSUME NEW k \in Pending(s)' PROVE Follows(s, k.seq)'
      <4>1. k.seq = n
        BY <2>1, <3>1, <3>3
      <4> QED
        BY <3>2, <4>1
    <3> QED
      BY <3>3
  <2>5. sent'[s] # <<>> => AckedUpTo(s, Start(s))'
    BY <1>1, <1>2, <1>3 DEF KeysInRun, AckedUpTo, Acknowledged
  <2>6. \A i \in 1 .. Len(sent'[s]) : sent'[s][i].seq = Start(s)' + i
    BY <1>1, <1>2, <1>3 DEF KeysInRun
  <2>7. Pending(s)' # {} /\ \A k \in Pending(s)' : reader'[s].next = k.seq + 1
    BY <2>1, <2>3
  <2> QED
    BY <1>4, <2>4, <2>5, <2>6, <2>7 DEF KeysInRun
<1> QED
  BY <1>6, <1>7

LEMMA NextOneReader ==
    ASSUME DeliveryInv, [Next]_vars
    PROVE  OneReader'
<1>0. /\ IInv /\ TypeOK /\ MetaFound /\ ReadsOne /\ SessionsGrow /\ OneReader
      /\ session \in [Shards -> Int]
      /\ \A s \in DOMAIN offsetMeta : s \in Shards /\ offsetMeta[s] \in Int
      /\ heartbeat.add \in SUBSET Shards
  BY DEF DeliveryInv, IInv, TypeOK, ManagerType, ServiceType, GroupType, IsMap
<1>a. \A s \in DOMAIN offsetRequest : s \in Shards /\ s \in DOMAIN offsetMeta
  BY <1>0 DEF MetaFound
<1>b. \A m, n \in Int : m <= n => m # n + 1
  OBVIOUS
<1>1. ASSUME NEW t \in Shards, ReadRecord(t) PROVE OneReader'
  <2>1. UNCHANGED <<offsetRequest, mixed>>
    BY <1>1 DEF ReadRecord, manager
  <2> QED
    BY <1>1, <2>1, ReadKeepsOneReader DEF OneReader
<1>2. ASSUME NEW key \in user.key, SendOffsetRequest(key) PROVE OneReader'
  BY <1>2, SendKeepsOneReader DEF OneReader
<1>3. ASSUME NEW key \in returned, Ack(key) PROVE OneReader'
  BY <1>3, OthersKeepOneReader DEF Ack, SameShard, manager, group, service
<1>4. ASSUME NEW plan \in SUBSET Shards, Heartbeat(plan) PROVE OneReader'
  BY <1>4, OthersKeepOneReader DEF Heartbeat, SameShard, manager, application, service
<1>5. CASE Opens
  <2>1. PICK add \in SUBSET Shards :
           /\ \A s \in Shards : session'[s] = IF s \in add THEN session[s] + 1 ELSE session[s]
           /\ user'.key = user.key
           /\ UNCHANGED <<offsetMeta, offsetRequest, lastOffset, sent, mixed, reader, acked,
                          committed>>
    BY <1>0, <1>5, OpensFacts DEF OpenSession
  <2>2. ASSUME NEW s \in DOMAIN offsetRequest PROVE SameShard(s)
    <3>1. s \in Shards /\ offsetMeta[s] \in Int /\ session[s] \in Int /\ offsetMeta[s] <= session[s]
      BY <1>0, <1>a DEF SessionsGrow
    <3> QED
      BY <1>b, <2>1, <3>1 DEF SameShard
  <2> QED
    BY <2>1, <2>2, OthersKeepOneReader
<1>6. CASE Creates
  BY <1>6, CreateKeepsOneReader DEF OneReader
<1>7. CASE RemoveReaders \/ \E s \in Shards : ReadEnd(s)
  BY <1>7, OthersKeepOneReader DEF RemoveReaders, ReadEnd, Erase, SameShard, manager, application, service
<1>8. CASE Rejoin \/ ForceCommitDone \/ ForceCommitTimeout
  BY <1>8, OthersKeepOneReader
     DEF Rejoin, ForceCommitDone, ForceCommitTimeout, SameShard, manager, application, service
<1>9. CASE EraseShards
  <2>1. /\ DOMAIN offsetRequest' = DOMAIN offsetRequest \ heartbeat.del
        /\ DOMAIN lastOffset' = DOMAIN lastOffset \ heartbeat.del
        /\ DOMAIN offsetMeta' = DOMAIN offsetMeta \ heartbeat.del
        /\ \A s \in DOMAIN offsetRequest' :
              /\ offsetRequest'[s] = offsetRequest[s]
              /\ s \in DOMAIN lastOffset => lastOffset'[s] = lastOffset[s]
              /\ offsetMeta'[s] = offsetMeta[s]
        /\ UNCHANGED <<sent, mixed, reader, user, acked, session, committed>>
    BY <1>9, <1>0 DEF EraseShards, EraseMaps, Erase, MetaFound, application, service
  <2> QED
    BY <2>1, OthersKeepOneReader DEF SameShard
<1>10. CASE ResetReaders
  BY <1>10, OthersKeepOneReader DEF ResetReaders, EmptyMap, SameShard, manager, application, service
<1>11. CASE ClearOffsets \/ Restart
  BY <1>11 DEF ClearOffsets, Restart, EmptyMap, OneReader
<1>12. CASE SyncOffset
  <2>1. DOMAIN offsetRequest' = DOMAIN offsetRequest /\ mixed' = mixed
    BY <1>12 DEF SyncOffset
  <2> QED
    BY <1>12, <2>1, SyncKeepsOneReader DEF OneReader
<1>13. CASE CommitSucceeds
  <2>1. /\ Accepted /\ Store /\ DOMAIN lastOffset' = {}
        /\ UNCHANGED <<offsetMeta, offsetRequest, sent, mixed, reader, user, acked, session>>
    BY <1>13 DEF CommitSucceeds, EmptyMap, group, application
  <2> QED
    BY <2>1, StoreKeepsOneReader DEF OneReader
<1>14. CASE CommitFails
  <2>1. /\ UNCHANGED <<offsetMeta, offsetRequest, lastOffset, sent, mixed, reader, user, acked,
                       session>>
        /\ (Accepted /\ Store) \/ UNCHANGED committed
    BY <1>14 DEF CommitFails, manager, group, application
  <2>2. CASE Accepted /\ Store
    BY <2>1, <2>2, StoreKeepsOneReader DEF OneReader
  <2>3. CASE UNCHANGED committed
    BY <2>1, <2>3, OthersKeepOneReader DEF SameShard
  <2> QED
    BY <2>1, <2>2, <2>3
<1>15. ASSUME NEW t \in Shards, RewindSubscription(t) PROVE OneReader'
  <2>1. /\ \A s \in Shards : /\ session'[s] = IF s = t THEN session[s] + 1 ELSE session[s]
                             /\ s # t => committed'[s] = committed[s]
        /\ UNCHANGED <<offsetMeta, offsetRequest, lastOffset, sent, mixed, reader, user, acked>>
    BY <1>0, <1>15
       DEF RewindSubscription, manager, group, application, IInv, TypeOK, ServiceType
  <2>2. ASSUME NEW s \in DOMAIN offsetRequest PROVE SameShard(s)
    <3>1. s \in Shards /\ offsetMeta[s] \in Int /\ session[s] \in Int /\ offsetMeta[s] <= session[s]
      BY <1>0, <1>a DEF SessionsGrow
    <3> QED
      BY <1>b, <2>1, <3>1 DEF SameShard
  <2> QED
    BY <2>1, <2>2, OthersKeepOneReader
<1>16. CASE UNCHANGED vars
  BY <1>16, OthersKeepOneReader DEF vars, manager, group, application, service, SameShard
<1> QED
  BY <1>1, <1>2, <1>3, <1>4, <1>5, <1>6, <1>7, <1>8, <1>9, <1>10, <1>11, <1>12, <1>13, <1>14,
     <1>15, <1>16 DEF Next, User, HeartbeatThread, CommitOffsetTask, Opens, Creates

\* What the service stores for a shard of one reader.
LEMMA StoredOffset ==
    ASSUME DeliveryInv, Store, NEW s \in Shards \ mixed
    PROVE  IF s \in DOMAIN lastOffset
           THEN /\ committed'[s] = lastOffset[s].seq
                /\ AckedUpTo(s, lastOffset[s].seq)
                /\ Accepted => offsetMeta[s] = session[s] /\ committed[s] <= lastOffset[s].seq
           ELSE committed'[s] = committed[s]
<1>1. CASE s \in DOMAIN lastOffset
  <2>1. IInv /\ MetaFound /\ s \in DOMAIN offsetRequest /\ KeysInRun(s) /\ LastIsPopped(s)
    BY <1>1 DEF DeliveryInv, OneReader, MetaFound
  <2>2. /\ sent[s] # <<>>
        /\ lastOffset[s].seq = Start(s) + Popped(s)
        /\ AckedUpTo(s, lastOffset[s].seq)
    BY <1>1, <2>1, LastOffsetAcked
  <2>3. Accepted => offsetMeta[s] = session[s]
    BY <1>1 DEF Accepted
  <2>4. Accepted => committed[s] <= lastOffset[s].seq
    BY <2>1, <2>2, <2>3 DEF LastIsPopped
  <2> QED
    BY <1>1, <2>2, <2>3, <2>4 DEF Store
<1>2. CASE s \notin DOMAIN lastOffset
  BY <1>2 DEF Store
<1> QED
  BY <1>1, <1>2

LEMMA NextOneReaderAtLeastOnce ==
    ASSUME DeliveryInv, [Next]_vars
    PROVE  OneReaderAtLeastOnce'
<1>0. \A s \in Shards \ mixed : AckedUpTo(s, committed[s])
  BY DEF DeliveryInv, OneReaderAtLeastOnce, AckedUpTo
<1>1. ASSUME acked \subseteq acked', mixed \subseteq mixed', UNCHANGED committed
      PROVE  OneReaderAtLeastOnce'
  BY <1>0, <1>1 DEF OneReaderAtLeastOnce, AckedUpTo, Acknowledged
<1>2. ASSUME Store, UNCHANGED <<acked, mixed>> PROVE OneReaderAtLeastOnce'
  <2> SUFFICES ASSUME NEW s \in Shards \ mixed, NEW n \in 1 .. committed'[s]
               PROVE  Acknowledged(s, n)'
    BY <1>2 DEF OneReaderAtLeastOnce
  <2>1. AckedUpTo(s, committed'[s])
    BY <1>0, <1>2, StoredOffset
  <2> QED
    BY <1>2, <2>1 DEF AckedUpTo, Acknowledged
<1>3. CASE CommitSucceeds \/ CommitFails
  BY <1>1, <1>2, <1>3 DEF CommitSucceeds, CommitFails, manager, application
<1>4. ASSUME NEW t \in Shards, RewindSubscription(t) PROVE OneReaderAtLeastOnce'
  <2>1. \A s \in Shards : committed'[s] = 0 \/ committed'[s] = committed[s]
    BY <1>4 DEF RewindSubscription, DeliveryInv, IInv, TypeOK, ServiceType
  <2>2. 1 .. 0 = {} /\ UNCHANGED <<acked, mixed>>
    BY <1>4 DEF RewindSubscription, manager, application
  <2> QED
    BY <1>0, <2>1, <2>2 DEF OneReaderAtLeastOnce, AckedUpTo, Acknowledged
<1> QED
  BY <1>1, <1>3, <1>4
     DEF Next, User, HeartbeatThread, CommitOffsetTask, ReadRecord, SendOffsetRequest, Ack,
         Rejoin, ListShard, CreateListedReader, AddReaders, ReadEnd, Heartbeat, InitSession,
         CreateReaders, RemoveReaders, ForceCommitDone,
         ForceCommitTimeout, EraseShards, ResetReaders, ClearOffsets, SyncOffset, Restart,
         vars, manager, application, service

LEMMA NextOffsetsAcked ==
    ASSUME DeliveryInv, [Next]_vars
    PROVE  OffsetsAcked'
<1>0. /\ TypeOK /\ ReadsOne /\ SessionsGrow /\ OffsetsAcked
      /\ session \in [Shards -> Int] /\ committed \in [Shards -> Int]
      /\ \A s \in DOMAIN shardOffset : s \in Shards /\ shardOffset[s].id \in Int
      /\ \A s \in DOMAIN offsetMeta : offsetMeta[s] \in Int
      /\ DOMAIN lastOffset \subseteq DOMAIN offsetMeta
  BY DEF DeliveryInv, MetaFound, IInv, TypeOK, ServiceType, ManagerType, GroupType, IsMap, Position
<1>1. ASSUME acked \subseteq acked', mixed \subseteq mixed',
             \A s \in DOMAIN shardOffset' :
                 /\ s \in DOMAIN shardOffset /\ shardOffset'[s] = shardOffset[s]
                 /\ shardOffset[s].id = session'[s] =>
                       session[s] = session'[s] /\ committed'[s] = committed[s]
      PROVE  OffsetsAcked'
  <2> SUFFICES ASSUME NEW s \in DOMAIN shardOffset' \ mixed'
               PROVE  /\ AckedUpTo(s, shardOffset[s].next - 1)'
                      /\ shardOffset'[s].id = session'[s] =>
                            committed'[s] = shardOffset'[s].next - 1
    BY DEF OffsetsAcked
  <2>1. /\ s \in DOMAIN shardOffset \ mixed /\ shardOffset'[s] = shardOffset[s]
        /\ AckedUpTo(s, shardOffset[s].next - 1)
        /\ shardOffset[s].id = session[s] => committed[s] = shardOffset[s].next - 1
    BY <1>0, <1>1 DEF OffsetsAcked
  <2>2. AckedUpTo(s, shardOffset[s].next - 1)'
    BY <1>1, <2>1 DEF AckedUpTo, Acknowledged
  <2> QED
    BY <1>1, <2>1, <2>2
<1>2. CASE Opens
  <2> SUFFICES ASSUME NEW s \in DOMAIN shardOffset' \ mixed'
               PROVE  /\ AckedUpTo(s, shardOffset[s].next - 1)'
                      /\ shardOffset'[s].id = session'[s] =>
                            committed'[s] = shardOffset'[s].next - 1
    BY DEF OffsetsAcked
  <2>1. /\ s \in Shards \ mixed /\ acked' = acked /\ committed' = committed
        /\ shardOffset'[s].next = committed[s] + 1
    BY <1>0, <1>2, OpensFacts DEF OpenSession
  <2>2. shardOffset'[s].next - 1 = committed[s]
    BY <1>0, <2>1
  <2>3. AckedUpTo(s, committed[s])
    BY <2>1 DEF DeliveryInv, OneReaderAtLeastOnce, AckedUpTo
  <2> QED
    BY <2>1, <2>2, <2>3 DEF AckedUpTo, Acknowledged
<1>3. CASE Creates \/ Restart
  BY <1>3 DEF Creates, CreateReaders, CreateListedReader, AddReaders, Restart, EmptyMap, OffsetsAcked
<1>4. CASE CommitSucceeds \/ CommitFails
  <2>1. /\ UNCHANGED <<acked, mixed, shardOffset, session>>
        /\ (Accepted /\ Store) \/ UNCHANGED committed
    BY <1>4 DEF CommitSucceeds, CommitFails, manager, group, application
  <2>2. ASSUME Accepted, Store, NEW s \in DOMAIN shardOffset, shardOffset[s].id = session[s]
        PROVE  committed'[s] = committed[s]
    <3>1. s \notin DOMAIN lastOffset
      <4> SUFFICES ASSUME s \in DOMAIN lastOffset PROVE FALSE
        OBVIOUS
      <4>1. offsetMeta[s] = session[s] /\ offsetMeta[s] < shardOffset[s].id /\ offsetMeta[s] \in Int
        BY <1>0, <2>2 DEF Accepted, SessionsGrow
      <4> QED
        BY <2>2, <4>1
    <3> QED
      BY <1>0, <2>2, <3>1 DEF Store
  <2> QED
    BY <1>1, <2>1, <2>2
<1>5. ASSUME NEW t \in Shards, RewindSubscription(t) PROVE OffsetsAcked'
  <2>1. /\ \A s \in Shards : /\ session'[s] = IF s = t THEN session[s] + 1 ELSE session[s]
                             /\ s # t => committed'[s] = committed[s]
        /\ UNCHANGED <<acked, mixed, shardOffset>>
    BY <1>0, <1>5 DEF RewindSubscription, manager, group, application
  <2>2. \A m, n \in Int : m <= n => m # n + 1
    OBVIOUS
  <2>3. ASSUME NEW s \in DOMAIN shardOffset, shardOffset[s].id = session'[s]
        PROVE  session[s] = session'[s] /\ committed'[s] = committed[s]
    <3>1. shardOffset[s].id <= session[s] /\ s \in Shards
      BY <1>0 DEF SessionsGrow
    <3> QED
      BY <1>0, <2>1, <2>2, <2>3, <3>1
  <2> QED
    BY <1>1, <2>1, <2>3
<1>6. CASE UNCHANGED <<shardOffset, session, committed>> /\ acked \subseteq acked' /\ mixed \subseteq mixed'
  BY <1>1, <1>6
<1> QED
  BY <1>2, <1>3, <1>4, <1>5, <1>6
     DEF Next, User, HeartbeatThread, CommitOffsetTask, Opens, Creates, ReadRecord,
         SendOffsetRequest, Ack, Rejoin, ReadEnd, Heartbeat, RemoveReaders, ForceCommitDone, ForceCommitTimeout, EraseShards,
         ResetReaders, ClearOffsets, SyncOffset, vars, manager, group, application, service

LEMMA NextReturnedQueued ==
    ASSUME DeliveryInv, [Next]_vars
    PROVE  ReturnedQueued'
<1>0. /\ IInv /\ TypeOK /\ ReadsOne /\ SessionsGrow /\ ReturnedQueued /\ DOMAIN offsetRequest = DOMAIN offsetMeta
      /\ sent \in [Shards -> Seq(Key)]
      /\ \A key \in user.key \cup returned : key \in Key /\ key.shard \in Shards
  BY DEF DeliveryInv, MetaFound, IInv, TypeOK, ManagerType, ApplicationType, Key
<1>1. ASSUME returned' \subseteq returned, mixed \subseteq mixed', sent' = sent,
             \A s \in DOMAIN offsetMeta' : s \in DOMAIN offsetMeta /\ offsetMeta'[s] = offsetMeta[s]
      PROVE  ReturnedQueued'
  BY <1>0, <1>1 DEF ReturnedQueued
<1>2. ASSUME NEW key \in user.key, SendOffsetRequest(key) PROVE ReturnedQueued'
  <2>1. returned' = returned \cup {key} /\ offsetMeta' = offsetMeta
    BY <1>2 DEF SendOffsetRequest
  <2>2. CASE key.shard \notin DOMAIN offsetMeta
    <3>1. sent' = sent /\ mixed' = mixed
      BY <1>0, <1>2, <2>2 DEF SendOffsetRequest
    <3> QED
      BY <1>0, <2>1, <2>2, <3>1 DEF ReturnedQueued
  <2>3. CASE key.shard \in DOMAIN offsetMeta
    <3>1. /\ sent' = [sent EXCEPT ![key.shard] = Append(@, key)]
          /\ mixed \subseteq mixed'
      BY <1>0, <1>2, <2>3 DEF SendOffsetRequest
    <3>2. /\ sent[key.shard] \in Seq(Key) /\ key \in Key /\ key.shard \in Shards
          /\ sent'[key.shard] = Append(sent[key.shard], key)
          /\ Len(sent[key.shard]) \in Nat
      BY <1>0, <3>1
    <3>3. /\ Len(sent'[key.shard]) = Len(sent[key.shard]) + 1
          /\ \A i \in 1 .. Len(sent[key.shard]) : sent'[key.shard][i] = sent[key.shard][i]
          /\ sent'[key.shard][Len(sent[key.shard]) + 1] = key
      BY <3>2, AppendProperties
    <3>4. ASSUME NEW old \in returned, old.shard \in DOMAIN offsetMeta \ mixed',
                 old.reader = offsetMeta[old.shard]
          PROVE  \E i \in 1 .. Len(sent'[old.shard]) : sent'[old.shard][i] = old
      <4>1. PICK i \in 1 .. Len(sent[old.shard]) : sent[old.shard][i] = old
        BY <1>0, <3>1, <3>4 DEF ReturnedQueued
      <4>2. CASE old.shard = key.shard
        <5>1. i \in 1 .. Len(sent'[old.shard])
          BY <3>2, <3>3, <4>2
        <5> QED
          BY <3>3, <4>1, <4>2, <5>1
      <4>3. CASE old.shard # key.shard
        <5>1. sent'[old.shard] = sent[old.shard]
          BY <1>0, <3>1, <4>3
        <5> QED
          BY <4>1, <5>1
      <4> QED
        BY <4>2, <4>3
    <3>5. \E i \in 1 .. Len(sent'[key.shard]) : sent'[key.shard][i] = key
      <4>1. Len(sent[key.shard]) + 1 \in 1 .. Len(sent'[key.shard])
        BY <3>2, <3>3
      <4> QED
        BY <3>3, <4>1
    <3> QED
      BY <2>1, <3>4, <3>5 DEF ReturnedQueued
  <2> QED
    BY <2>2, <2>3
<1>3. CASE Creates
  <2> DEFINE add == DOMAIN shardOffset
  <2>1. /\ UNCHANGED returned
        /\ mixed \subseteq mixed'
        /\ DOMAIN offsetMeta' = DOMAIN offsetMeta \cup add
        /\ \A s \in DOMAIN offsetMeta' :
              offsetMeta'[s] = IF s \in add THEN shardOffset[s].id ELSE offsetMeta[s]
        /\ \A s \in Shards \ add : sent'[s] = sent[s]
    BY <1>0, <1>3, CreatesFacts DEF AddReaders, Assign
  <2> SUFFICES ASSUME NEW key \in returned, key.shard \in DOMAIN offsetMeta' \ mixed',
                      key.reader = offsetMeta'[key.shard]
               PROVE  \E i \in 1 .. Len(sent'[key.shard]) : sent'[key.shard][i] = key
    BY <2>1 DEF ReturnedQueued
  <2>2. key.shard \notin add
    <3> SUFFICES ASSUME key.shard \in add PROVE FALSE
      OBVIOUS
    <3>1. key.reader < shardOffset[key.shard].id
      BY <1>0, <2>1 DEF SessionsGrow
    <3>2. key.reader = shardOffset[key.shard].id /\ key.reader \in Int
      BY <1>0, <2>1 DEF Key
    <3> QED
      BY <3>1, <3>2
  <2>3. \E i \in 1 .. Len(sent[key.shard]) : sent[key.shard][i] = key
    BY <1>0, <2>1, <2>2 DEF ReturnedQueued
  <2>4. sent'[key.shard] = sent[key.shard]
    BY <1>0, <2>1, <2>2
  <2> QED
    BY <2>3, <2>4
<1>4. CASE EraseShards
  BY <1>1, <1>4 DEF EraseShards, EraseMaps, Erase, application
<1>5. CASE ClearOffsets \/ Restart
  BY <1>5 DEF ClearOffsets, Restart, EmptyMap, ReturnedQueued
<1>6. CASE UNCHANGED <<returned, mixed, sent, offsetMeta>>
  BY <1>1, <1>6
<1> QED
  BY <1>2, <1>3, <1>4, <1>5, <1>6
     DEF Next, User, HeartbeatThread, CommitOffsetTask, Creates, ReadRecord, Ack, Rejoin,
         ListShard, ReadEnd, Heartbeat, InitSession, RemoveReaders, ForceCommitDone, ForceCommitTimeout, ResetReaders,
         SyncOffset, CommitSucceeds, CommitFails, RewindSubscription, vars, manager, application

LEMMA NextDelivery == DeliveryInv /\ [Next]_vars => DeliveryInv'
<1> SUFFICES ASSUME DeliveryInv, [Next]_vars PROVE DeliveryInv'
  OBVIOUS
<1>1. /\ IInv /\ TypeOK /\ MetaFound /\ ReadsOne /\ AckedReturned /\ SessionsGrow
      /\ NothingHeldBack /\ HeldHasMeta
  BY DEF DeliveryInv, IInv
<1>2. IInv' /\ MetaFound'
  BY <1>1, NextIInv, NextMetaFound
<1>3. ReadsOne' /\ AckedReturned' /\ SessionsGrow' /\ NothingHeldBack' /\ HeldHasMeta'
  BY <1>1, NextReadsOne, NextSessionsGrow, NextNothingHeldBack, NextHeldHasMeta
<1>4. OneReader' /\ OffsetsAcked' /\ ReturnedQueued' /\ OneReaderAtLeastOnce'
  BY NextOneReader, NextOffsetsAcked, NextReturnedQueued, NextOneReaderAtLeastOnce
<1> QED
  BY <1>2, <1>3, <1>4 DEF DeliveryInv

\* What is committed for a shard, and what the next owner therefore never reads, was all
\* acknowledged: through lost answers, repeated commits, releases, resets, new sessions and
\* restarts, unless a session was opened while a reader was kept or the key of a replaced
\* reader was queued.
THEOREM CommitsOnlyAcked == Spec => []OneReaderAtLeastOnce
<1>1. DeliveryInv => OneReaderAtLeastOnce
  BY DEF DeliveryInv
<1> QED
  BY <1>1, InitDelivery, NextDelivery, PTL DEF Spec

\* No commit, late or repeated, moves the offset of a session back.
THEOREM CommitsForward == Spec => CommittedMonotonic
<1>1. ASSUME DeliveryInv, [Next]_vars, NEW s \in Shards \ mixed, session'[s] = session[s]
      PROVE  committed'[s] >= committed[s]
  <2>1. committed \in [Shards -> Int] /\ session \in [Shards -> Int]
    BY <1>1 DEF DeliveryInv, IInv, TypeOK, ServiceType
  <2>2. CASE CommitSucceeds \/ CommitFails
    <3>1. (Accepted /\ Store) \/ committed' = committed
      BY <2>2 DEF CommitSucceeds, CommitFails
    <3>2. CASE committed' = committed
      BY <2>1, <3>2
    <3>3. ASSUME Accepted, Store, s \in DOMAIN lastOffset PROVE committed'[s] >= committed[s]
      <4>1. committed'[s] = lastOffset[s].seq /\ committed[s] <= lastOffset[s].seq
        BY <1>1, <3>3, StoredOffset
      <4>2. lastOffset[s].seq \in Int
        BY <1>1, <3>3 DEF DeliveryInv, IInv, TypeOK, ManagerType, IsMap, Key
      <4> QED
        BY <2>1, <4>1, <4>2
    <3>4. ASSUME Store, s \notin DOMAIN lastOffset PROVE committed'[s] >= committed[s]
      BY <1>1, <2>1, <3>4 DEF Store
    <3> QED
      BY <3>1, <3>2, <3>3, <3>4
  <2>3. ASSUME NEW t \in Shards, RewindSubscription(t) PROVE committed'[s] >= committed[s]
    <3>1. s # t
      <4> SUFFICES ASSUME s = t PROVE FALSE
        OBVIOUS
      <4>1. session'[s] = session[s] + 1 /\ session[s] \in Int
        BY <2>1, <2>3 DEF RewindSubscription
      <4> QED
        BY <1>1, <4>1
    <3> QED
      BY <2>1, <2>3, <3>1 DEF RewindSubscription
  <2>4. CASE UNCHANGED committed
    BY <2>1, <2>4
  <2> QED
    BY <1>1, <2>2, <2>3, <2>4
       DEF Next, User, HeartbeatThread, CommitOffsetTask, ReadRecord, SendOffsetRequest, Ack,
           Rejoin, ListShard, CreateListedReader, ReadEnd, Heartbeat, InitSession, CreateReaders, RemoveReaders, ForceCommitDone,
           ForceCommitTimeout, EraseShards, ResetReaders, ClearOffsets, SyncOffset, Restart,
           vars, service
<1>2. DeliveryInv /\ [Next]_vars =>
          [\A s \in Shards \ mixed : session'[s] = session[s] => committed'[s] >= committed[s]]_vars
  BY <1>1
<1> QED
  BY <1>2, InitDelivery, NextDelivery, PTL DEF Spec, CommittedMonotonic

\* When ForceCommitOffset ends because nothing is left to commit, the service knows of every
\* record whose key the reader of the session had queued for one of the released shards.
THEOREM ReleaseIsComplete == Spec => ReleaseCommitsAll
<1>1. ASSUME DeliveryInv, heartbeat.step = "force", NothingToCommit(heartbeat.del),
             NEW key \in returned, key.shard \in heartbeat.del \ mixed,
             key.reader = session[key.shard]
      PROVE  key.seq <= committed[key.shard]
  <2> DEFINE s == key.shard
  <2>1. IInv /\ MetaFound /\ SessionsGrow /\ ReturnedQueued /\ key \in Key
    BY <1>1 DEF DeliveryInv, IInv, TypeOK, ApplicationType
  <2>2. s \in DOMAIN offsetMeta /\ s \in DOMAIN offsetRequest
    BY <1>1, <2>1 DEF DeliveryInv, HeldHasMeta, MetaFound
  <2>3. KeysInRun(s) /\ LastIsPopped(s)
    BY <1>1, <2>2 DEF DeliveryInv, OneReader
  <2>4. offsetMeta[s] = session[s] /\ key.reader = offsetMeta[s]
    <3>1. offsetMeta[s] <= session[s] /\ key.reader <= offsetMeta[s]
      BY <1>1, <2>1, <2>2 DEF SessionsGrow
    <3>2. offsetMeta[s] \in Int /\ session[s] \in Int
      BY <2>1, <2>2 DEF IInv, TypeOK, ManagerType, ServiceType, IsMap
    <3> QED
      BY <1>1, <3>1, <3>2
  <2>5. PICK i \in 1 .. Len(sent[s]) : sent[s][i] = key
    BY <1>1, <2>1, <2>2, <2>4 DEF ReturnedQueued
  <2>6. /\ sent[s] \in Seq(Key) /\ Len(sent[s]) \in Nat
        /\ sent[s] # <<>> /\ Start(s) \in Int
    BY <2>1, <2>2, <2>5, ShardFacts
  <2>7. Popped(s) = Len(sent[s]) /\ s \notin DOMAIN lastOffset
    <3>1. offsetRequest[s] = <<>> /\ DOMAIN lastOffset = {}
      BY <1>1, <2>2 DEF NothingToCommit
    <3>2. Len(offsetRequest[s]) = 0
      BY <3>1
    <3> QED
      BY <2>6, <3>1, <3>2 DEF Popped
  <2>8. committed[s] = Start(s) + Len(sent[s])
    BY <2>3, <2>4, <2>6, <2>7 DEF LastIsPopped
  <2>9. key.seq = Start(s) + i
    BY <2>3, <2>5 DEF KeysInRun
  <2> QED
    BY <2>6, <2>8, <2>9
<1>2. DeliveryInv =>
          [heartbeat.step = "force" /\ heartbeat'.step = "erase" /\ NothingToCommit(heartbeat.del)
             => \A key \in returned :
                   /\ key.shard \in heartbeat.del \ mixed
                   /\ key.reader = session[key.shard]
                   => key.seq <= committed[key.shard]]_vars
  BY <1>1
<1> QED
  BY <1>2, InitDelivery, NextDelivery, PTL DEF Spec, ReleaseCommitsAll
=============================================================================
