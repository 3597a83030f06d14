----------------------- MODULE ConsumerGroup_proofs -----------------------
(***************************************************************************)
(* Between two heartbeats a member of a consumer group has its assigned    *)
(* shards and their readers, for any shards, splits, plans and faults.     *)
(***************************************************************************)
EXTENDS ConsumerGroup, TLAPS

----------------------------------------------------------------------------
(* The inductive invariant *)

Beating == {"create", "remove", "release", "done"}

\* Every entry of a shard in mActiveShards comes from a heartbeat of its own.
BeatsCounted ==
    \A s \in Shards : activeShards[s] + (IF heartbeat.step \in Beating THEN 1 ELSE 0) <= beats

\* Without a heartbeat thread there is no heartbeat under way; between two there is no plan.
ThreadAlive ==
    /\ ~joined => heartbeat = Idle
    /\ pc = "join" => ~joined
    /\ heartbeat.step \in {"idle", "reset"} => heartbeat.plan = {}
    /\ heartbeat.step = "reset" => ~current

\* A shard is read to its end when it is sealed, and leaves the list of shards after that.
EndsAreSealed ==
    /\ readEndShards \subseteq sealed
    /\ pc = "readEnd" => shard \in sealed

\* The list of shards grows by shards that are new, and shrinks by sealed ones.
ListsFollowTopic ==
    /\ metaShards \subseteq listed \cup sealed
    /\ listed \cap FirstShards \subseteq metaShards
    /\ pc \in {"metaCreate", "metaRemove"} =>
           /\ listing \subseteq listed \cup sealed
           /\ metaShards \ listing \subseteq sealed
           /\ listing \cap FirstShards \subseteq metaShards
           /\ listed \cap FirstShards \subseteq listing

\* A shard that is held is in mActiveShards, except between its release and the end of the
\* heartbeat that released it.
HeldIsActive ==
    heartbeat.step # "done" => \A s \in currShards \ sealed : activeShards[s] > 0

\* The readers are complete: nothing has removed them since the group was joined, and
\* nothing is about to.
ReadersKept == joined /\ current /\ (~offsetReset \/ pc = "joined")

HeldAreRead ==
    ReadersKept =>
        /\ heartbeat.step \in {"idle", "create", "remove"} => currShards \ sealed \subseteq readers
        /\ heartbeat.step \in {"remove", "release", "done"} =>
               heartbeat.plan \ sealed \subseteq readers

\* Without a fault the consumer stays in its group.
FaultlessStays ==
    faults = 0 =>
        /\ member /\ current /\ ~deleted
        /\ joined /\ ~offsetReset /\ ~consumerNotFound
        /\ heartbeat.step # "reset"
        /\ pc \notin {"leave", "stop", "join", "joined"}

\* The readers of a plan that is carried out are those of the plan.
PlanCarriedOut ==
    faults = 0 /\ heartbeat.step \in {"release", "done"} =>
        readers \cap FirstShards \subseteq heartbeat.plan

IInv ==
    /\ TypeOK
    /\ BeatsCounted
    /\ ThreadAlive
    /\ EndsAreSealed
    /\ ListsFollowTopic
    /\ HeldIsActive
    /\ HeldAreRead
    /\ FaultlessStays
    /\ PlanCarriedOut
    /\ ReadersInPlan

----------------------------------------------------------------------------
(* Initial states, and what the steps of each thread leave alone *)

LEMMA InitIInv == Init => IInv
<1> SUFFICES ASSUME Init PROVE IInv
  OBVIOUS
<1>1. TypeOK
  <2>1. heartbeat \in [step : {"idle", "create", "remove", "release", "done", "reset"},
                       plan : SUBSET Shards]
    BY DEF Init, Idle
  <2>2. activeShards \in [Shards -> 0 .. MaxBeats] /\ beats \in 0 .. MaxBeats /\ faults \in 0 .. MaxFaults
    BY BoundsAssumption DEF BoundsAssumption, Init
  <2>3. /\ shard \in Shards \cup {NoShard} /\ shard \notin Shards
        /\ metaShards \subseteq Shards /\ listed \subseteq Shards
    BY NoShardAssumption, FirstShardsAssumption
       DEF NoShardAssumption, FirstShardsAssumption, Init
  <2> QED
    BY <2>1, <2>2, <2>3 DEF Init, TypeOK
<1>2. BeatsCounted /\ ThreadAlive /\ EndsAreSealed /\ HeldIsActive
  BY DEF Init, Idle, BeatsCounted, Beating, ThreadAlive, EndsAreSealed, HeldIsActive
<1>3. ListsFollowTopic /\ HeldAreRead /\ FaultlessStays /\ PlanCarriedOut /\ ReadersInPlan
  BY FirstShardsAssumption
     DEF FirstShardsAssumption, Init, Idle, ListsFollowTopic, HeldAreRead, ReadersKept,
         FaultlessStays, PlanCarriedOut, ReadersInPlan
<1> QED
  BY <1>1, <1>2, <1>3 DEF IInv

LEMMA HeartbeatFrame ==
    ASSUME KeepHeartbeat
    PROVE  /\ UNCHANGED <<joined, metaData, read, service, faults>>
           /\ UNCHANGED readEndShards \/ readEndShards' \subseteq readEndShards
<1> USE DEF meta, thread, coordinator, bounds
<1>1. ASSUME NEW plan, HeartbeatOnce(plan) PROVE UNCHANGED <<joined, metaData, read, service, faults, readEndShards>>
  BY <1>1 DEF HeartbeatOnce
<1> QED
  BY <1>1
     DEF KeepHeartbeat, CreateShardReader, RemoveShardReader, ReleaseShards, OnShardRelease,
         HeartBeatDone, OnHeartBeatDone, HeartbeatNotFound, HeartbeatSubDeleted, OnOffsetReset,
         OnRemoveAllShards

LEMMA ReadFrame ==
    ASSUME Read
    PROVE  /\ UNCHANGED <<heartbeat, activeShards, subDeleted, deleted, listed, sealed, beats>>
           /\ ReportReadEnd \/ UNCHANGED readEndShards
           /\ ClearShardRelease \/ UNCHANGED releaseShards
           /\ JoinGroup \/ UNCHANGED <<currShards, consumerNotFound, current>>
           /\ JoinGroup \/ LeaveGroup \/ UNCHANGED member
           /\ JoinGroup \/ StopHeartBeat \/ UNCHANGED joined
           /\ ClearOffsetReset \/ UNCHANGED offsetReset
           /\ RemoveUnlistedReader \/ UNCHANGED metaShards
           /\ CreateListedReader \/ RemoveUnlistedReader \/ ReadEnd \/ UNCHANGED readers
           /\ Fault \/ UNCHANGED faults
<1> USE DEF meta, thread, coordinator, metaData, service, bounds, Goto
\* Steps that only go on, and those of an update of the list.
<1>1. ASSUME \/ StartRead \/ NotAssigned \/ Assigned \/ UpdateThrows
             \/ NoUpdateDue \/ UpdateUnderWay \/ ListShard
             \/ UpdateShardInfo \/ NeedNoSyncGroup \/ SyncGroup
             \/ NoActiveShard \/ GetNextReader \/ ReadOnce
      PROVE  UNCHANGED <<meta, thread, coordinator, metaShards, readers, service, bounds>>
  BY <1>1
     DEF StartRead, NotAssigned, Assigned, UpdateThrows, NoUpdateDue, UpdateUnderWay, ListShard,
         UpdateShardInfo, NeedNoSyncGroup, SyncGroup, NoActiveShard, GetNextReader, ReadOnce
\* Steps that fail.
<1>2. ASSUME ListShardFails \/ CreateListedReaderFails \/ SessionTimeout \/ JoinGroupFails
             \/ SyncGroupFails
      PROVE  /\ UNCHANGED <<meta, thread, coordinator, metaShards, readers, service, beats>>
             /\ Fault \/ UNCHANGED faults
  <2>1. CASE ListShardFails \/ CreateListedReaderFails
    BY <2>1 DEF ListShardFails, CreateListedReaderFails, Fault
  <2>2. CASE SessionTimeout \/ SyncGroupFails
    BY <2>2 DEF SessionTimeout, SyncGroupFails, Fault
  <2>3. CASE JoinGroupFails
    BY <2>3 DEF JoinGroupFails, Fault
  <2> QED
    BY <1>2, <2>1, <2>2, <2>3
<1>3. CreateListedReader =>
          UNCHANGED <<meta, thread, coordinator, metaShards, service, bounds>>
  BY DEF CreateListedReader
<1>4. RemoveUnlistedReader => UNCHANGED <<meta, thread, coordinator, service, bounds>>
  BY DEF RemoveUnlistedReader
<1>5. LeaveGroup =>
          /\ UNCHANGED <<meta, thread, coordinator, metaShards, readers, bounds>>
          /\ UNCHANGED <<current, deleted, listed, sealed>>
  BY DEF LeaveGroup
<1>6. StopHeartBeat =>
          /\ UNCHANGED <<meta, thread, metaShards, readers, service, bounds>>
          /\ UNCHANGED <<offsetReset, subDeleted>>
  BY DEF StopHeartBeat
<1>7. JoinGroup =>
          /\ UNCHANGED <<meta, heartbeat, metaShards, readers, bounds>>
          /\ UNCHANGED <<offsetReset, subDeleted, deleted, listed, sealed>>
  BY DEF JoinGroup
<1>8. ClearOffsetReset =>
          /\ UNCHANGED <<meta, thread, metaShards, readers, service, bounds>>
          /\ UNCHANGED <<joined, subDeleted>>
  BY DEF ClearOffsetReset
<1>9. ClearShardRelease =>
          /\ UNCHANGED <<thread, coordinator, metaShards, readers, service, bounds>>
          /\ UNCHANGED <<activeShards, readEndShards>>
  BY DEF ClearShardRelease
<1>10. ReadEnd => UNCHANGED <<meta, thread, coordinator, metaShards, service, bounds>>
  BY DEF ReadEnd
<1>11. ReportReadEnd =>
          /\ UNCHANGED <<thread, coordinator, metaShards, readers, service, bounds>>
          /\ UNCHANGED <<activeShards, releaseShards>>
  BY DEF ReportReadEnd, OnShardReadEnd
<1> QED
  BY <1>1, <1>2, <1>3, <1>4, <1>5, <1>6, <1>7, <1>8, <1>9, <1>10, <1>11
     DEF Read, UpdateShardMetaMap, Rejoin, SyncConsumerGroup, ReadOnceByReader

\* Where Read arrives by which step.
LEMMA ReadTargets ==
    ASSUME Read
    PROVE  /\ pc' = "join" => StopHeartBeat
           /\ pc' = "joined" => JoinGroup
           /\ pc' = "readEnd" => ReadEnd
           /\ pc' = "metaCreate" => ListShard
           /\ pc' = "metaRemove" => CreateListedReader
           /\ pc' = "leave" => UpdateShardInfo \/ SessionTimeout
           /\ pc' = "stop" => LeaveGroup
<1> USE DEF Goto
<1>1. CASE StartRead \/ NotAssigned \/ Assigned \/ UpdateThrows
  BY <1>1 DEF StartRead, NotAssigned, Assigned, UpdateThrows
<1>2. CASE NoUpdateDue \/ UpdateUnderWay \/ ListShardFails
  BY <1>2 DEF NoUpdateDue, UpdateUnderWay, ListShardFails
<1>3. ListShard => pc' \in {"rejoin", "metaCreate"}
  BY DEF ListShard
<1>4. CreateListedReader => pc' = "metaRemove"
  BY DEF CreateListedReader
<1>5. CASE CreateListedReaderFails \/ RemoveUnlistedReader
  BY <1>5 DEF CreateListedReaderFails, RemoveUnlistedReader
<1>6. UpdateShardInfo => pc' \in {"leave", "sync"}
  BY DEF UpdateShardInfo
<1>7. SessionTimeout => pc' = "leave"
  BY DEF SessionTimeout
<1>8. LeaveGroup => pc' = "stop"
  BY DEF LeaveGroup
<1>9. StopHeartBeat => pc' = "join"
  BY DEF StopHeartBeat
<1>10. JoinGroup => pc' = "joined"
  BY DEF JoinGroup
<1>11. CASE JoinGroupFails \/ ClearOffsetReset
  BY <1>11 DEF JoinGroupFails, ClearOffsetReset
<1>12. CASE SyncConsumerGroup
  BY <1>12 DEF SyncConsumerGroup, NeedNoSyncGroup, SyncGroup, SyncGroupFails, ClearShardRelease
<1>13. CASE NoActiveShard \/ GetNextReader \/ ReadOnce \/ ReportReadEnd
  BY <1>13 DEF NoActiveShard, GetNextReader, ReadOnce, ReportReadEnd
<1>14. ReadEnd => pc' = "readEnd"
  BY DEF ReadEnd
<1> QED
  BY <1>1, <1>2, <1>3, <1>4, <1>5, <1>6, <1>7, <1>8, <1>9, <1>10, <1>11, <1>12, <1>13, <1>14
     DEF Read, UpdateShardMetaMap, Rejoin, ReadOnceByReader

ServiceStep ==
    \/ ForgetConsumer \/ RewindSubscription \/ DeleteSubscription
    \/ \E s \in Shards : SealShard(s) \/ AddShard(s) \/ DropShard(s)

LEMMA ServiceFrame ==
    ASSUME ServiceStep
    PROVE  /\ UNCHANGED <<meta, thread, coordinator, metaData, read, readers, beats>>
           /\ Fault \/ UNCHANGED faults
           /\ Fault \/ UNCHANGED <<member, current, deleted>>
           /\ sealed \subseteq sealed' /\ listed \cup sealed \subseteq listed' \cup sealed'
           /\ listed' \cap FirstShards \subseteq listed
           /\ ~current => ~current'
<1> USE DEF bounds
<1>1. CASE ForgetConsumer \/ RewindSubscription \/ DeleteSubscription
  BY <1>1 DEF ForgetConsumer, RewindSubscription, DeleteSubscription, Fault
<1>2. ASSUME NEW s \in Shards, SealShard(s) \/ AddShard(s) \/ DropShard(s)
      PROVE  /\ UNCHANGED <<meta, thread, coordinator, metaData, read, readers, beats>>
             /\ UNCHANGED <<member, current, deleted, faults>>
             /\ sealed \subseteq sealed' /\ listed \cup sealed \subseteq listed' \cup sealed'
             /\ listed' \cap FirstShards \subseteq listed
  BY <1>2 DEF SealShard, AddShard, DropShard
<1> QED
  BY <1>1, <1>2 DEF ServiceStep

LEMMA Steps == [Next]_vars => KeepHeartbeat \/ Read \/ ServiceStep \/ UNCHANGED vars
  BY DEF Next, ServiceStep

----------------------------------------------------------------------------
(* The steps keep the invariant *)

LEMMA NextBeats ==
    IInv /\ [Next]_vars => /\ activeShards' \in [Shards -> 0 .. MaxBeats]
                           /\ beats' \in 0 .. MaxBeats
                           /\ BeatsCounted'
<1> SUFFICES ASSUME IInv, [Next]_vars
             PROVE  /\ activeShards' \in [Shards -> 0 .. MaxBeats]
                    /\ beats' \in 0 .. MaxBeats
                    /\ BeatsCounted'
  OBVIOUS
<1> DEFINE Under == IF heartbeat.step \in Beating THEN 1 ELSE 0
<1>0. /\ activeShards \in [Shards -> 0 .. MaxBeats] /\ beats \in 0 .. MaxBeats
      /\ heartbeat \in [step : {"idle", "create", "remove", "release", "done", "reset"},
                        plan : SUBSET Shards]
      /\ \A s \in Shards : activeShards[s] + Under <= beats
      /\ MaxBeats \in Nat
  BY BoundsAssumption DEF BoundsAssumption, IInv, TypeOK, BeatsCounted
<1>1. ASSUME activeShards' \in [Shards -> Nat], beats' \in 0 .. MaxBeats,
             \A s \in Shards : activeShards'[s] + Under' <= beats'
      PROVE  /\ activeShards' \in [Shards -> 0 .. MaxBeats]
             /\ beats' \in 0 .. MaxBeats
             /\ BeatsCounted'
  <2>1. Under' \in {0, 1}
    OBVIOUS
  <2>2. \A s \in Shards : activeShards'[s] \in 0 .. MaxBeats
    <3> HIDE DEF Under
    <3> QED
      BY <1>0, <1>1, <2>1
  <2> QED
    BY <1>1, <2>2 DEF BeatsCounted
\* The list of entries stays, and the heartbeat goes on or the counter does.
<1>2. ASSUME activeShards' = activeShards, Under' = Under, beats' = beats
      PROVE  /\ activeShards' \in [Shards -> Nat] /\ beats' \in 0 .. MaxBeats
             /\ \A s \in Shards : activeShards'[s] + Under' <= beats'
  BY <1>0, <1>2
<1>3. CASE KeepHeartbeat
  <2> USE DEF meta, At, GoOn, Beating, bounds
  <2>1. ASSUME NEW plan \in SUBSET listed, HeartbeatOnce(plan)
        PROVE  /\ activeShards' \in [Shards -> Nat] /\ beats' \in 0 .. MaxBeats
               /\ \A s \in Shards : activeShards'[s] + Under' <= beats'
    <3>1. Under = 0 /\ Under' = 1 /\ activeShards' = activeShards /\ beats' = beats + 1
          /\ beats < MaxBeats
      BY <2>1 DEF HeartbeatOnce, MayBeat, Idle
    <3> HIDE DEF Under
    <3>2. beats' \in 0 .. MaxBeats
      BY <1>0, <3>1
    <3>3. \A s \in Shards : activeShards'[s] + Under' <= beats'
      BY <1>0, <3>1
    <3> QED
      BY <1>0, <3>1, <3>2, <3>3
  <2>2. CASE CreateShardReader \/ RemoveShardReader
    <3>1. activeShards' = activeShards /\ Under' = Under /\ beats' = beats
      BY <1>0, <2>2 DEF CreateShardReader, RemoveShardReader
    <3> QED
      BY <1>1, <1>2, <3>1
  <2>3. CASE ReleaseShards
    <3>1. Under' = Under /\ beats' = beats
      BY <1>0, <2>3 DEF ReleaseShards
    <3>2. activeShards' = [s \in Shards |-> IF s \in Deleted /\ activeShards[s] > 0
                                            THEN activeShards[s] - 1 ELSE activeShards[s]]
      BY <2>3 DEF ReleaseShards, OnShardRelease
    <3>3. \A s \in Shards : activeShards'[s] \in Nat /\ activeShards'[s] <= activeShards[s]
      BY <1>0, <3>2
    <3>4. Under \in {0, 1}
      OBVIOUS
    <3> HIDE DEF Under
    <3>5. \A s \in Shards : activeShards'[s] + Under' <= beats'
      BY <1>0, <3>1, <3>3, <3>4
    <3> QED
      BY <1>0, <1>1, <3>1, <3>2, <3>3, <3>5
  <2>4. CASE HeartBeatDone
    <3>1. Under = 1 /\ Under' = 0 /\ beats' = beats
      BY <2>4 DEF HeartBeatDone, Idle
    <3>2. activeShards' = [s \in Shards |-> IF s \in heartbeat.plan \ readEndShards
                                            THEN activeShards[s] + 1 ELSE activeShards[s]]
      BY <2>4 DEF HeartBeatDone, OnHeartBeatDone
    <3>3. \A s \in Shards : activeShards'[s] \in Nat /\ activeShards'[s] <= activeShards[s] + 1
      BY <1>0, <3>2
    <3> HIDE DEF Under
    <3>4. \A s \in Shards : activeShards'[s] + Under' <= beats'
      BY <1>0, <3>1, <3>3
    <3> QED
      BY <1>0, <1>1, <3>1, <3>2, <3>3, <3>4
  <2>5. CASE HeartbeatNotFound \/ HeartbeatSubDeleted \/ OnOffsetReset \/ OnRemoveAllShards
    <3>1. activeShards' = activeShards /\ Under' = Under /\ beats' = beats
      BY <1>0, <2>5
         DEF HeartbeatNotFound, HeartbeatSubDeleted, OnOffsetReset, OnRemoveAllShards, thread,
             MayBeat, Idle
    <3> QED
      BY <1>1, <1>2, <3>1
  <2> HIDE DEF Under
  <2> QED
    BY <1>1, <1>3, <2>1, <2>2, <2>3, <2>4, <2>5 DEF KeepHeartbeat
<1>4. CASE Read \/ ServiceStep \/ UNCHANGED vars
  <2>1. activeShards' = activeShards /\ heartbeat' = heartbeat /\ beats' = beats
    BY <1>4, ReadFrame, ServiceFrame DEF vars, meta, thread, bounds
  <2> QED
    BY <1>1, <1>2, <2>1
<1> QED
  BY <1>3, <1>4, Steps

LEMMA NextTypeOK == IInv /\ [Next]_vars => TypeOK'
<1> SUFFICES ASSUME IInv, [Next]_vars PROVE TypeOK'
  OBVIOUS
<1> DEFINE ControlTyped ==
               /\ heartbeat \in [step : {"idle", "create", "remove", "release", "done", "reset"},
                                 plan : SUBSET Shards]
               /\ pc \in {"idle", "assign", "update", "metaCreate", "metaRemove", "rejoin",
                          "leave", "stop", "join", "joined", "sync", "clear", "select",
                          "reading", "readEnd"}
               /\ shard \in Shards \cup {NoShard}
               /\ shard \in Shards <=> pc \in {"reading", "readEnd"}
           SetsTyped ==
               /\ releaseShards \subseteq Shards /\ readEndShards \subseteq Shards
               /\ currShards \subseteq Shards
               /\ metaShards \subseteq Shards /\ listing \subseteq Shards
               /\ readers \subseteq Shards /\ listed \subseteq Shards /\ sealed \subseteq Shards
           FlagsTyped ==
               /\ {consumerNotFound, joined, offsetReset, subDeleted} \subseteq BOOLEAN
               /\ updating \in BOOLEAN /\ {member, current, deleted} \subseteq BOOLEAN
<1>0. ControlTyped /\ SetsTyped /\ FlagsTyped /\ faults \in 0 .. MaxFaults
  BY DEF IInv, TypeOK
<1>1. faults' \in 0 .. MaxFaults
  <2>1. Fault \/ faults' = faults
    BY Steps, HeartbeatFrame, ReadFrame, ServiceFrame DEF vars, bounds
  <2> QED
    BY <1>0, <2>1, BoundsAssumption DEF BoundsAssumption, Fault
<1>2. ASSUME KeepHeartbeat PROVE ControlTyped' /\ SetsTyped' /\ FlagsTyped'
  <2> USE DEF meta, thread, coordinator, metaData, read, service, At, GoOn, Idle
  <2>1. ASSUME NEW plan \in SUBSET listed, HeartbeatOnce(plan)
        PROVE  ControlTyped' /\ SetsTyped' /\ FlagsTyped'
    BY <1>0, <2>1 DEF HeartbeatOnce
  <2>2. CASE CreateShardReader
    BY <1>0, <2>2 DEF CreateShardReader, Added
  <2>3. CASE RemoveShardReader
    BY <1>0, <2>3 DEF RemoveShardReader
  <2>4. CASE ReleaseShards
    <3>1. Deleted \subseteq Shards
      BY <1>0 DEF Deleted
    <3> QED
      BY <1>0, <2>4, <3>1 DEF ReleaseShards, OnShardRelease
  <2>5. CASE HeartBeatDone
    BY <1>0, <2>5 DEF HeartBeatDone, OnHeartBeatDone
  <2>6. CASE HeartbeatNotFound \/ HeartbeatSubDeleted
    BY <1>0, <2>6 DEF HeartbeatNotFound, HeartbeatSubDeleted
  <2>7. CASE OnOffsetReset
    BY <1>0, <2>7 DEF OnOffsetReset
  <2>8. CASE OnRemoveAllShards
    BY <1>0, <2>8 DEF OnRemoveAllShards
  <2> QED
    BY <1>2, <2>1, <2>2, <2>3, <2>4, <2>5, <2>6, <2>7, <2>8 DEF KeepHeartbeat
<1>3. ASSUME Read PROVE ControlTyped' /\ SetsTyped' /\ FlagsTyped'
  <2>1. ControlTyped'
    <3> USE NoShardAssumption DEF NoShardAssumption, Goto
    <3>0. heartbeat' = heartbeat
      BY <1>3, ReadFrame
    <3>1. CASE StartRead \/ NotAssigned \/ Assigned \/ UpdateThrows
      BY <1>0, <3>0, <3>1 DEF StartRead, NotAssigned, Assigned, UpdateThrows
    <3>2. CASE NoUpdateDue \/ UpdateUnderWay \/ ListShard \/ ListShardFails
      BY <1>0, <3>0, <3>2 DEF NoUpdateDue, UpdateUnderWay, ListShard, ListShardFails
    <3>3. CASE CreateListedReader \/ CreateListedReaderFails \/ RemoveUnlistedReader
      BY <1>0, <3>0, <3>3 DEF CreateListedReader, CreateListedReaderFails, RemoveUnlistedReader
    <3>4. CASE UpdateShardInfo \/ SessionTimeout \/ Rejoin
      BY <1>0, <3>0, <3>4
         DEF UpdateShardInfo, SessionTimeout, Rejoin, LeaveGroup, StopHeartBeat, JoinGroup,
             JoinGroupFails, ClearOffsetReset
    <3>5. CASE SyncConsumerGroup
      BY <1>0, <3>0, <3>5
         DEF SyncConsumerGroup, NeedNoSyncGroup, SyncGroup, SyncGroupFails, ClearShardRelease
    <3>6. CASE NoActiveShard \/ ReadOnce \/ ReportReadEnd
      BY <1>0, <3>0, <3>6 DEF NoActiveShard, ReadOnce, ReportReadEnd
    <3>7. CASE GetNextReader
      BY <1>0, <3>0, <3>7 DEF GetNextReader
    <3>8. CASE ReadEnd
      BY <1>0, <3>0, <3>8 DEF ReadEnd
    <3> QED
      BY <1>3, <3>1, <3>2, <3>3, <3>4, <3>5, <3>6, <3>7, <3>8
         DEF Read, UpdateShardMetaMap, ReadOnceByReader
  <2>2. SetsTyped'
    <3>1. /\ listed' = listed /\ sealed' = sealed
          /\ readEndShards' \subseteq Shards
      BY <1>0, <1>3, ReadFrame DEF ReportReadEnd, OnShardReadEnd
    <3>2. releaseShards' \subseteq Shards /\ currShards' \subseteq Shards
      BY <1>0, <1>3, ReadFrame DEF ClearShardRelease, JoinGroup, StartHeartBeat
    <3>3. listing' \subseteq Shards
      <4>1. listing' = listing \/ listing' = listed \/ listing' = {}
        BY <1>3
           DEF Read, StartRead, NotAssigned, Assigned, UpdateThrows, UpdateShardMetaMap,
               NoUpdateDue, UpdateUnderWay, ListShard, ListShardFails, CreateListedReader,
               CreateListedReaderFails, RemoveUnlistedReader, UpdateShardInfo, SessionTimeout,
               Rejoin, LeaveGroup, StopHeartBeat, JoinGroup, JoinGroupFails, ClearOffsetReset,
               SyncConsumerGroup, NeedNoSyncGroup, SyncGroup, SyncGroupFails,
               ClearShardRelease, ReadOnceByReader, NoActiveShard, GetNextReader, ReadOnce,
               ReadEnd, ReportReadEnd, metaData
      <4> QED
        BY <1>0, <4>1
    <3>4. metaShards' \subseteq Shards
      BY <1>0, <1>3, ReadFrame DEF RemoveUnlistedReader
    <3>5. readers' \subseteq Shards
      BY <1>0, <1>3, ReadFrame DEF CreateListedReader, RemoveUnlistedReader, ReadEnd
    <3> QED
      BY <1>0, <3>1, <3>2, <3>3, <3>4, <3>5
  <2>3. FlagsTyped'
    <3>1. consumerNotFound' \in BOOLEAN /\ joined' \in BOOLEAN
      BY <1>0, <1>3, ReadFrame DEF JoinGroup, StartHeartBeat, StopHeartBeat
    <3>2. offsetReset' \in BOOLEAN /\ subDeleted' \in BOOLEAN
      BY <1>0, <1>3, ReadFrame DEF ClearOffsetReset
    <3>3. updating' \in BOOLEAN
      BY <1>0, <1>3
         DEF Read, StartRead, NotAssigned, Assigned, UpdateThrows, UpdateShardMetaMap,
             NoUpdateDue, UpdateUnderWay, ListShard, ListShardFails, CreateListedReader,
             CreateListedReaderFails, RemoveUnlistedReader, UpdateShardInfo, SessionTimeout,
             Rejoin, LeaveGroup, StopHeartBeat, JoinGroup, JoinGroupFails, ClearOffsetReset,
             SyncConsumerGroup, NeedNoSyncGroup, SyncGroup, SyncGroupFails,
             ClearShardRelease, ReadOnceByReader, NoActiveShard, GetNextReader, ReadOnce,
             ReadEnd, ReportReadEnd, metaData
    <3>4. member' \in BOOLEAN /\ current' \in BOOLEAN /\ deleted' \in BOOLEAN
      BY <1>0, <1>3, ReadFrame DEF JoinGroup, LeaveGroup
    <3> QED
      BY <3>1, <3>2, <3>3, <3>4
  <2> QED
    BY <2>1, <2>2, <2>3
<1>4. ASSUME ServiceStep PROVE ControlTyped' /\ SetsTyped' /\ FlagsTyped'
  <2> USE DEF meta, thread, coordinator, metaData, read
  <2>1. CASE ForgetConsumer
    BY <1>0, <2>1 DEF ForgetConsumer
  <2>2. CASE RewindSubscription
    BY <1>0, <2>2 DEF RewindSubscription
  <2>3. CASE DeleteSubscription
    BY <1>0, <2>3 DEF DeleteSubscription
  <2>4. ASSUME NEW s \in Shards, SealShard(s) \/ AddShard(s) \/ DropShard(s)
        PROVE  ControlTyped' /\ SetsTyped' /\ FlagsTyped'
    BY <1>0, <2>4 DEF SealShard, AddShard, DropShard
  <2> QED
    BY <1>4, <2>1, <2>2, <2>3, <2>4 DEF ServiceStep
<1>5. ASSUME UNCHANGED vars PROVE ControlTyped' /\ SetsTyped' /\ FlagsTyped'
  BY <1>0, <1>5 DEF vars, meta, thread, coordinator, metaData, read, service
<1>6. ControlTyped' /\ SetsTyped' /\ FlagsTyped'
  BY <1>2, <1>3, <1>4, <1>5, Steps
<1> QED
  BY <1>1, <1>6, NextBeats DEF TypeOK

LEMMA NextThreadAlive == IInv /\ [Next]_vars => ThreadAlive'
<1> SUFFICES ASSUME IInv, [Next]_vars PROVE ThreadAlive'
  OBVIOUS
<1>0. ThreadAlive
  BY DEF IInv
<1> USE DEF ThreadAlive, Idle
<1>1. CASE KeepHeartbeat
  <2>0. /\ joined' = joined /\ pc' = pc /\ current' = current
        /\ heartbeat \in [step : {"idle", "create", "remove", "release", "done", "reset"},
                          plan : SUBSET Shards]
    BY <1>1, HeartbeatFrame DEF read, service, IInv, TypeOK
  <2>1. ASSUME NEW plan \in SUBSET listed, HeartbeatOnce(plan)
        PROVE  ThreadAlive'
    BY <1>0, <2>0, <2>1 DEF HeartbeatOnce, MayBeat
  <2>2. CASE CreateShardReader \/ RemoveShardReader \/ ReleaseShards
    <3>1. joined /\ heartbeat.step \notin {"idle", "reset"}
      BY <1>0, <2>2 DEF CreateShardReader, RemoveShardReader, ReleaseShards, At
    <3>2. heartbeat'.step \notin {"idle", "reset"}
      BY <2>0, <2>2 DEF CreateShardReader, RemoveShardReader, ReleaseShards, GoOn
    <3> QED
      BY <1>0, <2>0, <3>1, <3>2
  <2>3. CASE HeartBeatDone \/ OnRemoveAllShards
    BY <1>0, <2>0, <2>3 DEF HeartBeatDone, OnRemoveAllShards
  <2>4. CASE HeartbeatNotFound \/ HeartbeatSubDeleted
    BY <1>0, <2>0, <2>4 DEF HeartbeatNotFound, HeartbeatSubDeleted, thread
  <2>5. CASE OnOffsetReset
    BY <1>0, <2>0, <2>5 DEF OnOffsetReset, MayBeat, GoOn
  <2> QED
    BY <1>1, <2>1, <2>2, <2>3, <2>4, <2>5 DEF KeepHeartbeat
<1>2. CASE Read
  <2>1. CASE StopHeartBeat
    BY <1>0, <2>1 DEF StopHeartBeat, thread, service, Goto
  <2>2. CASE JoinGroup
    BY <1>0, <2>2 DEF JoinGroup, Goto
  <2>3. CASE ~StopHeartBeat /\ ~JoinGroup
    BY <1>0, <1>2, <2>3, ReadFrame, ReadTargets
  <2> QED
    BY <2>1, <2>2, <2>3
<1>3. CASE ServiceStep
  BY <1>0, <1>3, ServiceFrame DEF thread, coordinator, read
<1>4. CASE UNCHANGED vars
  BY <1>0, <1>4 DEF vars, thread, coordinator, read, service
<1> QED
  BY <1>1, <1>2, <1>3, <1>4, Steps

LEMMA NextEndsAreSealed == IInv /\ [Next]_vars => EndsAreSealed'
<1> SUFFICES ASSUME IInv, [Next]_vars PROVE EndsAreSealed'
  OBVIOUS
<1>0. EndsAreSealed
  BY DEF IInv
<1> USE DEF EndsAreSealed
<1>1. CASE KeepHeartbeat
  BY <1>0, <1>1, HeartbeatFrame DEF read, service
<1>2. CASE Read
  <2>0. sealed' = sealed
    BY <1>2, ReadFrame
  <2>1. readEndShards' \subseteq sealed
    BY <1>0, <1>2, ReadFrame DEF ReportReadEnd, OnShardReadEnd
  <2>2. pc' = "readEnd" => shard' \in sealed
    BY <1>2, ReadTargets DEF ReadEnd
  <2> QED
    BY <2>0, <2>1, <2>2
<1>3. CASE ServiceStep
  BY <1>0, <1>3, ServiceFrame DEF meta, read
<1>4. CASE UNCHANGED vars
  BY <1>0, <1>4 DEF vars, meta, read, service
<1> QED
  BY <1>1, <1>2, <1>3, <1>4, Steps

LEMMA NextListsFollowTopic == IInv /\ [Next]_vars => ListsFollowTopic'
<1> SUFFICES ASSUME IInv, [Next]_vars PROVE ListsFollowTopic'
  OBVIOUS
<1>0. ListsFollowTopic
  BY DEF IInv
<1> USE DEF ListsFollowTopic
<1>1. CASE KeepHeartbeat
  BY <1>0, <1>1, HeartbeatFrame DEF read, service, metaData
<1>2. CASE Read
  <2>0. listed' = listed /\ sealed' = sealed
    BY <1>2, ReadFrame
  <2>1. CASE ListShard
    BY <1>0, <2>0, <2>1, <1>2, ReadFrame DEF ListShard, Goto, metaData
  <2>2. CASE CreateListedReader
    BY <1>0, <2>0, <2>2 DEF CreateListedReader, Goto, metaData
  <2>3. CASE RemoveUnlistedReader
    BY <1>0, <2>0, <2>3 DEF RemoveUnlistedReader, Goto
  <2>4. CASE ~ListShard /\ ~CreateListedReader /\ ~RemoveUnlistedReader
    BY <1>0, <1>2, <2>0, <2>4, ReadFrame, ReadTargets
  <2> QED
    BY <2>1, <2>2, <2>3, <2>4
<1>3. CASE ServiceStep
  BY <1>0, <1>3, ServiceFrame DEF metaData, read
<1>4. CASE UNCHANGED vars
  BY <1>0, <1>4 DEF vars, metaData, read, service
<1> QED
  BY <1>1, <1>2, <1>3, <1>4, Steps

LEMMA NextHeldIsActive == IInv /\ [Next]_vars => HeldIsActive'
<1> SUFFICES ASSUME IInv, [Next]_vars PROVE HeldIsActive'
  OBVIOUS
<1>0. /\ HeldIsActive /\ readEndShards \subseteq sealed
      /\ activeShards \in [Shards -> Nat]
      /\ heartbeat \in [step : {"idle", "create", "remove", "release", "done", "reset"},
                        plan : SUBSET Shards]
  <2>1. activeShards \in [Shards -> 0 .. MaxBeats] /\ 0 .. MaxBeats \subseteq Nat
    BY BoundsAssumption DEF BoundsAssumption, IInv, TypeOK
  <2> QED
    BY <2>1 DEF IInv, TypeOK, EndsAreSealed
<1> USE DEF HeldIsActive
<1>1. CASE KeepHeartbeat
  <2>0. sealed' = sealed
    BY <1>1, HeartbeatFrame DEF service
  <2>1. ASSUME NEW plan \in SUBSET listed, HeartbeatOnce(plan)
        PROVE  HeldIsActive'
    BY <1>0, <2>0, <2>1 DEF HeartbeatOnce, MayBeat, Idle, meta
  <2>2. CASE CreateShardReader \/ RemoveShardReader
    BY <1>0, <2>0, <2>2 DEF CreateShardReader, RemoveShardReader, At, meta
  <2>3. CASE ReleaseShards
    BY <1>0, <2>3 DEF ReleaseShards, GoOn
  <2>4. CASE HeartBeatDone
    <3>1. currShards' = heartbeat.plan
      BY <2>4 DEF HeartBeatDone
    <3>2. \A s \in heartbeat.plan \ sealed : s \in Shards /\ activeShards'[s] = activeShards[s] + 1
      BY <1>0, <2>4 DEF HeartBeatDone, OnHeartBeatDone
    <3> QED
      BY <1>0, <2>0, <3>1, <3>2
  <2>5. CASE HeartbeatNotFound \/ HeartbeatSubDeleted
    BY <1>0, <2>0, <2>5 DEF HeartbeatNotFound, HeartbeatSubDeleted, meta, thread
  <2>6. CASE OnOffsetReset \/ OnRemoveAllShards
    BY <1>0, <2>0, <2>6 DEF OnOffsetReset, OnRemoveAllShards, MayBeat, At, Idle, meta
  <2> QED
    BY <1>1, <2>1, <2>2, <2>3, <2>4, <2>5, <2>6 DEF KeepHeartbeat
<1>2. CASE Read
  <2>1. currShards' = currShards \/ currShards' = {}
    BY <1>2, ReadFrame DEF JoinGroup, StartHeartBeat
  <2> QED
    BY <1>0, <1>2, <2>1, ReadFrame
<1>3. CASE ServiceStep
  BY <1>0, <1>3, ServiceFrame DEF meta, thread
<1>4. CASE UNCHANGED vars
  BY <1>0, <1>4 DEF vars, meta, thread, service
<1> QED
  BY <1>1, <1>2, <1>3, <1>4, Steps

LEMMA NextHeldAreRead == IInv /\ [Next]_vars => HeldAreRead'
<1> SUFFICES ASSUME IInv, [Next]_vars PROVE HeldAreRead'
  OBVIOUS
<1>0. /\ HeldAreRead /\ ThreadAlive
      /\ heartbeat \in [step : {"idle", "create", "remove", "release", "done", "reset"},
                        plan : SUBSET Shards]
  BY DEF IInv, TypeOK
<1> USE DEF HeldAreRead
<1>1. CASE KeepHeartbeat
  <2>0. sealed' = sealed /\ joined' = joined /\ current' = current /\ pc' = pc
    BY <1>1, HeartbeatFrame DEF service, read
  <2>1. ASSUME NEW plan \in SUBSET listed, HeartbeatOnce(plan)
        PROVE  HeldAreRead'
    <3>1. /\ At("idle") /\ readers' = readers /\ currShards' = currShards
          /\ heartbeat' = [step |-> IF plan = currShards THEN "done" ELSE "create",
                           plan |-> plan]
          /\ ReadersKept' => ReadersKept
      BY <2>0, <2>1 DEF HeartbeatOnce, MayBeat, Idle, At, coordinator, ReadersKept
    <3>2. ReadersKept => currShards \ sealed \subseteq readers
      BY <1>0, <3>1 DEF At
    <3> QED
      BY <2>0, <3>1, <3>2
  <2>2. CASE CreateShardReader \/ RemoveShardReader
    <3>1. /\ currShards' = currShards /\ ReadersKept' => ReadersKept
      BY <2>0, <2>2 DEF CreateShardReader, RemoveShardReader, coordinator, ReadersKept
    <3>2. CASE CreateShardReader
      BY <1>0, <2>0, <3>1, <3>2 DEF CreateShardReader, At, GoOn, Added
    <3>3. CASE RemoveShardReader
      BY <1>0, <2>0, <3>1, <3>3 DEF RemoveShardReader, At, GoOn, Deleted
    <3> QED
      BY <2>2, <3>2, <3>3
  <2>3. CASE ReleaseShards
    BY <1>0, <2>0, <2>3 DEF ReleaseShards, At, GoOn, coordinator, ReadersKept
  <2>4. CASE HeartBeatDone
    BY <1>0, <2>0, <2>4 DEF HeartBeatDone, At, Idle, coordinator, ReadersKept
  <2>5. CASE HeartbeatNotFound \/ HeartbeatSubDeleted
    BY <1>0, <2>0, <2>5
       DEF HeartbeatNotFound, HeartbeatSubDeleted, thread, coordinator, ReadersKept
  <2>6. CASE OnOffsetReset \/ OnRemoveAllShards
    BY <1>0, <2>0, <2>6 DEF OnOffsetReset, OnRemoveAllShards, At, ThreadAlive, ReadersKept
  <2> QED
    BY <1>1, <2>1, <2>2, <2>3, <2>4, <2>5, <2>6 DEF KeepHeartbeat
<1>2. CASE Read
  <2>0. heartbeat' = heartbeat /\ sealed' = sealed
    BY <1>2, ReadFrame
  <2>1. CASE JoinGroup
    BY <1>0, <2>0, <2>1 DEF JoinGroup, StartHeartBeat, ThreadAlive, Idle
  <2>2. CASE ~JoinGroup
    <3>1. currShards' = currShards
      BY <1>2, <2>2, ReadFrame
    <3>2. ReadersKept' => ReadersKept
      <4>1. joined' => joined
        BY <1>2, <2>2, ReadFrame DEF StopHeartBeat
      <4>2. pc' # "joined" /\ current' = current
        BY <1>2, <2>2, ReadFrame, ReadTargets
      <4>3. ~offsetReset' => ~offsetReset \/ pc = "joined"
        BY <1>2, ReadFrame DEF ClearOffsetReset
      <4> QED
        BY <4>1, <4>2, <4>3 DEF ReadersKept
    <3>3. readers \ sealed \subseteq readers'
      BY <1>2, ReadFrame
         DEF CreateListedReader, RemoveUnlistedReader, ReadEnd, IInv, ListsFollowTopic
    <3>4. ASSUME NEW S, S \ sealed \subseteq readers PROVE S \ sealed \subseteq readers'
      BY <3>3, <3>4
    <3> QED
      BY <1>0, <2>0, <3>1, <3>2, <3>4
  <2> QED
    BY <2>1, <2>2
<1>3. CASE ServiceStep
  <2>1. /\ heartbeat' = heartbeat /\ currShards' = currShards /\ readers' = readers
        /\ sealed \subseteq sealed'
    BY <1>3, ServiceFrame DEF thread
  <2>2. ReadersKept' => ReadersKept
    BY <1>3, ServiceFrame DEF ReadersKept, coordinator, read
  <2> QED
    BY <1>0, <2>1, <2>2
<1>4. CASE UNCHANGED vars
  BY <1>0, <1>4 DEF vars, thread, coordinator, read, service, ReadersKept
<1> QED
  BY <1>1, <1>2, <1>3, <1>4, Steps

LEMMA Faultless ==
    ASSUME IInv, [Next]_vars, faults' = 0
    PROVE  faults = 0 /\ ~Fault
<1>1. faults \in Nat
  BY BoundsAssumption DEF BoundsAssumption, IInv, TypeOK
<1>2. ~Fault
  BY <1>1 DEF Fault
<1>3. faults' = faults
  BY <1>2, Steps, HeartbeatFrame, ReadFrame, ServiceFrame DEF vars, bounds
<1> QED
  BY <1>2, <1>3

LEMMA NextFaultlessStays == IInv /\ [Next]_vars => FaultlessStays'
<1> SUFFICES ASSUME IInv, [Next]_vars, faults' = 0
             PROVE  /\ member' /\ current' /\ ~deleted'
                    /\ joined' /\ ~offsetReset' /\ ~consumerNotFound'
                    /\ heartbeat'.step # "reset"
                    /\ pc' \notin {"leave", "stop", "join", "joined"}
  BY DEF FaultlessStays
<1>0. /\ faults = 0 /\ ~Fault
      /\ member /\ current /\ ~deleted
      /\ joined /\ ~offsetReset /\ ~consumerNotFound
      /\ heartbeat.step # "reset"
      /\ pc \notin {"leave", "stop", "join", "joined"}
      /\ heartbeat \in [step : {"idle", "create", "remove", "release", "done", "reset"},
                        plan : SUBSET Shards]
  BY Faultless DEF IInv, TypeOK, FaultlessStays
<1>1. CASE KeepHeartbeat
  <2>0. joined' = joined /\ pc' = pc /\ member' = member /\ current' = current
        /\ deleted' = deleted
    BY <1>1, HeartbeatFrame DEF read, service
  <2>1. ~HeartbeatNotFound /\ ~HeartbeatSubDeleted /\ ~OnOffsetReset /\ ~OnRemoveAllShards
    BY <1>0 DEF HeartbeatNotFound, HeartbeatSubDeleted, OnOffsetReset, OnRemoveAllShards, At
  <2>2. ASSUME NEW plan \in SUBSET listed, HeartbeatOnce(plan)
        PROVE  UNCHANGED <<offsetReset, consumerNotFound>> /\ heartbeat'.step # "reset"
    <3>1. heartbeat' = [step |-> IF plan = currShards THEN "done" ELSE "create", plan |-> plan]
      BY <2>2 DEF HeartbeatOnce
    <3> QED
      BY <2>2, <3>1 DEF HeartbeatOnce, coordinator
  <2>3. CASE CreateShardReader \/ RemoveShardReader \/ ReleaseShards \/ HeartBeatDone
    <3>1. UNCHANGED <<offsetReset, consumerNotFound>>
      BY <2>3 DEF CreateShardReader, RemoveShardReader, ReleaseShards, HeartBeatDone, coordinator
    <3>2. CASE CreateShardReader \/ ReleaseShards \/ HeartBeatDone
      <4>1. heartbeat'.step # "reset"
        BY <1>0, <3>2 DEF CreateShardReader, ReleaseShards, HeartBeatDone, GoOn, Idle
      <4> QED
        BY <1>0, <2>0, <3>1, <4>1
    <3>3. CASE RemoveShardReader
      <4>1. heartbeat'.step \in {"done", "release"}
        BY <1>0, <3>3 DEF RemoveShardReader, GoOn
      <4> QED
        BY <1>0, <2>0, <3>1, <4>1
    <3> QED
      BY <2>3, <3>2, <3>3
  <2> QED
    BY <1>0, <1>1, <2>0, <2>1, <2>2, <2>3 DEF KeepHeartbeat
<1>2. CASE Read
  <2>1. ~LeaveGroup /\ ~StopHeartBeat /\ ~JoinGroup /\ ~ClearOffsetReset
    BY <1>0 DEF LeaveGroup, StopHeartBeat, JoinGroup, ClearOffsetReset
  <2>2. UpdateShardInfo => pc' # "leave"
    BY <1>0 DEF UpdateShardInfo, MustRejoin, Goto
  <2>3. ~SessionTimeout
    BY <1>0 DEF SessionTimeout
  <2>4. UNCHANGED <<heartbeat, consumerNotFound, joined, offsetReset, member, current, deleted>>
    BY <1>2, <2>1, ReadFrame
  <2>5. pc' \notin {"leave", "stop", "join", "joined"}
    BY <1>2, <2>1, <2>2, <2>3, ReadTargets
  <2> QED
    BY <1>0, <2>4, <2>5
<1>3. CASE ServiceStep
  <2>1. UNCHANGED <<heartbeat, consumerNotFound, joined, offsetReset, pc, member, current, deleted>>
    BY <1>0, <1>3, ServiceFrame DEF thread, coordinator, read
  <2> QED
    BY <1>0, <2>1
<1>4. CASE UNCHANGED vars
  <2>1. UNCHANGED <<heartbeat, consumerNotFound, joined, offsetReset, pc, member, current, deleted>>
    BY <1>4 DEF vars, thread, coordinator, read, service
  <2> QED
    BY <1>0, <2>1
<1> QED
  BY <1>1, <1>2, <1>3, <1>4, Steps

LEMMA NextPlans == IInv /\ [Next]_vars => PlanCarriedOut' /\ ReadersInPlan'
<1> SUFFICES ASSUME IInv, [Next]_vars, faults' = 0
             PROVE  /\ heartbeat'.step \in {"release", "done"} =>
                           readers' \cap FirstShards \subseteq heartbeat'.plan
                    /\ readers' \cap FirstShards \subseteq currShards' \cup heartbeat'.plan
  BY DEF PlanCarriedOut, ReadersInPlan
<1>0. /\ heartbeat.step \in {"release", "done"} =>
             readers \cap FirstShards \subseteq heartbeat.plan
      /\ readers \cap FirstShards \subseteq currShards \cup heartbeat.plan
      /\ heartbeat.step = "idle" => heartbeat.plan = {}
      /\ current /\ heartbeat.step # "reset" /\ pc # "join"
      /\ heartbeat \in [step : {"idle", "create", "remove", "release", "done", "reset"},
                        plan : SUBSET Shards]
  BY Faultless
     DEF IInv, TypeOK, PlanCarriedOut, ReadersInPlan, ThreadAlive, FaultlessStays
<1>1. CASE KeepHeartbeat
  <2>1. ASSUME NEW plan \in SUBSET listed, HeartbeatOnce(plan)
        PROVE  /\ heartbeat'.step \in {"release", "done"} =>
                      readers' \cap FirstShards \subseteq heartbeat'.plan
               /\ readers' \cap FirstShards \subseteq currShards' \cup heartbeat'.plan
    <3>1. /\ heartbeat.plan = {}
          /\ heartbeat' = [step |-> IF plan = currShards THEN "done" ELSE "create",
                           plan |-> plan]
          /\ readers' = readers /\ currShards' = currShards
      BY <2>1 DEF HeartbeatOnce, MayBeat, Idle
    <3> QED
      BY <1>0, <3>1
  <2>2. CASE CreateShardReader
    BY <1>0, <2>2 DEF CreateShardReader, At, GoOn, Added
  <2>3. CASE RemoveShardReader
    BY <1>0, <2>3 DEF RemoveShardReader, At, GoOn, Deleted
  <2>4. CASE ReleaseShards
    BY <1>0, <2>4 DEF ReleaseShards, At, GoOn
  <2>5. CASE HeartBeatDone
    BY <1>0, <2>5 DEF HeartBeatDone, At, Idle
  <2>6. CASE HeartbeatNotFound \/ HeartbeatSubDeleted
    BY <1>0, <2>6 DEF HeartbeatNotFound, HeartbeatSubDeleted, thread
  <2>7. CASE OnOffsetReset \/ OnRemoveAllShards
    BY <1>0, <2>7 DEF OnOffsetReset, OnRemoveAllShards, At
  <2> QED
    BY <1>1, <2>1, <2>2, <2>3, <2>4, <2>5, <2>6, <2>7 DEF KeepHeartbeat
<1>2. CASE Read
  <2>1. heartbeat' = heartbeat /\ currShards' = currShards
    BY <1>0, <1>2, ReadFrame DEF JoinGroup
  <2>2. readers' \cap FirstShards \subseteq readers
    BY <1>2, ReadFrame
       DEF CreateListedReader, RemoveUnlistedReader, ReadEnd, IInv, ListsFollowTopic
  <2> QED
    BY <1>0, <2>1, <2>2
<1>3. CASE ServiceStep
  BY <1>0, <1>3, ServiceFrame DEF thread
<1>4. CASE UNCHANGED vars
  BY <1>0, <1>4 DEF vars, thread
<1> QED
  BY <1>1, <1>2, <1>3, <1>4, Steps

----------------------------------------------------------------------------
(* The theorems *)

LEMMA InductiveInvariant == Spec => []IInv
<1>1. IInv /\ [Next]_vars => IInv'
  BY NextBeats, NextTypeOK, NextThreadAlive, NextEndsAreSealed, NextListsFollowTopic,
     NextHeldIsActive, NextHeldAreRead, NextFaultlessStays, NextPlans DEF IInv
<1> QED
  BY InitIInv, <1>1, PTL DEF Spec

\* Every variable keeps to its type whatever the service does, the counts of mActiveShards
\* included: a shard has at most one entry for every heartbeat.
THEOREM TypesKept == Spec => []TypeOK
<1>1. IInv => TypeOK
  BY DEF IInv
<1> QED
  BY <1>1, InductiveInvariant, PTL

\* Between two heartbeats every shard that the plan gave and that still gets records is among
\* the valid ones of SyncGroupMeta, so that Read does not wait for an assignment it has.
THEOREM HeldStaysValid == Spec => []HeldIsValid
<1>1. IInv => HeldIsValid
  <2> SUFFICES ASSUME IInv, heartbeat = Idle, NEW s \in currShards \ sealed
               PROVE  s \in ObtainValidShards
    BY DEF HeldIsValid
  <2>1. heartbeat.step # "done"
    BY DEF Idle
  <2> QED
    BY <2>1 DEF IInv, TypeOK, HeldIsActive, EndsAreSealed, ObtainValidShards
<1> QED
  BY <1>1, InductiveInvariant, PTL

\* Between two heartbeats every such shard has a reader, unless a reset takes the readers away:
\* neither the list of shards, nor the end of a shard, nor a rejoin loses one.
THEOREM HeldStaysRead == Spec => []HeldHasReader
<1>1. IInv => HeldHasReader
  <2> SUFFICES ASSUME IInv, heartbeat = Idle, joined, current, ~offsetReset
               PROVE  currShards \ sealed \subseteq readers
    BY DEF HeldHasReader
  <2>1. heartbeat.step = "idle" /\ ReadersKept
    BY DEF Idle, ReadersKept
  <2> QED
    BY <2>1 DEF IInv, HeldAreRead
<1> QED
  BY <1>1, InductiveInvariant, PTL

\* Without a fault a consumer reads, of the shards that the topic began with, only what its
\* plan says: the update of the list of shards makes readers for new shards only.
THEOREM ReadersKeepToPlan == Spec => []ReadersInPlan
<1>1. IInv => ReadersInPlan
  BY DEF IInv
<1> QED
  BY <1>1, InductiveInvariant, PTL

============================================================================
