-------------------------- MODULE ConsumerGroup --------------------------
(***************************************************************************)
(* A member of a consumer group: SyncGroupMeta, ConsumerHeartbeat and      *)
(* ConsumerCoordinator with the Read of ShardGroupReader that drives them, *)
(* and the list of shards that MetaData keeps up to date on the way        *)
(* (client/src/sync_group_meta.cpp, consumer_heartbeat.cpp,                *)
(* consumer_coordinator.cpp, shard_group_reader.cpp, meta_data.cpp).       *)
(*                                                                         *)
(* Two threads share the group's state: the application in Read and the    *)
(* heartbeat.  Read rejoins the group by stopping the heartbeat thread and *)
(* starting a new one.                                                     *)
(*                                                                         *)
(* pc of Read:   idle -> assign -> update (-> metaCreate -> metaRemove)    *)
(*               -> rejoin -> sync (-> clear) -> select -> reading         *)
(*               (-> readEnd) -> idle,                                     *)
(*               rejoin -> leave -> stop -> join -> joined -> sync         *)
(* heartbeat:    idle -> create -> remove -> (release ->) done -> idle,    *)
(*               idle -> reset -> idle                                     *)
(*                                                                         *)
(* The offsets of released shards are the matter of OffsetManager, and     *)
(* what a ShardReader reads that of ShardReader.  Timers are left out:     *)
(* what they delay or cut short can happen at any time.  MetaData has one  *)
(* user here: consumers of one process with the same subscription share it. *)
(***************************************************************************)
EXTENDS Integers

CONSTANTS
    Shards,
    FirstShards,    \* those the topic has from the start; splits bring the others
    NoShard,
    MaxBeats,       \* bound: heartbeats that change or confirm the plan
    MaxFaults       \* bound: sessions that expire, offsets reset, calls that fail

ASSUME NoShardAssumption == NoShard \notin Shards
ASSUME FirstShardsAssumption == FirstShards \subseteq Shards
ASSUME BoundsAssumption == MaxBeats \in Nat /\ MaxFaults \in Nat

VARIABLES
    \* SyncGroupMeta
    activeShards,       \* mActiveShards: how often each shard is in the list
    releaseShards, readEndShards,
    \* ConsumerHeartbeat
    heartbeat,          \* where the thread is, and the plan it is at
    currShards,         \* mCurrShards
    consumerNotFound,   \* mConsumerNotFound
    \* ConsumerCoordinator
    joined,             \* mHeartbeatPtr is not null
    offsetReset,        \* mOffsetReset
    subDeleted,         \* mSubDeleted
    \* MetaData
    metaShards,         \* the shards of mShardMetaMap
    listing,            \* what ListShard has answered to the update under way
    updating,           \* mUpdating
    \* ShardGroupReader
    pc, shard,          \* where Read is, and the shard it reads
    readers,            \* the shards of mShardReaderMap
    \* the service
    member,             \* it knows the consumer under its present id ...
    current,            \* ... and the present version of the subscription
    deleted,            \* the subscription is
    listed,             \* the shards of the topic
    sealed,             \* those that get no more records
    \* bounds
    beats, faults

meta == <<activeShards, releaseShards, readEndShards>>
thread == <<heartbeat, currShards, consumerNotFound>>
coordinator == <<joined, offsetReset, subDeleted>>
metaData == <<metaShards, listing, updating>>
read == <<pc, shard>>
service == <<member, current, deleted, listed, sealed>>
bounds == <<beats, faults>>
vars == <<meta, thread, coordinator, metaData, read, readers, service, bounds>>

Idle == [step |-> "idle", plan |-> {}]

\* After the constructor of DatahubConsumer: the group is joined, the first heartbeat thread
\* started, and what it calls registered.  The thread starts before that (consumer_coordinator
\* .cpp:27, datahub_consumer.cpp:29), and its first heartbeat is due 5 s later: a plan that came
\* before the registration would create no readers, which is no state of the model.
Init ==
    /\ activeShards = [s \in Shards |-> 0] /\ releaseShards = {} /\ readEndShards = {}
    /\ heartbeat = Idle /\ currShards = {} /\ consumerNotFound = FALSE
    /\ joined = TRUE /\ offsetReset = FALSE /\ subDeleted = FALSE
    /\ metaShards = FirstShards /\ listing = {} /\ updating = FALSE
    /\ pc = "idle" /\ shard = NoShard /\ readers = {}
    /\ member = TRUE /\ current = TRUE /\ deleted = FALSE
    /\ listed = FirstShards /\ sealed = {}
    /\ beats = 0 /\ faults = 0

\* A fault that the bound allows.
Fault == faults < MaxFaults /\ faults' = faults + 1 /\ UNCHANGED beats

----------------------------------------------------------------------------
(* SyncGroupMeta *)

OnShardReadEnd(s) ==
    /\ readEndShards' = readEndShards \cup {s}
    /\ UNCHANGED <<activeShards, releaseShards>>

\* Mutant: an entry is erased without looking whether there is one.
OnShardReleaseUnchecked(shards) ==
    /\ readEndShards' = readEndShards \ shards
    /\ activeShards' = [s \in Shards |->
            IF s \in shards THEN activeShards[s] - 1 ELSE activeShards[s]]
    /\ releaseShards' = releaseShards \cup shards

\* RemoveAll erases one entry of each shard from the list, whatever the number of entries.
OnShardRelease(shards) ==
    /\ readEndShards' = readEndShards \ shards
    /\ activeShards' = [s \in Shards |->
            IF s \in shards /\ activeShards[s] > 0 THEN activeShards[s] - 1 ELSE activeShards[s]]
    /\ releaseShards' = releaseShards \cup shards

\* Mutant: a shard whose release has not been announced yet is left out.
OnHeartBeatDoneButReleased(shards) ==
    /\ activeShards' = [s \in Shards |->
            IF s \in shards \ (readEndShards \cup releaseShards)
            THEN activeShards[s] + 1 ELSE activeShards[s]]
    /\ UNCHANGED <<releaseShards, readEndShards>>

OnHeartBeatDone(shards) ==
    /\ activeShards' = [s \in Shards |->
            IF s \in shards \ readEndShards THEN activeShards[s] + 1 ELSE activeShards[s]]
    /\ UNCHANGED <<releaseShards, readEndShards>>

ObtainValidShards == {s \in Shards \ readEndShards : activeShards[s] > 0}

----------------------------------------------------------------------------
(* ConsumerHeartbeat *)

\* The thread is between two heartbeats and has not been told to close.
MayBeat == joined /\ heartbeat = Idle /\ pc # "stop"

Added == heartbeat.plan \ currShards

\* Mutant: a plan either adds or deletes.
DeletedUnlessAdded == IF Added = {} THEN currShards \ heartbeat.plan ELSE {}

Deleted == currShards \ heartbeat.plan

At(step) == heartbeat.step = step
GoOn(step) == heartbeat' = [heartbeat EXCEPT !.step = step]

\* The service answers with the shards it assigns to the consumer.
HeartbeatOnce(plan) ==
    /\ MayBeat /\ member /\ current /\ ~deleted
    /\ beats < MaxBeats /\ beats' = beats + 1
    /\ heartbeat' = [step |-> IF plan = currShards THEN "done" ELSE "create", plan |-> plan]
    /\ UNCHANGED <<meta, currShards, consumerNotFound, coordinator, metaData, read, readers,
                   service, faults>>

CreateShardReader ==
    /\ At("create")
    /\ readers' = readers \cup Added
    /\ GoOn("remove")
    /\ UNCHANGED <<meta, currShards, consumerNotFound, coordinator, metaData, read, service,
                   bounds>>

RemoveShardReader ==
    /\ At("remove")
    /\ readers' = readers \ Deleted
    /\ GoOn(IF Deleted = {} THEN "done" ELSE "release")
    /\ UNCHANGED <<meta, currShards, consumerNotFound, coordinator, metaData, read, service,
                   bounds>>

ReleaseShards ==
    /\ At("release")
    /\ OnShardRelease(Deleted)
    /\ GoOn("done")
    /\ UNCHANGED <<currShards, consumerNotFound, coordinator, metaData, read, readers, service,
                   bounds>>

HeartBeatDone ==
    /\ At("done")
    /\ currShards' = heartbeat.plan
    /\ OnHeartBeatDone(heartbeat.plan)
    /\ heartbeat' = Idle
    /\ UNCHANGED <<consumerNotFound, coordinator, metaData, read, readers, service, bounds>>

\* NoSuchConsumer
HeartbeatNotFound ==
    /\ MayBeat /\ ~member /\ ~deleted
    /\ consumerNotFound' = TRUE
    /\ UNCHANGED <<meta, heartbeat, currShards, coordinator, metaData, read, readers, service,
                   bounds>>

\* NoSuchSubscription
HeartbeatSubDeleted ==
    /\ MayBeat /\ deleted
    /\ subDeleted' = TRUE
    /\ UNCHANGED <<meta, thread, joined, offsetReset, metaData, read, readers, service, bounds>>

\* OffsetReseted, unless a reset is being dealt with already.
OnOffsetReset ==
    /\ MayBeat /\ member /\ ~current /\ ~deleted
    /\ ~offsetReset
    /\ offsetReset' = TRUE
    /\ GoOn("reset")
    /\ UNCHANGED <<meta, currShards, consumerNotFound, joined, subDeleted, metaData, read,
                   readers, service, bounds>>

OnRemoveAllShards ==
    /\ At("reset")
    /\ readers' = {}
    /\ heartbeat' = Idle
    /\ UNCHANGED <<meta, currShards, consumerNotFound, coordinator, metaData, read, service,
                   bounds>>

KeepHeartbeat ==
    \/ \E plan \in SUBSET listed : HeartbeatOnce(plan)
    \/ CreateShardReader \/ RemoveShardReader \/ ReleaseShards \/ HeartBeatDone
    \/ HeartbeatNotFound \/ HeartbeatSubDeleted
    \/ OnOffsetReset \/ OnRemoveAllShards

----------------------------------------------------------------------------
(* Read *)

Goto(label) == pc' = label /\ shard' = NoShard

StartRead ==
    /\ pc = "idle"
    /\ Goto("assign")
    /\ UNCHANGED <<meta, thread, coordinator, metaData, readers, service, bounds>>

WaitShardAssign == ~joined \/ ObtainValidShards = {}

\* Read waits, until it is the turn of this step again or its timeout has passed.
NotAssigned ==
    /\ pc = "assign"
    /\ WaitShardAssign
    /\ Goto("idle")
    /\ UNCHANGED <<meta, thread, coordinator, metaData, readers, service, bounds>>

Assigned ==
    /\ pc = "assign"
    /\ ~WaitShardAssign
    /\ Goto("update")
    /\ UNCHANGED <<meta, thread, coordinator, metaData, readers, service, bounds>>

\* UpdateShardInfo throws to the application.
UpdateThrows ==
    /\ pc = "update"
    /\ subDeleted
    /\ Goto("idle")
    /\ UNCHANGED <<meta, thread, coordinator, metaData, readers, service, bounds>>

\* The timer of MetaData has not expired.
NoUpdateDue ==
    /\ pc = "update"
    /\ ~subDeleted
    /\ Goto("rejoin")
    /\ UNCHANGED <<meta, thread, coordinator, metaData, readers, service, bounds>>

\* It has, but mUpdating says that an update is under way.
UpdateUnderWay ==
    /\ pc = "update"
    /\ ~subDeleted
    /\ updating
    /\ Goto("rejoin")
    /\ UNCHANGED <<meta, thread, coordinator, metaData, readers, service, bounds>>

\* Consumers want the shards in every state; a change is for the readers first.
ListShard ==
    /\ pc = "update"
    /\ ~subDeleted
    /\ ~updating
    /\ IF listed = metaShards
       THEN Goto("rejoin") /\ UNCHANGED metaData
       ELSE /\ Goto("metaCreate")
            /\ listing' = listed /\ updating' = TRUE
            /\ UNCHANGED metaShards
    /\ UNCHANGED <<meta, thread, coordinator, readers, service, bounds>>

\* mUpdating stays as it is.
ListShardFails ==
    /\ pc = "update"
    /\ ~subDeleted
    /\ ~updating
    /\ Fault
    /\ updating' = TRUE
    /\ Goto("idle")
    /\ UNCHANGED <<meta, thread, coordinator, metaShards, listing, readers, service>>

\* Readers for all new shards, whoever of the group they will be assigned to.
CreateListedReader ==
    /\ pc = "metaCreate"
    /\ readers' = readers \cup (listing \ metaShards)
    /\ Goto("metaRemove")
    /\ UNCHANGED <<meta, thread, coordinator, metaData, service, bounds>>

\* The offsets of the new shards cannot be had.
CreateListedReaderFails ==
    /\ pc = "metaCreate"
    /\ ~(listing \subseteq metaShards)
    /\ Fault
    /\ listing' = {}
    /\ Goto("idle")
    /\ UNCHANGED <<meta, thread, coordinator, metaShards, updating, readers, service>>

RemoveUnlistedReader ==
    /\ pc = "metaRemove"
    /\ readers' = readers \ (metaShards \ listing)
    /\ metaShards' = listing
    /\ listing' = {} /\ updating' = FALSE
    /\ Goto("rejoin")
    /\ UNCHANGED <<meta, thread, coordinator, service, bounds>>

\* Mutant: a consumer that the service has forgotten goes on as before.
RejoinAfterResetOnly == offsetReset

\* Whether UpdateShardInfo is to rejoin the group, the session timeout aside.
MustRejoin == offsetReset \/ ~joined \/ consumerNotFound

UpdateShardInfo ==
    /\ pc = "rejoin"
    /\ IF MustRejoin THEN Goto("leave") ELSE Goto("sync")
    /\ UNCHANGED <<meta, thread, coordinator, metaData, readers, service, bounds>>

\* No heartbeat has come through for the time of the session timeout.
SessionTimeout ==
    /\ pc = "rejoin"
    /\ Fault
    /\ Goto("leave")
    /\ UNCHANGED <<meta, thread, coordinator, metaData, readers, service>>

\* The call may fail, but goes on all the same.
LeaveGroup ==
    /\ pc = "leave"
    /\ member' \in {FALSE, member}
    /\ Goto("stop")
    /\ UNCHANGED <<meta, thread, coordinator, metaData, readers, current, deleted, listed, sealed,
                   bounds>>

\* The destructor of the heartbeat joins its thread.
StopHeartBeat ==
    /\ pc = "stop"
    /\ heartbeat = Idle
    /\ joined' = FALSE
    /\ Goto("join")
    /\ UNCHANGED <<meta, thread, offsetReset, subDeleted, metaData, readers, service, bounds>>

\* Mutant: the heartbeat holds the shards of the one before.
SameShards == consumerNotFound' = FALSE /\ UNCHANGED currShards

\* The heartbeat that starts holds no shard.
StartHeartBeat == consumerNotFound' = FALSE /\ currShards' = {}

JoinGroup ==
    /\ pc = "join"
    /\ ~deleted
    /\ member' = TRUE /\ current' = TRUE
    /\ joined' = TRUE
    /\ StartHeartBeat
    /\ Goto("joined")
    /\ UNCHANGED <<meta, heartbeat, offsetReset, subDeleted, metaData, readers, deleted,
                   listed, sealed, bounds>>

JoinGroupFails ==
    /\ pc = "join"
    /\ IF deleted THEN UNCHANGED bounds ELSE Fault
    /\ Goto("idle")
    /\ UNCHANGED <<meta, thread, coordinator, metaData, readers, service>>

\* The new thread runs already.
ClearOffsetReset ==
    /\ pc = "joined"
    /\ offsetReset' = FALSE
    /\ Goto("sync")
    /\ UNCHANGED <<meta, thread, joined, subDeleted, metaData, readers, service, bounds>>

\* The timer of SyncGroupMeta has not expired, or there is nothing to announce.
NeedNoSyncGroup ==
    /\ pc = "sync"
    /\ Goto("select")
    /\ UNCHANGED <<meta, thread, coordinator, metaData, readers, service, bounds>>

SyncGroup ==
    /\ pc = "sync"
    /\ releaseShards \cup readEndShards # {}
    /\ Goto("clear")
    /\ UNCHANGED <<meta, thread, coordinator, metaData, readers, service, bounds>>

SyncGroupFails ==
    /\ pc = "sync"
    /\ releaseShards \cup readEndShards # {}
    /\ Fault
    /\ Goto("idle")
    /\ UNCHANGED <<meta, thread, coordinator, metaData, readers, service>>

\* Without mMutex: a release since the call of SyncGroup is cleared as well.
ClearShardRelease ==
    /\ pc = "clear"
    /\ releaseShards' = {}
    /\ Goto("select")
    /\ UNCHANGED <<activeShards, readEndShards, thread, coordinator, metaData, readers, service,
                   bounds>>

\* GetNextReader throws: no reader is left.
NoActiveShard ==
    /\ pc = "select"
    /\ readers = {}
    /\ Goto("idle")
    /\ UNCHANGED <<meta, thread, coordinator, metaData, readers, service, bounds>>

\* The reader stays alive while Read has it, even when the heartbeat removes it.
GetNextReader ==
    /\ pc = "select"
    /\ shard' \in readers
    /\ pc' = "reading"
    /\ UNCHANGED <<meta, thread, coordinator, metaData, readers, service, bounds>>

\* A record, nothing, or an exception for the application.
ReadOnce ==
    /\ pc = "reading"
    /\ Goto("idle")
    /\ UNCHANGED <<meta, thread, coordinator, metaData, readers, service, bounds>>

\* InvalidShardOperation: the coordinator removes the reader ...
ReadEnd ==
    /\ pc = "reading"
    /\ shard \in sealed
    /\ readers' = readers \ {shard}
    /\ pc' = "readEnd"
    /\ UNCHANGED <<meta, thread, coordinator, shard, metaData, service, bounds>>

\* ... and tells SyncGroupMeta.
ReportReadEnd ==
    /\ pc = "readEnd"
    /\ OnShardReadEnd(shard)
    /\ Goto("idle")
    /\ UNCHANGED <<thread, coordinator, metaData, readers, service, bounds>>

UpdateShardMetaMap ==
    \/ NoUpdateDue \/ UpdateUnderWay \/ ListShard \/ ListShardFails
    \/ CreateListedReader \/ CreateListedReaderFails \/ RemoveUnlistedReader

Rejoin == LeaveGroup \/ StopHeartBeat \/ JoinGroup \/ JoinGroupFails \/ ClearOffsetReset

SyncConsumerGroup == NeedNoSyncGroup \/ SyncGroup \/ SyncGroupFails \/ ClearShardRelease

ReadOnceByReader == NoActiveShard \/ GetNextReader \/ ReadOnce \/ ReadEnd \/ ReportReadEnd

Read ==
    \/ StartRead \/ NotAssigned \/ Assigned
    \/ UpdateThrows \/ UpdateShardMetaMap \/ UpdateShardInfo \/ SessionTimeout
    \/ Rejoin \/ SyncConsumerGroup \/ ReadOnceByReader

----------------------------------------------------------------------------
(* The service *)

\* It has not heard of the consumer for the time of the session timeout.
ForgetConsumer ==
    /\ member /\ Fault
    /\ member' = FALSE
    /\ UNCHANGED <<meta, thread, coordinator, metaData, read, readers,
                   current, deleted, listed, sealed>>

RewindSubscription ==
    /\ current /\ Fault
    /\ current' = FALSE
    /\ UNCHANGED <<meta, thread, coordinator, metaData, read, readers,
                   member, deleted, listed, sealed>>

DeleteSubscription ==
    /\ ~deleted /\ Fault
    /\ deleted' = TRUE
    /\ UNCHANGED <<meta, thread, coordinator, metaData, read, readers,
                   member, current, listed, sealed>>

SealShard(s) ==
    /\ s \in listed \ sealed
    /\ sealed' = sealed \cup {s}
    /\ UNCHANGED <<meta, thread, coordinator, metaData, read, readers, member, current, deleted,
                   listed, bounds>>

\* A split or a merge adds a shard; the records of a sealed one expire.
AddShard(s) ==
    /\ s \notin FirstShards \cup listed \cup sealed
    /\ listed' = listed \cup {s}
    /\ UNCHANGED <<meta, thread, coordinator, metaData, read, readers, member, current, deleted,
                   sealed, bounds>>

DropShard(s) ==
    /\ s \in listed \cap sealed
    /\ listed' = listed \ {s}
    /\ UNCHANGED <<meta, thread, coordinator, metaData, read, readers, member, current, deleted,
                   sealed, bounds>>

Next ==
    \/ KeepHeartbeat
    \/ Read
    \/ ForgetConsumer \/ RewindSubscription \/ DeleteSubscription
    \/ \E s \in Shards : SealShard(s) \/ AddShard(s) \/ DropShard(s)

Spec == Init /\ [][Next]_vars

(***************************************************************************)
(* The heartbeat thread runs, and the application goes on calling Read.    *)
(***************************************************************************)
FairSpec == Spec /\ WF_vars(KeepHeartbeat) /\ WF_vars(Read)

----------------------------------------------------------------------------
\* The variables hold values of their types; Read has a shard exactly while it reads one.
TypeOK ==
    /\ activeShards \in [Shards -> 0 .. MaxBeats]
    /\ releaseShards \subseteq Shards /\ readEndShards \subseteq Shards
    /\ heartbeat \in [step : {"idle", "create", "remove", "release", "done", "reset"},
                      plan : SUBSET Shards]
    /\ currShards \subseteq Shards
    /\ {consumerNotFound, joined, offsetReset, subDeleted} \subseteq BOOLEAN
    /\ metaShards \subseteq Shards /\ listing \subseteq Shards /\ updating \in BOOLEAN
    /\ pc \in {"idle", "assign", "update", "metaCreate", "metaRemove", "rejoin", "leave", "stop",
               "join", "joined", "sync", "clear", "select", "reading", "readEnd"}
    /\ shard \in Shards \cup {NoShard}
    /\ shard \in Shards <=> pc \in {"reading", "readEnd"}
    /\ readers \subseteq Shards
    /\ {member, current, deleted} \subseteq BOOLEAN
    /\ listed \subseteq Shards /\ sealed \subseteq Shards
    /\ beats \in 0 .. MaxBeats /\ faults \in 0 .. MaxFaults

\* Between two heartbeats, Read does not wait for an assignment while the consumer holds a shard
\* that still gets records, whatever was released, reassigned and read to its end before.
HeldIsValid ==
    heartbeat = Idle /\ joined => currShards \ sealed \subseteq ObtainValidShards

\* Between two heartbeats, every such shard has a reader, unless a reset is being dealt with or
\* the next heartbeat will report one (again: storing FALSE into mOffsetReset at the end of a
\* rejoin may undo what the new thread has just set, after it removed all readers).
HeldHasReader ==
    heartbeat = Idle /\ joined /\ current /\ ~offsetReset => currShards \ sealed \subseteq readers

OutOfGroup == offsetReset \/ ~joined \/ consumerNotFound

\* LeaveGroupAndStopHeartBeat was done and JoinGroup has thrown to the application.
JoinFailed == ~joined /\ pc # "join"

\* A consumer that is out of its group while it has a valid shard joins it again, or its
\* JoinGroup throws, or it learns that its subscription is deleted, or it loses its last valid
\* shard.  From JoinFailed there is no way back: mHeartbeatPtr is null, for which every later
\* Read waits in WaitShardAssign (consumer_coordinator.cpp:42) and never comes to the rejoin,
\* although that asks for a null mHeartbeatPtr (:48).
RejoinWhenAssigned ==
    OutOfGroup /\ ~WaitShardAssign ~>
        ~OutOfGroup \/ JoinFailed \/ subDeleted \/ ObtainValidShards = {}

\* Of the shards that the topic has from the start, the consumer reads only what its plan says,
\* until a group is rejoined with the readers of the old membership.  What a split brings is
\* different: MetaData makes every consumer of the group read it.
ReadersInPlan ==
    faults = 0 => readers \cap FirstShards \subseteq currShards \cup heartbeat.plan
============================================================================
