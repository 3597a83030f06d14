-------------------------- MODULE OffsetManager --------------------------
(***************************************************************************)
(* Offsets of one consumer: the OffsetManager                              *)
(* (client/src/offset_manager.cpp) with the three threads that use it.     *)
(*                                                                         *)
(*   user       Read hands out records and queues their keys; Ack; the     *)
(*              readers of the shards that MetaData finds new, and of those *)
(*              read to their end                                          *)
(*   heartbeat  a plan adds and removes shards; a subscription is reset    *)
(*   commit     CommitOffsetTask: SyncOffset and CommitOffset              *)
(*                                                                         *)
(* A shard's records are numbered 1 .. LastRecord.  A key is the           *)
(* MessageKey object of one delivery: its reader tells it from the key of  *)
(* another delivery of the same record.  A session stands for the pair     *)
(* (version, session) that InitSubscriptionOffsetSession returns: the      *)
(* service accepts offsets of the latest one only.                         *)
(***************************************************************************)
EXTENDS Integers, Sequences, FiniteSets

CONSTANTS
    Shards,
    MaxRetry,       \* MAX_COMMIT_OFFSET_RETRY_TIMES
    MaxSequence,    \* bound: records of a shard
    MaxSession,     \* bound: sessions of a shard
    LastRecord,     \* the records of every shard, ...
    LastSession,    \* ... and its sessions, within these bounds
    FirstShards     \* those the topic has at first

ASSUME MaxRetryAssumption == MaxRetry \in Nat \ {0}
ASSUME MaxSequenceAssumption == MaxSequence \in Nat
ASSUME MaxSessionAssumption == MaxSession \in Nat
ASSUME LastRecordAssumption == LastRecord \in [Shards -> 0 .. MaxSequence]
ASSUME LastSessionAssumption == LastSession \in [Shards -> 0 .. MaxSession]
ASSUME FirstShardsAssumption == FirstShards \subseteq Shards

\* Where a reader is, and in which session it was created.
Position == [next : 1 .. MaxSequence + 1, id : 1 .. MaxSession]

Key == [shard : Shards, seq : 1 .. MaxSequence, reader : 1 .. MaxSession]

VARIABLES
    \* OffsetManager
    offsetMeta,     \* mOffsetMetaMap: the session of every shard in it
    offsetRequest,  \* mOffsetRequestMap: the queue of keys of every shard in it
    lastOffset,     \* mLastOffsetMap: the key whose offset is to be committed
    committing,     \* the commit thread holds mMutex, in CommitOffset
    retryNum,       \* the local of CommitOffset
    terminated,     \* an exception has left the commit thread: std::terminate
    \* ShardGroupReader, MetaData, ConsumerHeartbeat, ConsumerCoordinator
    reader,         \* mShardReaderMap: the next record of every shard in it
    listed,         \* mShardMetaMap: the shards MetaData knows
    currShards,     \* mCurrShards
    heartbeat,      \* where the heartbeat thread is in OnShardChange
    shardOffset,    \* shardOffsetMap, the local of CreateShardReader
    offsetReset,    \* mOffsetReset
    user,           \* where the user thread is in Read
    \* keys held by the application
    returned,       \* the keys of the records Read has returned
    acked,          \* the keys with mIsReady set
    \* the service
    session, committed,
    \* history
    sent,           \* the keys queued for a shard since UpdateOffsetMeta
    mixed           \* shards whose queue and keys were not of one reader

manager == <<offsetMeta, offsetRequest, lastOffset, sent, mixed>>
commitThread == <<committing, retryNum, terminated>>
group == <<reader, listed, currShards, heartbeat, shardOffset, offsetReset>>
application == <<user, returned, acked>>
service == <<session, committed>>
vars == <<manager, commitThread, group, application, service>>

\* std::map: insertion or assignment of the entries of another map, and erase.
Assign(map, new) ==
    [x \in DOMAIN map \cup DOMAIN new |-> IF x \in DOMAIN new THEN new[x] ELSE map[x]]
Erase(map, keys) == [x \in DOMAIN map \ keys |-> map[x]]
EmptyMap == [x \in {} |-> 0]

Idle == [step |-> "idle", add |-> {}, del |-> {}]
NotReading == [step |-> "idle", key |-> {}]

Init ==
    /\ offsetMeta = EmptyMap
    /\ offsetRequest = EmptyMap
    /\ lastOffset = EmptyMap
    /\ committing = FALSE
    /\ retryNum = 0
    /\ terminated = FALSE
    /\ reader = EmptyMap
    /\ listed = FirstShards
    /\ currShards = {}
    /\ heartbeat = Idle
    /\ shardOffset = EmptyMap
    /\ offsetReset = FALSE
    /\ user = NotReading
    /\ returned = {}
    /\ acked = {}
    /\ session = [s \in Shards |-> 0]
    /\ committed = [s \in Shards |-> 0]
    /\ sent = [s \in Shards |-> <<>>]
    /\ mixed = {}

\* mMutex of the OffsetManager is free; all its other critical sections are one step.
Unlocked == ~committing

\* InitAndGetOffsets, first the call of InitSubscriptionOffsetSession: the service opens
\* a new session of the shards and returns their offsets ...
OpenSession(shards) ==
    /\ \A s \in shards : session[s] < LastSession[s]
    /\ session' = [s \in Shards |-> IF s \in shards THEN session[s] + 1 ELSE session[s]]
    /\ shardOffset' = [s \in shards |-> [next |-> committed[s] + 1, id |-> session[s] + 1]]

\* ... and then UpdateOffsetMeta for all of them, whether or not a reader of theirs exists;
\* CreateShardReader keeps a reader that exists, at its own position.
AddReaders(shards) ==
    /\ Unlocked
    /\ offsetMeta' = Assign(offsetMeta, [s \in shards |-> shardOffset[s].id])
    /\ offsetRequest' = Assign(offsetRequest, [s \in shards |-> <<>>])
    /\ sent' = [s \in Shards |-> IF s \in shards THEN <<>> ELSE sent[s]]
    /\ mixed' = mixed \cup (shards \cap DOMAIN reader)
    /\ reader' = Assign(shardOffset, reader)
    /\ shardOffset' = EmptyMap

\* mShardReaderMutex is free: CreateShardReader holds it through its two steps.
ReadersUnlocked == user.step # "create" /\ heartbeat.step # "create"

----------------------------------------------------------------------------
(* The user thread *)

\* ShardGroupReader::Read obtains the next record of a reader ...
ReadRecord(s) ==
    /\ ~terminated
    /\ user.step = "idle"
    /\ ~offsetReset
    /\ s \in DOMAIN reader
    /\ reader[s].next <= LastRecord[s]
    /\ user' = [step |-> "send",
                key |-> {[shard |-> s, seq |-> reader[s].next, reader |-> reader[s].id]}]
    /\ reader' = [reader EXCEPT ![s].next = @ + 1]
    /\ UNCHANGED <<manager, commitThread, listed, currShards, heartbeat, shardOffset, offsetReset,
                   returned, acked, service>>

\* Mutant: the key is queued at the front.
PushFront(key) == [offsetRequest EXCEPT ![key.shard] = <<key>> \o @]

Push(key) == [offsetRequest EXCEPT ![key.shard] = Append(@, key)]

\* ... and queues its key, unless the shard has left the map meanwhile.
SendOffsetRequest(key) ==
    /\ ~terminated
    /\ user.step = "send" /\ key \in user.key
    /\ Unlocked
    /\ IF key.shard \in DOMAIN offsetRequest
       THEN /\ offsetRequest' = Push(key)
            /\ sent' = [sent EXCEPT ![key.shard] = Append(@, key)]
            /\ mixed' = mixed \cup {s \in {key.shard} : offsetMeta[s] # key.reader}
       ELSE UNCHANGED <<offsetRequest, sent, mixed>>
    /\ returned' = returned \cup {key}
    /\ user' = NotReading
    /\ UNCHANGED <<offsetMeta, lastOffset, commitThread, group, acked, service>>

\* The application acknowledges in any order; MessageKey::Ack takes no lock.
Ack(key) ==
    /\ ~terminated
    /\ key \in returned
    /\ acked' = acked \cup {key}
    /\ UNCHANGED <<manager, commitThread, group, user, returned, service>>

\* UpdateShardInfo finds the consumer expired, or its offset reset: it leaves the
\* group, joins the heartbeat thread and starts a new one, whose mCurrShards is
\* empty.  The readers stay as they are.
Rejoin ==
    /\ ~terminated
    /\ user.step = "idle"
    /\ heartbeat.step = "idle"
    /\ currShards' = {}
    /\ offsetReset' = FALSE
    /\ UNCHANGED <<manager, commitThread, reader, listed, heartbeat, shardOffset, application,
                   service>>

\* UpdateShardInfo finds shards that are new to MetaData, which has readers made for all
\* of them, whoever of the group they will be assigned to ...
ListShard(new) ==
    /\ ~terminated
    /\ user.step = "idle"
    /\ ReadersUnlocked
    /\ new # {}
    /\ OpenSession(new)
    /\ user' = [NotReading EXCEPT !.step = "create"]
    /\ UNCHANGED <<manager, commitThread, reader, listed, currShards, heartbeat, offsetReset,
                   returned, acked, committed>>

\* ... in the same call of CreateShardReader that a plan uses.
CreateListedReader ==
    /\ ~terminated
    /\ user.step = "create"
    /\ AddReaders(DOMAIN shardOffset)
    /\ listed' = listed \cup DOMAIN shardOffset
    /\ user' = NotReading
    /\ UNCHANGED <<lastOffset, commitThread, currShards, heartbeat, offsetReset, returned,
                   acked, service>>

\* OnShardReadEnd: a sealed shard is read to its end.  Its reader goes, the maps of the
\* OffsetManager keep it.
ReadEnd(s) ==
    /\ ~terminated
    /\ user.step = "idle"
    /\ ReadersUnlocked
    /\ ~offsetReset
    /\ s \in DOMAIN reader
    /\ reader[s].next > LastRecord[s]
    /\ reader' = Erase(reader, {s})
    /\ UNCHANGED <<manager, commitThread, listed, currShards, heartbeat, shardOffset, offsetReset,
                   application, service>>

----------------------------------------------------------------------------
(* The heartbeat thread *)

\* The answer of a heartbeat changes the plan: ConsumerCoordinator::OnShardChange.
Heartbeat(plan) ==
    LET add == plan \ currShards
        del == currShards \ plan
    IN /\ ~terminated
       /\ heartbeat.step = "idle"
       /\ ~offsetReset
       /\ add \cup del # {}
       /\ heartbeat' = [step |-> IF add # {} THEN "init" ELSE "remove",
                        add |-> add, del |-> del]
       /\ UNCHANGED <<manager, commitThread, reader, listed, currShards, shardOffset,
                      offsetReset, application, service>>

InitSession ==
    /\ ~terminated
    /\ heartbeat.step = "init"
    /\ ReadersUnlocked
    /\ OpenSession(heartbeat.add)
    /\ heartbeat' = [heartbeat EXCEPT !.step = "create"]
    /\ UNCHANGED <<manager, commitThread, reader, listed, currShards, offsetReset, application,
                   committed>>

CreateReaders ==
    /\ ~terminated
    /\ heartbeat.step = "create"
    /\ AddReaders(heartbeat.add)
    /\ IF heartbeat.del = {}
       THEN /\ heartbeat' = Idle
            /\ currShards' = currShards \cup heartbeat.add
       ELSE /\ heartbeat' = [heartbeat EXCEPT !.step = "remove"]
            /\ UNCHANGED currShards
    /\ UNCHANGED <<lastOffset, commitThread, listed, offsetReset, application, service>>

RemoveReaders ==
    /\ ~terminated
    /\ heartbeat.step = "remove"
    /\ ReadersUnlocked
    /\ reader' = Erase(reader, heartbeat.del)
    /\ heartbeat' = [heartbeat EXCEPT !.step = "force"]
    /\ UNCHANGED <<manager, commitThread, listed, currShards, shardOffset, offsetReset,
                   application, service>>

\* Mutant: the queues are not looked at.
NothingSynced(shards) == DOMAIN lastOffset = {}

\* CheckRequestQueueIsEmpty
NothingToCommit(shards) ==
    /\ DOMAIN lastOffset = {}
    /\ \A s \in shards \cap DOMAIN offsetRequest : offsetRequest[s] = <<>>

\* ForceCommitOffset ends when nothing is left to commit ...
ForceCommitDone ==
    /\ ~terminated
    /\ heartbeat.step = "force"
    /\ Unlocked
    /\ NothingToCommit(heartbeat.del)
    /\ heartbeat' = [heartbeat EXCEPT !.step = "erase"]
    /\ UNCHANGED <<manager, commitThread, reader, listed, currShards, shardOffset, offsetReset,
                   application, service>>

\* ... or gives up after FORCE_COMMIT_TIMEOUT_MS.
ForceCommitTimeout ==
    /\ ~terminated
    /\ heartbeat.step = "force"
    /\ ~NothingToCommit(heartbeat.del)
    /\ heartbeat' = [heartbeat EXCEPT !.step = "erase"]
    /\ UNCHANGED <<manager, commitThread, reader, listed, currShards, shardOffset, offsetReset,
                   application, service>>

\* Mutant: the queue of keys stays.
EraseButRequests(shards) ==
    /\ lastOffset' = Erase(lastOffset, shards)
    /\ offsetMeta' = Erase(offsetMeta, shards)
    /\ UNCHANGED offsetRequest

EraseMaps(shards) ==
    /\ lastOffset' = Erase(lastOffset, shards)
    /\ offsetRequest' = Erase(offsetRequest, shards)
    /\ offsetMeta' = Erase(offsetMeta, shards)

\* The rest of OnShardRealese; the new plan becomes mCurrShards.
EraseShards ==
    LET del == heartbeat.del
    IN /\ ~terminated
       /\ heartbeat.step = "erase"
       /\ Unlocked
       /\ EraseMaps(del)
       /\ currShards' = (currShards \cup heartbeat.add) \ del
       /\ heartbeat' = Idle
       /\ UNCHANGED <<sent, mixed, commitThread, reader, listed, shardOffset, offsetReset,
                      application, service>>

\* The owner of the subscription rewinds a shard: older sessions become invalid.
RewindSubscription(s) ==
    /\ session[s] < LastSession[s]
    /\ session' = [session EXCEPT ![s] = @ + 1]
    /\ committed' = [committed EXCEPT ![s] = 0]
    /\ UNCHANGED <<manager, commitThread, group, application>>

\* A heartbeat learns of it: OnOffsetReset, first DoRemoveAllShards ...
ResetReaders ==
    /\ ~terminated
    /\ heartbeat.step = "idle"
    /\ ~offsetReset
    /\ ReadersUnlocked
    /\ \E s \in DOMAIN offsetMeta : offsetMeta[s] # session[s]
    /\ offsetReset' = TRUE
    /\ reader' = EmptyMap
    /\ heartbeat' = [Idle EXCEPT !.step = "clear"]
    /\ UNCHANGED <<manager, commitThread, listed, currShards, shardOffset, application, service>>

\* ... and then OffsetManager::OnOffsetReset.
ClearOffsets ==
    /\ ~terminated
    /\ heartbeat.step = "clear"
    /\ Unlocked
    /\ offsetMeta' = EmptyMap
    /\ offsetRequest' = EmptyMap
    /\ lastOffset' = EmptyMap
    /\ heartbeat' = Idle
    /\ UNCHANGED <<sent, mixed, commitThread, reader, listed, currShards, shardOffset,
                   offsetReset, application, service>>

----------------------------------------------------------------------------
(* The commit thread *)

\* Mutant: a key that is not acknowledged does not stop the loop.
AckedUpToLast(requests) ==
    CHOOSE n \in 0 .. Len(requests) :
        /\ n > 0 => requests[n] \in acked
        /\ \A i \in n + 1 .. Len(requests) : requests[i] \notin acked

\* How many keys SyncOffset pops: the acknowledged ones up to the first that is not.
AckedPrefix(requests) ==
    CHOOSE n \in 0 .. Len(requests) :
        /\ \A i \in 1 .. n : requests[i] \in acked
        /\ n < Len(requests) => requests[n + 1] \notin acked

\* SyncOffset, after which CommitOffset goes on with mMutex held if there is anything.
SyncOffset ==
    LET popped == [s \in DOMAIN offsetRequest |-> AckedPrefix(offsetRequest[s])]
        synced == {s \in DOMAIN offsetRequest : popped[s] > 0}
    IN /\ ~terminated
       /\ Unlocked
       /\ offsetRequest' = [s \in DOMAIN offsetRequest |->
                              SubSeq(offsetRequest[s], popped[s] + 1, Len(offsetRequest[s]))]
       /\ lastOffset' = Assign(lastOffset,
                               [s \in synced |-> offsetRequest[s][popped[s]]])
       /\ committing' = (DOMAIN lastOffset' # {})
       /\ retryNum' = 0
       /\ UNCHANGED <<offsetMeta, sent, mixed, terminated, group, application, service>>

\* The service takes the offsets if it knows the session of every one of them.
Accepted == \A s \in DOMAIN lastOffset : offsetMeta[s] = session[s]

Store == committed' = [s \in Shards |-> IF s \in DOMAIN lastOffset THEN lastOffset[s].seq
                                                                  ELSE committed[s]]

CommitSucceeds ==
    /\ ~terminated
    /\ committing
    /\ Accepted
    /\ Store
    /\ lastOffset' = EmptyMap
    /\ committing' = FALSE
    /\ retryNum' = 0
    /\ UNCHANGED <<offsetMeta, offsetRequest, sent, mixed, terminated, group, application, session>>

\* Mutant: one attempt too many.
OneMoreAttempt == retryNum <= MaxRetry

AttemptsLeft == retryNum + 1 < MaxRetry

\* The offsets are refused, or the request or its answer is lost.  A DatahubException is
\* thrown out of CommitOffsetTask by the last attempt only, any other exception by each.
CommitFails ==
    /\ ~terminated
    /\ committing
    /\ (Accepted /\ Store) \/ UNCHANGED committed
    /\ \/ /\ AttemptsLeft
          /\ retryNum' = retryNum + 1
          /\ UNCHANGED <<committing, terminated>>
       \/ /\ terminated' = TRUE
          /\ committing' = FALSE
          /\ retryNum' = 0
    /\ UNCHANGED <<manager, group, application, session>>

----------------------------------------------------------------------------
\* The process dies and starts again: only the service remembers anything.  What was
\* returned and acknowledged stays known, as history; the new MetaData may know more shards.
Restart ==
    /\ offsetMeta' = EmptyMap
    /\ offsetRequest' = EmptyMap
    /\ lastOffset' = EmptyMap
    /\ committing' = FALSE
    /\ retryNum' = 0
    /\ terminated' = FALSE
    /\ reader' = EmptyMap
    /\ \E new \in SUBSET Shards : listed' = listed \cup new
    /\ currShards' = {}
    /\ heartbeat' = Idle
    /\ shardOffset' = EmptyMap
    /\ offsetReset' = FALSE
    /\ user' = NotReading
    /\ returned' = acked
    /\ UNCHANGED <<sent, mixed, acked, service>>

User ==
    \/ \E s \in Shards : ReadRecord(s)
    \/ \E key \in user.key : SendOffsetRequest(key)
    \/ \E key \in returned : Ack(key)
    \/ Rejoin
    \/ \E new \in SUBSET (Shards \ listed) : ListShard(new)
    \/ CreateListedReader
    \/ \E s \in Shards : ReadEnd(s)

HeartbeatThread ==
    \/ \E plan \in SUBSET Shards : Heartbeat(plan)
    \/ InitSession \/ CreateReaders \/ RemoveReaders
    \/ ForceCommitDone \/ ForceCommitTimeout \/ EraseShards
    \/ ResetReaders \/ ClearOffsets

CommitOffsetTask == SyncOffset \/ CommitSucceeds \/ CommitFails

Next ==
    \/ User \/ HeartbeatThread \/ CommitOffsetTask
    \/ \E s \in Shards : RewindSubscription(s)
    \/ Restart

Spec == Init /\ [][Next]_vars

----------------------------------------------------------------------------
IsMap(map, Value) == DOMAIN map \subseteq Shards /\ \A s \in DOMAIN map : map[s] \in Value

ManagerType ==
    /\ IsMap(offsetMeta, 1 .. MaxSession)
    /\ IsMap(offsetRequest, Seq(Key))
    /\ IsMap(lastOffset, Key)
    /\ sent \in [Shards -> Seq(Key)]
    /\ mixed \in SUBSET Shards

CommitThreadType ==
    /\ committing \in BOOLEAN
    /\ retryNum \in 0 .. MaxRetry - 1
    /\ terminated \in BOOLEAN

GroupType ==
    /\ IsMap(reader, Position)
    /\ listed \in SUBSET Shards
    /\ currShards \in SUBSET Shards
    /\ heartbeat \in [step : {"idle", "init", "create", "remove", "force", "erase", "clear"},
                      add : SUBSET Shards, del : SUBSET Shards]
    /\ IsMap(shardOffset, Position)
    /\ heartbeat.step = "create" => DOMAIN shardOffset = heartbeat.add /\ user.step # "create"
    /\ offsetReset \in BOOLEAN

ApplicationType ==
    /\ user \in [step : {"idle", "send", "create"}, key : SUBSET Key]
    /\ returned \in SUBSET Key
    /\ acked \in SUBSET Key

ServiceType ==
    /\ session \in [Shards -> 0 .. MaxSession]
    /\ committed \in [Shards -> 0 .. MaxSequence]

\* Every variable holds a value of its type; what InitSubscriptionOffsetSession has
\* answered is about the added shards.
TypeOK == ManagerType /\ CommitThreadType /\ GroupType /\ ApplicationType /\ ServiceType

\* CommitOffset (offset_manager.cpp:164-168) looks the session of an offset up and
\* uses the iterator even if it is end(): the test is "found, or ...".  It is found
\* always, because the maps gain and lose a shard together.
MetaFound ==
    /\ DOMAIN lastOffset \subseteq DOMAIN offsetMeta
    /\ DOMAIN offsetRequest = DOMAIN offsetMeta

Popped(s) == Len(sent[s]) - Len(offsetRequest[s])

\* The queue is what is left of the keys queued, and what is gone is acknowledged.
QueueSuffix(s) ==
    /\ Popped(s) >= 0
    /\ offsetRequest[s] = SubSeq(sent[s], Popped(s) + 1, Len(sent[s]))
    /\ \A i \in 1 .. Popped(s) : sent[s][i] \in acked

\* A key leaves its queue only when it and all keys queued before it are acknowledged,
\* and the offset to be committed belongs to an acknowledged key of the shard.
PoppedAcked ==
    /\ \A s \in DOMAIN offsetRequest : QueueSuffix(s)
    /\ \A s \in DOMAIN lastOffset : lastOffset[s].shard = s /\ lastOffset[s] \in acked

\* A record of the shard that the application has acknowledged.
Acknowledged(s, n) == \E key \in acked : key.shard = s /\ key.seq = n

\* A committed offset covers only records the application has acknowledged
\* (example_collaborative_consume.cpp:187: Ack is called once the data is processed):
\* what a crash leaves to the next owner includes every record still unprocessed.
AtLeastOnce == \A s \in Shards : \A n \in 1 .. committed[s] : Acknowledged(s, n)

\* The same through restarts, releases, resets, read ends and new sessions, short of two
\* sequences of calls: a session opened while the reader of the last one is kept (a plan
\* after a rejoin, or for a shard whose reader MetaData had made, or the other way round),
\* and a key queued after its reader was replaced.
OneReaderAtLeastOnce ==
    \A s \in Shards \ mixed : \A n \in 1 .. committed[s] : Acknowledged(s, n)

\* When ForceCommitOffset ends in time, every record whose key the reader of the session
\* had queued for a released shard is committed: the next owner repeats none of these.
\* It may repeat the one that Read has and has not queued yet: SendOffsetRequest drops
\* that key when it finds the shard gone (offset_manager.cpp:66).
ReleaseCommitsAll ==
    [][heartbeat.step = "force" /\ heartbeat'.step = "erase" /\ NothingToCommit(heartbeat.del)
          => \A key \in returned :
                /\ key.shard \in heartbeat.del \ mixed
                /\ key.reader = session[key.shard]
                => key.seq <= committed[key.shard]]_vars

\* The committed offset of a shard moves back only when the subscription is rewound,
\* also when a commit of the last session is repeated in the next.
CommittedMonotonic ==
    [][\A s \in Shards \ mixed :
          session'[s] = session[s] => committed'[s] >= committed[s]]_vars
============================================================================
