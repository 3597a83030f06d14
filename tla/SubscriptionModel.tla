-------------------------- MODULE SubscriptionModel --------------------------
(***************************************************************************)
(* The requests and results about subscriptions, the offsets they keep and *)
(* the groups of consumers that share one (src/src/model).                 *)
(***************************************************************************)
EXTENDS DatahubRequest

\* Enumerators travel as numbers here.
SubscriptionStates == [OFFLINE |-> 0, ONLINE |-> 1]
SubscriptionTypes  == [USER |-> 0, SYSTEM |-> 1, TT |-> 2]

FromValue(names, value) == CHOOSE n \in DOMAIN names : names[n] = value

-----------------------------------------------------------------------------
(* Subscriptions. *)

ListSubscriptionRequest(c) ==
    ActionRequest(SubscriptionsPath(c), "list",
                  [PageIndex |-> Number(c.pageIndex), PageSize |-> Number(c.pageSize)]
                  ++ Optional(c.search # "", "Search", Text(c.search)))

CreateSubscriptionRequest(c) ==
    ActionRequest(SubscriptionsPath(c), "Create", [Comment |-> Text(c.comment)])

DeleteSubscriptionRequest(c) == Request(SubscriptionPath(c), NoBody)
GetSubscriptionRequest(c)    == Request(SubscriptionPath(c), NoBody)

UpdateSubscriptionRequest(c) ==
    Request(SubscriptionPath(c), Json([Comment |-> Text(c.comment)]))

UpdateSubscriptionStateRequest(c) ==
    Request(SubscriptionPath(c), Json([State |-> Number(SubscriptionStates[c.state])]))

CreateSubscriptionResult(doc) == TextMember(doc, "SubId")

JsonToSubscriptionEntry(doc) ==
    [subId          |-> TextMember(doc, "SubId"),
     comment        |-> TextMember(doc, "Comment"),
     isOwner        |-> Member(doc, "IsOwner", "bool", FALSE),
     state          |-> FromValue(SubscriptionStates, IntMember(doc, "State", 0)),
     type           |-> FromValue(SubscriptionTypes, IntMember(doc, "Type", 0)),
     createTime     |-> 1000 * IntMember(doc, "CreateTime", 0),
     lastModifyTime |-> 1000 * IntMember(doc, "LastModifyTime", 0)]

GetSubscriptionResult(doc) == JsonToSubscriptionEntry(doc)

ListSubscriptionResult(doc) ==
    LET list == ListMember(doc, "Subscriptions")
    IN  [subscriptions |-> [i \in DOMAIN list |-> JsonToSubscriptionEntry(list[i])],
         totalCount    |-> IntMember(doc, "TotalCount", 0)]

-----------------------------------------------------------------------------
(* Offsets: where a subscription stands in each shard. *)

SubscriptionOffset == [timestamp |-> -1, sequence |-> -1, batchIndex |-> 0,
                       version |-> 0, sessionId |-> 0]

SubscriptionOffsets == [timestamp : Int64, sequence : Int64, batchIndex : Int64,
                        version : Int64, sessionId : Int64]

SubscriptionOffsetToJson(offset) ==
    Doc([Timestamp  |-> Number(offset.timestamp),
         Sequence   |-> Number(offset.sequence),
         BatchIndex |-> Number(offset.batchIndex),
         Version    |-> Number(offset.version),
         SessionId  |-> Number(offset.sessionId)])

JsonToSubscriptionOffset(doc) ==
    [timestamp  |-> IntMember(doc, "Timestamp", -1),
     sequence   |-> IntMember(doc, "Sequence", -1),
     batchIndex |-> IntMember(doc, "BatchIndex", 0),
     version    |-> IntMember(doc, "Version", 0),
     sessionId  |-> IntMember(doc, "SessionId", 0)]

OffsetsToJson(offsets) ==
    [Offsets |-> Doc([s \in DOMAIN offsets |-> SubscriptionOffsetToJson(offsets[s])])]

OffsetsMember(doc) ==
    LET offsets == Member(doc, "Offsets", "object", <<>>)
    IN  [s \in DOMAIN offsets |-> JsonToSubscriptionOffset(offsets[s])]

\* Empty identifiers are left out.
ShardIds(c) == [ShardIds |-> Texts(SelectSeq(c.shardIds, LAMBDA s : s # ""))]

OpenSubscriptionOffsetSessionRequest(c) == ActionRequest(OffsetsPath(c), "open", ShardIds(c))

GetSubscriptionOffsetRequest(c) == ActionRequest(OffsetsPath(c), "get", ShardIds(c))

UpdateSubscriptionOffsetRequest(c) ==
    ActionRequest(OffsetsPath(c), "commit", OffsetsToJson(c.offsets))

ResetSubscriptionOffsetRequest(c) ==
    ActionRequest(OffsetsPath(c), "reset", OffsetsToJson(c.offsets))

OpenSubscriptionOffsetSessionResult(doc) == OffsetsMember(doc)
GetSubscriptionOffsetResult(doc) == OffsetsMember(doc)

-----------------------------------------------------------------------------
(* Consumer groups. *)

JoinGroupRequest(c) ==
    ActionRequest(GroupPath(c), "joinGroup", [SessionTimeout |-> Number(c.sessionTimeout)])

HeartbeatRequest(c) ==
    ActionRequest(GroupPath(c), "heartbeat",
                  [ConsumerId       |-> Text(c.consumerId),
                   VersionId        |-> Number(c.versionId),
                   HoldShardList    |-> Texts(c.holdShardList),
                   ReadEndShardList |-> Texts(c.readEndShardList)])

SyncGroupRequest(c) ==
    ActionRequest(GroupPath(c), "syncGroup",
                  [ConsumerId       |-> Text(c.consumerId),
                   VersionId        |-> Number(c.versionId),
                   ReleaseShardList |-> Texts(c.releaseShardList),
                   ReadEndShardList |-> Texts(c.readEndShardList)])

LeaveGroupRequest(c) ==
    ActionRequest(GroupPath(c), "leaveGroup",
                  [ConsumerId |-> Text(c.consumerId), VersionId |-> Number(c.versionId)])

JoinGroupResult(doc) ==
    [consumerId     |-> TextMember(doc, "ConsumerId"),
     versionId      |-> IntMember(doc, "VersionId", -1),
     sessionTimeout |-> IntMember(doc, "SessionTimeout", 0)]

HeartbeatResult(doc) ==
    [planVersion |-> IntMember(doc, "PlanVersion", 0),
     totalPlan   |-> TextMember(doc, "TotalPlan"),
     shardList   |-> WordsMember(doc, "ShardList")]
=============================================================================
