--------------------------- MODULE MCDatahubClient ---------------------------
(***************************************************************************)
(* Small families of calls for the client: one project, one topic of each  *)
(* record type, and arguments that reach every member of every request.    *)
(***************************************************************************)
EXTENDS DatahubClient

P == [project |-> "p"]
T == P ++ [topic |-> "t"]
B == P ++ [topic |-> "b"]
Shard0(c) == c ++ [shardId |-> "0"]

Plain == [protobuf |-> FALSE, compress |-> "NONE", v4 |-> FALSE]
AllParts == {"project", "topic", "shard", "record", "connector", "subscription"}

MCConfigurations == [p \in AllParts |->
    CASE p = "record" ->
            {[protobuf |-> pb, compress |-> z, v4 |-> pb] :
                 pb \in BOOLEAN, z \in {"NONE", "LZ4", "DEFLATE"}}
      [] p = "project" -> {[Plain EXCEPT !.v4 = v] : v \in BOOLEAN}
      [] OTHER -> {Plain}]

MCAccount == [id |-> "id", key |-> "key", token |-> "token"]

-----------------------------------------------------------------------------
TheProject == ProjectPath(P) :> ([Comment |-> Text("")] ++ Times)

Column(n, t, null) == [name |-> n, type |-> t, allowNull |-> null, comment |-> "c"]
SchemaA == <<Column("a", "BIGINT", TRUE)>>
SchemaB == <<Column("a", "STRING", FALSE), Column("b", "JSON", TRUE)>>

TopicDoc(type) ==
    [ShardCount |-> Number(1), Lifecycle |-> Number(7), RecordType |-> Text(type),
     Comment |-> Text("")]
    ++ Optional(type = "TUPLE", "RecordSchema", Text(ToJsonString(SchemaA))) ++ Times

TheTopic == (TopicPath(T) :> TopicDoc("TUPLE")) ++ TheProject

ShardDocs(c, ids) ==
    [p \in {ShardsPath(c) \o <<s>> : s \in ids} |-> NewShard(p[6], "ACTIVE")]
    ++ [p \in {RecordsPath(c, s) : s \in ids} |-> <<>>]

MCDocs ==
    [project      |-> (ProjectPath([project |-> "q"]) :> ([Comment |-> Text("")] ++ Times)),
     topic        |-> TheProject,
     shard        |-> ShardDocs(T, {"0", "4"}) ++ TheTopic,
     record       |-> ShardDocs(T, {"0", "1"}) ++ ShardDocs(B, {"0"}) ++ TheTopic
                      ++ (TopicPath(B) :> TopicDoc("BLOB")),
     connector    |-> ShardDocs(T, {"0", "1"}) ++ TheTopic,
     subscription |-> ShardDocs(T, {"0"}) ++ TheTopic]

Shards(c, ids) == [p \in {ShardsPath(c) \o <<s>> : s \in ids} |-> <<>>]

MCObjects ==
    [project      |-> (ProjectPath([project |-> "q"]) :> [comment |-> ""]),
     topic        |-> <<>>,
     shard        |-> <<>>,
     record       |-> [p \in {RecordsPath(T, "0"), RecordsPath(T, "1"), RecordsPath(B, "0")} |-> <<>>],
     connector    |-> Shards(T, {"0", "1"}),
     subscription |-> <<>>]

-----------------------------------------------------------------------------
ProjectCalls ==
    [ListProject   |-> {<<>>},
     CreateProject |-> {P ++ [comment |-> m] : m \in {"first", "quoted"}},
     UpdateProject |-> {P ++ [comment |-> m] : m \in {"second", "quoted"}},
     DeleteProject |-> {P},
     GetProject    |-> {P, [project |-> "q"]}]

TopicCalls ==
    [ListTopic    |-> {P},
     CreateTopic  |-> {T ++ [shardCount |-> n, lifeCycle |-> 3, type |-> t,
                             schema |-> SchemaA, comment |-> "x"] :
                            n \in {2}, t \in {"TUPLE", "BLOB"}},
     CreateTopicWithoutSchema |->
                     {T ++ [shardCount |-> 1, lifeCycle |-> 3, type |-> t, comment |-> "x"] :
                            t \in {"TUPLE", "BLOB"}},
     DeleteTopic  |-> {T},
     UpdateTopic  |-> {T ++ [lifeCycle |-> 5, comment |-> "y"]},
     GetTopic     |-> {T},
     AppendField  |-> {T ++ [fieldName |-> "z", fieldType |-> "DOUBLE"]},
     RegisterTopicSchema |-> {T ++ [schema |-> s] : s \in {SchemaA, SchemaB}},
     GetTopicSchema      |-> {T ++ [schema |-> <<>>, versionId |-> v] : v \in {0, 1}},
     ListTopicSchema     |-> {T ++ [pageNumber |-> 1, pageSize |-> 10]},
     DeleteTopicSchema   |-> {T ++ [versionId |-> 0]}]

ShardCalls ==
    [ListShard     |-> {T},
     ActivateShard |-> {T ++ [shardIds |-> <<"", "0">>], T ++ [shardIds |-> <<"0", "4">>]},
     SplitShard    |-> {Shard0(T) ++ [splitKey |-> "77"]},
     MergeShard    |-> {Shard0(T) ++ [adjacentShardId |-> "4"]},
     WaitForShardReady    |-> {T},
     GetMeteringInfo      |-> {Shard0(T)},
     GetTopicMeteringInfo |-> {T ++ [day |-> 1]}]

OneRecord == [RecordEntry("k" :> "v", <<"1", "">>) EXCEPT !.shardId = "0"]
OtherRecord == [SetField(RecordEntryOf(2), 2, "2") EXCEPT !.shardId = "1"]
Blob == [SetData(EmptyEntry("BLOB"), "bytes") EXCEPT !.hashValue = "7F"]

RecordCalls ==
    [PutRecord |-> {T ++ [records |-> <<OneRecord, OtherRecord>>],
                    T ++ [records |-> <<[OtherRecord EXCEPT !.shardId = "", !.partitionKey = "x"]>>],
                    B ++ [records |-> <<Blob>>]},
     PutRecordByShard |-> {Shard0(T) ++ [records |-> <<OneRecord>>]},
     GetCursor   |-> {Shard0(T) ++ [type |-> t] :
                          t \in {"CURSOR_TYPE_OLDEST", "CURSOR_TYPE_LATEST"}},
     GetCursorOf |-> {Shard0(T) ++ [type |-> t, value |-> 1] :
                          t \in {"CURSOR_TYPE_TIMESTAMP", "CURSOR_TYPE_SEQUENCE"}},
     GetRecord   |-> {Shard0(T) ++ [subId |-> "", cursor |-> "0", limit |-> 2, filter |-> ""],
                      Shard0(T) ++ [subId |-> "s1", cursor |-> "1", limit |-> 1, filter |-> ""],
                      Shard0(B) ++ [subId |-> "", cursor |-> "0", limit |-> 1, filter |-> ""]}]

\* Two configurations of each kind: keys are given where they are sent.
Configs ==
    [SINK_DATAHUB |-> {[SinkDatahubConfig EXCEPT !.endpoint = "e", !.project = "p", !.topic = "t",
                                                 !.accessId = "i", !.accessKey = "k"],
                       [SinkDatahubConfig EXCEPT !.authMode = "STS"]},
     SINK_ES      |-> {[SinkEsConfig EXCEPT !.index = "x", !.endpoint = "e", !.user = "u",
                                            !.password = "w", !.idFields = <<"a">>,
                                            !.typeFields = <<"a", "b">>],
                       [SinkEsConfig EXCEPT !.proxyMode = FALSE]},
     SINK_FC      |-> {[SinkFcConfig EXCEPT !.endpoint = "e", !.service = "s", !.function = "f",
                                            !.accessId = "i", !.accessKey = "k"],
                       [SinkFcConfig EXCEPT !.authMode = "STS"]},
     SINK_OSS     |-> {[SinkOssConfig EXCEPT !.endpoint = "e", !.bucket = "b", !.prefix = "p",
                                             !.timeFormat = "f", !.timeRange = 15,
                                             !.accessId = "i", !.accessKey = "k"],
                       [SinkOssConfig EXCEPT !.authMode = "STS"]},
     SINK_OTS     |-> {[SinkOtsConfig EXCEPT !.endpoint = "e", !.instance = "n", !.table = "t",
                                             !.accessId = "i", !.accessKey = "k"],
                       [SinkOtsConfig EXCEPT !.authMode = "STS"]},
     SINK_MYSQL   |-> {[SinkMysqlConfig EXCEPT !.host = "h", !.port = 33, !.database = "d",
                                               !.table = "t", !.user = "u", !.password = "w"],
                       [SinkMysqlConfig EXCEPT !.insertMode = "OVERWRITE"]},
     SINK_ADS     |-> {[SinkMysqlConfig EXCEPT !.host = "h", !.insertMode = "OVERWRITE"]},
     SINK_ODPS    |-> {[SinkOdpsConfig EXCEPT !.endpoint = "e", !.project = "p", !.table = "t",
                                              !.tunnelEndpoint = "u", !.accessId = "i",
                                              !.accessKey = "k", !.partitionMode = "EVENT_TIME",
                                              !.timeRange = 60, !.timeZone = "UTC",
                                              !.partitionConfig = <<[key |-> "ds", value |-> "%Y"]>>,
                                              !.splitKey = ",", !.base64Encode = TRUE],
                       SinkOdpsConfig}]

K(type) == T ++ [connectorId |-> Lower[type]]
OfAllTypes == UNION {{T ++ [type |-> t, columnFields |-> <<"a">>, config |-> g] :
                          g \in Configs[t]} : t \in DOMAIN Configs}

ConnectorCalls ==
    [ListConnector   |-> {T},
     CreateConnector |-> OfAllTypes,
     CreateConnectorFrom |-> {c ++ [sinkStartTime |-> 9] :
                                  c \in {d \in OfAllTypes : d.type = "SINK_ES"}},
     GetConnector    |-> {K(t) : t \in DOMAIN Configs},
     UpdateConnector |-> {K("SINK_ES") ++ [type |-> "SINK_ES", config |-> g] :
                              g \in Configs.SINK_ES},
     DeleteConnector |-> {K(t) : t \in DOMAIN Configs},
     GetConnectorDoneTime |-> {K("SINK_ES")},
     ReloadConnector      |-> {K("SINK_ES")},
     ReloadConnectorShard |-> {Shard0(K("SINK_ES"))},
     UpdateConnectorState |-> {K("SINK_ES") ++ [state |-> "CONNECTOR_STOPPED"]},
     UpdateConnectorOffset |->
         {K("SINK_ES") ++ [offset |-> [ConnectorOffset EXCEPT !.sequence = 5]]},
     UpdateConnectorOffsetByShard |->
         {Shard0(K("SINK_ES")) ++ [offset |-> [ConnectorOffset EXCEPT !.sequence = 5]]},
     GetConnectorShardStatus        |-> {K("SINK_ES")},
     GetConnectorShardStatusByShard |-> {Shard0(K("SINK_ES"))},
     AppendConnectorField |-> {K("SINK_ES") ++ [fieldName |-> "z"]}]

S == T ++ [subId |-> "s1"]
G == T ++ [consumerGroup |-> "s1"]
Member1 == G ++ [consumerId |-> "c1", versionId |-> 1, readEndShardList |-> <<>>]
Offsets == "0" :> [SubscriptionOffset EXCEPT !.timestamp = 3, !.sequence = 2, !.version = 1,
                                             !.sessionId = 1]

SubscriptionCalls ==
    [ListSubscription   |-> {T ++ [pageIndex |-> 1, pageSize |-> 10]},
     ListSubscriptionBy |-> {T ++ [pageIndex |-> 1, pageSize |-> 10, search |-> m] :
                                 m \in {"one", "two"}},
     CreateSubscription |-> {T ++ [comment |-> "one"]},
     DeleteSubscription |-> {S},
     GetSubscription    |-> {S},
     UpdateSubscription |-> {S ++ [comment |-> "two"]},
     UpdateSubscriptionState |-> {S ++ [state |-> "OFFLINE"]},
     InitSubscriptionOffsetSession |-> {S ++ [shardIds |-> <<"0", "">>]},
     GetSubscriptionOffset    |-> {S ++ [shardIds |-> <<"0">>]},
     UpdateSubscriptionOffset |-> {S ++ [offsets |-> Offsets]},
     ResetSubscriptionOffset  |-> {S ++ [offsets |-> ("0" :> SubscriptionOffset)]},
     JoinGroup  |-> {G ++ [sessionTimeout |-> 60]},
     Heartbeat  |-> {Member1 ++ [holdShardList |-> <<"0">>]},
     SyncGroup  |-> {Member1 ++ [releaseShardList |-> <<"0">>]},
     LeaveGroup |-> {Member1}]

MCCalls == [project |-> ProjectCalls, topic |-> TopicCalls, shard |-> ShardCalls,
            record |-> RecordCalls, connector |-> ConnectorCalls,
            subscription |-> SubscriptionCalls]
=============================================================================
