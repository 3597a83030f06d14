--------------------------- MODULE ConnectorModel ---------------------------
(***************************************************************************)
(* The requests and results about connectors, which copy a topic into      *)
(* another system, and the configuration of each kind of target            *)
(* (src/src/model, datahub_connector.cpp first of all).  A configuration   *)
(* that the client makes has the values of its constructor; its setters    *)
(* replace them one by one.                                                *)
(***************************************************************************)
EXTENDS DatahubRequest, FiniteSets

AuthModes       == {"AK", "STS"}
ConnectorTypes  == {"SINK_ODPS", "SINK_DATAHUB", "SINK_OSS", "SINK_ES",
                    "SINK_ADS", "SINK_MYSQL", "SINK_FC", "SINK_OTS"}
ConnectorStates == {"CONNECTOR_CREATED", "CONNECTOR_PAUSED",
                    "CONNECTOR_STOPPED", "CONNECTOR_RUNNING"}
InsertModes     == {"IGNORE", "OVERWRITE"}
PartitionModes  == {"USER_DEFINE", "SYSTEM_TIME", "EVENT_TIME", "META_TIME"}
ConnectorShardStates ==
    {"CONTEXT_HANG", "CONTEXT_PLANNED", "CONTEXT_EXECUTING",
     "CONTEXT_PAUSED", "CONTEXT_STOPPED", "CONTEXT_FINISHED"}

\* The names that are sent in lower case.
Lower == [AK |-> "ak", STS |-> "sts",
          SINK_ODPS |-> "sink_odps", SINK_DATAHUB |-> "sink_datahub",
          SINK_OSS |-> "sink_oss", SINK_ES |-> "sink_es", SINK_ADS |-> "sink_ads",
          SINK_MYSQL |-> "sink_mysql", SINK_FC |-> "sink_fc", SINK_OTS |-> "sink_ots"]

Upper(s) == IF \E n \in DOMAIN Lower : Lower[n] = s
            THEN CHOOSE n \in DOMAIN Lower : Lower[n] = s ELSE s

\* An enumerator that is read by its name; an empty name leaves the default.
NameMember(doc, name, default) ==
    LET s == TextMember(doc, name) IN IF s = "" THEN default ELSE Upper(s)

-----------------------------------------------------------------------------
(* The account a target is written with: keys are sent in mode AK only. *)

AuthToJson(config) ==
    [AuthMode |-> Text(Lower[config.authMode])]
    ++ Optional(config.authMode = "AK", "AccessId", Text(config.accessId))
    ++ Optional(config.authMode = "AK", "AccessKey", Text(config.accessKey))

AuthFromJson(doc) ==
    [authMode  |-> NameMember(doc, "AuthMode", "AK"),
     accessId  |-> TextMember(doc, "AccessId"),
     accessKey |-> TextMember(doc, "AccessKey")]

-----------------------------------------------------------------------------
(* Another topic. *)

SinkDatahubConfig == [endpoint |-> "", project |-> "", topic |-> "",
                      authMode |-> "AK", accessId |-> "", accessKey |-> ""]

SinkDatahubConfigs == [endpoint : STRING, project : STRING, topic : STRING,
                       authMode : AuthModes, accessId : STRING, accessKey : STRING]

SinkDatahubConfigToJson(config) ==
    AuthToJson(config) ++ [Endpoint |-> Text(config.endpoint),
                           Project  |-> Text(config.project),
                           Topic    |-> Text(config.topic)]

SinkDatahubConfigFromJson(doc) ==
    AuthFromJson(doc) ++ [endpoint |-> TextMember(doc, "Endpoint"),
                          project  |-> TextMember(doc, "Project"),
                          topic    |-> TextMember(doc, "Topic")]

-----------------------------------------------------------------------------
(* ElasticSearch. *)

SinkEsConfig == [index |-> "", endpoint |-> "", user |-> "", password |-> "",
                 idFields |-> <<>>, typeFields |-> <<>>, proxyMode |-> TRUE]

SinkEsConfigs == [index : STRING, endpoint : STRING, user : STRING, password : STRING,
                  idFields : Seq(STRING), typeFields : Seq(STRING), proxyMode : BOOLEAN]

SinkEsConfigToJson(config) ==
    [Index      |-> Text(config.index),
     Endpoint   |-> Text(config.endpoint),
     User       |-> Text(config.user),
     Password   |-> Text(config.password),
     IDFields   |-> Texts(config.idFields),
     TypeFields |-> Texts(config.typeFields),
     ProxyMode  |-> Text(BoolToString(config.proxyMode))]

SinkEsConfigFromJson(doc) ==
    [index      |-> TextMember(doc, "Index"),
     endpoint   |-> TextMember(doc, "Endpoint"),
     user       |-> TextMember(doc, "User"),
     password   |-> TextMember(doc, "Password"),
     idFields   |-> WordsMember(doc, "IDFields"),
     typeFields |-> WordsMember(doc, "TypeFields"),
     proxyMode  |-> StringToBool(Member(doc, "ProxyMode", "string", "true"))]

-----------------------------------------------------------------------------
(* Function compute. *)

SinkFcConfig == [endpoint |-> "", service |-> "", function |-> "",
                 authMode |-> "AK", accessId |-> "", accessKey |-> ""]

SinkFcConfigs == [endpoint : STRING, service : STRING, function : STRING,
                  authMode : AuthModes, accessId : STRING, accessKey : STRING]

SinkFcConfigToJson(config) ==
    AuthToJson(config) ++ [Endpoint |-> Text(config.endpoint),
                           Service  |-> Text(config.service),
                           Function |-> Text(config.function)]

SinkFcConfigFromJson(doc) ==
    AuthFromJson(doc) ++ [endpoint |-> TextMember(doc, "Endpoint"),
                          service  |-> TextMember(doc, "Service"),
                          function |-> TextMember(doc, "Function")]

-----------------------------------------------------------------------------
(* Object storage.  The time range is sent as a number and read from a     *)
(* string: the service is taken to keep configurations as strings.         *)

SinkOssConfig == [endpoint |-> "", bucket |-> "", prefix |-> "", timeFormat |-> "",
                  timeRange |-> -1, authMode |-> "AK", accessId |-> "", accessKey |-> ""]

SinkOssConfigs == [endpoint : STRING, bucket : STRING, prefix : STRING,
                   timeFormat : STRING, timeRange : Int64, authMode : AuthModes,
                   accessId : STRING, accessKey : STRING]

SinkOssConfigToJson(config) ==
    AuthToJson(config) ++ [Endpoint   |-> Text(config.endpoint),
                           Bucket     |-> Text(config.bucket),
                           Prefix     |-> Text(config.prefix),
                           TimeFormat |-> Text(config.timeFormat),
                           TimeRange  |-> Number(config.timeRange)]

SinkOssConfigFromJson(doc) ==
    AuthFromJson(doc) ++
    [endpoint   |-> TextMember(doc, "Endpoint"),
     bucket     |-> TextMember(doc, "Bucket"),
     prefix     |-> TextMember(doc, "Prefix"),
     timeFormat |-> TextMember(doc, "TimeFormat"),
     timeRange  |-> ScannedMember(doc, "TimeRange", -1)]

-----------------------------------------------------------------------------
(* Table store. *)

SinkOtsConfig == [endpoint |-> "", instance |-> "", table |-> "",
                  authMode |-> "AK", accessId |-> "", accessKey |-> ""]

SinkOtsConfigs == [endpoint : STRING, instance : STRING, table : STRING,
                   authMode : AuthModes, accessId : STRING, accessKey : STRING]

SinkOtsConfigToJson(config) ==
    AuthToJson(config) ++ [Endpoint     |-> Text(config.endpoint),
                           InstanceName |-> Text(config.instance),
                           TableName    |-> Text(config.table)]

SinkOtsConfigFromJson(doc) ==
    AuthFromJson(doc) ++ [endpoint |-> TextMember(doc, "Endpoint"),
                          instance |-> TextMember(doc, "InstanceName"),
                          table    |-> TextMember(doc, "TableName")]

-----------------------------------------------------------------------------
(* MySQL, and ADS, whose configuration is the same class. *)

SinkMysqlConfig == [host |-> "", port |-> 0, database |-> "", table |-> "",
                    user |-> "", password |-> "", insertMode |-> "IGNORE"]

SinkMysqlConfigs == [host : STRING, port : Int64, database : STRING, table : STRING,
                     user : STRING, password : STRING, insertMode : InsertModes]

SinkMysqlConfigToJson(config) ==
    [Host     |-> Text(config.host),
     Port     |-> Text(Printed(config.port)),
     Database |-> Text(config.database),
     Table    |-> Text(config.table),
     User     |-> Text(config.user),
     Password |-> Text(config.password),
     Ignore   |-> Text(BoolToString(config.insertMode = "IGNORE"))]

SinkMysqlConfigFromJson(doc) ==
    [host       |-> TextMember(doc, "Host"),
     port       |-> ScannedMember(doc, "Port", 0),
     database   |-> TextMember(doc, "Database"),
     table      |-> TextMember(doc, "Table"),
     user       |-> TextMember(doc, "User"),
     password   |-> TextMember(doc, "Password"),
     insertMode |-> IF StringToBool(Member(doc, "Ignore", "string", "true"))
                    THEN "IGNORE" ELSE "OVERWRITE"]

-----------------------------------------------------------------------------
(* ODPS tables.  The partition configuration is sent as an object and read *)
(* from the text of an array of pairs; pairs without a key are dropped.    *)

SinkOdpsConfig ==
    [endpoint |-> "", project |-> "", table |-> "", tunnelEndpoint |-> "",
     accessId |-> "", accessKey |-> "", partitionMode |-> "USER_DEFINE",
     timeRange |-> 0, timeZone |-> "", partitionConfig |-> <<>>,
     splitKey |-> "", base64Encode |-> FALSE]

SinkOdpsConfigs ==
    [endpoint : STRING, project : STRING, table : STRING, tunnelEndpoint : STRING,
     accessId : STRING, accessKey : STRING, partitionMode : PartitionModes,
     timeRange : Int64, timeZone : STRING,
     partitionConfig : Seq([key : STRING, value : STRING]),
     splitKey : STRING, base64Encode : BOOLEAN]

PartitionConfigToJson(pairs) ==
    Doc([key \in {pairs[i].key : i \in DOMAIN pairs} |->
            Text(pairs[CHOOSE i \in DOMAIN pairs : pairs[i].key = key].value)])

SinkOdpsConfigToJson(config) ==
    LET timed == config.partitionMode # "USER_DEFINE" IN
    [OdpsEndpoint    |-> Text(config.endpoint),
     Project         |-> Text(config.project),
     Table           |-> Text(config.table),
     AccessId        |-> Text(config.accessId),
     AccessKey       |-> Text(config.accessKey),
     PartitionMode   |-> Text(config.partitionMode),
     PartitionConfig |-> PartitionConfigToJson(config.partitionConfig),
     Base64Encode    |-> Text(BoolToString(config.base64Encode))]
    ++ Optional(config.tunnelEndpoint # "", "TunnelEndpoint", Text(config.tunnelEndpoint))
    ++ Optional(timed, "TimeRange", Number(config.timeRange))
    ++ Optional(timed /\ config.timeZone # "", "TimeZone", Text(config.timeZone))
    ++ Optional(config.splitKey # "", "SplitKey", Text(config.splitKey))

PartitionConfigFromJson(text) ==
    LET pairs == IF text = EmptyText THEN <<>> ELSE text[1][2]
        read  == [i \in DOMAIN pairs |-> [key   |-> TextMember(pairs[i], "key"),
                                          value |-> TextMember(pairs[i], "value")]]
    IN  SelectSeq(read, LAMBDA p : p.key # "")

SinkOdpsConfigFromJson(doc) ==
    [endpoint        |-> TextMember(doc, "OdpsEndpoint"),
     project         |-> TextMember(doc, "Project"),
     table           |-> TextMember(doc, "Table"),
     tunnelEndpoint  |-> TextMember(doc, "TunnelEndpoint"),
     accessId        |-> TextMember(doc, "AccessId"),
     accessKey       |-> TextMember(doc, "AccessKey"),
     partitionMode   |-> NameMember(doc, "PartitionMode", "USER_DEFINE"),
     timeRange       |-> ScannedMember(doc, "TimeRange", 0),
     timeZone        |-> TextMember(doc, "TimeZone"),
     partitionConfig |-> PartitionConfigFromJson(
                             Member(doc, "PartitionConfig", "string", EmptyText)),
     splitKey        |-> TextMember(doc, "SplitKey"),
     base64Encode    |-> StringToBool(TextMember(doc, "Base64Encode"))]

-----------------------------------------------------------------------------
\* The configuration of a connector by its type.
SinkConfigToJson(type, config) ==
    Doc(CASE type = "SINK_ODPS"    -> SinkOdpsConfigToJson(config)
          [] type = "SINK_DATAHUB" -> SinkDatahubConfigToJson(config)
          [] type = "SINK_OSS"     -> SinkOssConfigToJson(config)
          [] type = "SINK_ES"      -> SinkEsConfigToJson(config)
          [] type \in {"SINK_ADS", "SINK_MYSQL"} -> SinkMysqlConfigToJson(config)
          [] type = "SINK_FC"      -> SinkFcConfigToJson(config)
          [] type = "SINK_OTS"     -> SinkOtsConfigToJson(config))

JsonToSinkConfig(type, doc) ==
    CASE type = "SINK_ODPS"    -> SinkOdpsConfigFromJson(doc)
      [] type = "SINK_DATAHUB" -> SinkDatahubConfigFromJson(doc)
      [] type = "SINK_OSS"     -> SinkOssConfigFromJson(doc)
      [] type = "SINK_ES"      -> SinkEsConfigFromJson(doc)
      [] type \in {"SINK_ADS", "SINK_MYSQL"} -> SinkMysqlConfigFromJson(doc)
      [] type = "SINK_FC"      -> SinkFcConfigFromJson(doc)
      [] type = "SINK_OTS"     -> SinkOtsConfigFromJson(doc)

SinkConfigs(type) ==
    CASE type = "SINK_ODPS"    -> SinkOdpsConfigs
      [] type = "SINK_DATAHUB" -> SinkDatahubConfigs
      [] type = "SINK_OSS"     -> SinkOssConfigs
      [] type = "SINK_ES"      -> SinkEsConfigs
      [] type \in {"SINK_ADS", "SINK_MYSQL"} -> SinkMysqlConfigs
      [] type = "SINK_FC"      -> SinkFcConfigs
      [] type = "SINK_OTS"     -> SinkOtsConfigs

-----------------------------------------------------------------------------
(* Requests. *)

\* The list of connectors is asked for by identifier.
ListConnectorRequest(c) ==
    [Request(ConnectorsPath(c), NoBody) EXCEPT !.query = "mode=id"]

\* A connector is created under the name of its type.
CreateConnectorRequest(c) ==
    ActionRequest(ConnectorsPath(c) \o <<Lower[c.type]>>, "Create",
                  [Type          |-> Text(Lower[c.type]),
                   SinkStartTime |-> Number(c.sinkStartTime),
                   ColumnFields  |-> Texts(c.columnFields),
                   Config        |-> SinkConfigToJson(c.type, c.config)])

ConnectorPath(c) == ConnectorsPath(c) \o <<c.connectorId>>

GetConnectorRequest(c)    == Request(ConnectorPath(c), NoBody)
DeleteConnectorRequest(c) == Request(ConnectorPath(c), NoBody)

GetConnectorDoneTimeRequest(c) ==
    [Request(ConnectorPath(c), NoBody) EXCEPT !.query = "donetime"]

UpdateConnectorRequest(c) ==
    ActionRequest(ConnectorPath(c), "updateconfig",
                  [Config |-> SinkConfigToJson(c.type, c.config)])

ReloadConnectorRequest(c) ==
    ActionRequest(ConnectorPath(c), "Reload",
                  Optional(c.shardId # "", "ShardId", Text(c.shardId)))

UpdateConnectorStateRequest(c) ==
    ActionRequest(ConnectorPath(c), "updatestate", [State |-> Text(c.state)])

UpdateConnectorOffsetRequest(c, shardId) ==
    ActionRequest(ConnectorPath(c), "updateshardcontext",
                  [CurrentTime     |-> Number(c.offset.timestamp),
                   CurrentSequence |-> Number(c.offset.sequence)]
                  ++ Optional(shardId # "", "ShardId", Text(shardId)))

ConnectorOffset == [timestamp |-> -1, sequence |-> -1]

GetConnectorShardStatusRequest(c) == ActionRequest(ConnectorPath(c), "Status", <<>>)

GetConnectorShardStatusByShardRequest(c) ==
    ActionRequest(ConnectorPath(c), "Status", [ShardId |-> Text(c.shardId)])

AppendConnectorFieldRequest(c) ==
    ActionRequest(ConnectorPath(c), "appendfield", [FieldName |-> Text(c.fieldName)])

-----------------------------------------------------------------------------
(* Results. *)

ListConnectorResult(doc) == WordsMember(doc, "Connectors")

CreateConnectorResult(doc) == TextMember(doc, "ConnectorId")

GetConnectorResult(doc) ==
    LET type  == NameMember(doc, "Type", "SINK_ODPS")
        extra == Member(doc, "ExtraInfo", "object", <<>>)
    IN  [clusterAddr    |-> TextMember(doc, "ClusterAddress"),
         connectorId    |-> TextMember(doc, "ConnectorId"),
         type           |-> type,
         state          |-> NameMember(doc, "State", "CONNECTOR_CREATED"),
         columnFields   |-> WordsMember(doc, "ColumnFields"),
         creator        |-> TextMember(doc, "Creator"),
         createTime     |-> 1000 * IntMember(doc, "CreateTime", 0),
         lastModifyTime |-> 1000 * IntMember(doc, "LastModifyTime", 0),
         config         |-> <<type, JsonToSinkConfig(type, doc[2].Config)>>,
         subId          |-> IF "SubscriptionId" \in DOMAIN extra
                            THEN extra.SubscriptionId[2] ELSE ""]

GetConnectorDoneTimeResult(doc) ==
    [doneTime |-> IntMember(doc, "DoneTime", 0), timeZone |-> TextMember(doc, "TimeZone")]

JsonToShardStatusEntry(doc) ==
    [startSequence    |-> IntMember(doc, "StartSequence", 0),
     endSequence      |-> IntMember(doc, "EndSequence", 0),
     currentSequence  |-> IntMember(doc, "CurrentSequence", 0),
     currentTimestamp |-> IntMember(doc, "CurrentTimestamp", 0),
     updateTime       |-> IntMember(doc, "UpdateTime", 0),
     state            |-> NameMember(doc, "State", "CONTEXT_HANG"),
     lastErrorMessage |-> TextMember(doc, "LastErrorMessage"),
     discardCount     |-> IntMember(doc, "DiscardCount", 0),
     doneTime         |-> IntMember(doc, "DoneTime", 0),
     workerAddress    |-> TextMember(doc, "WorkerAddress")]

GetConnectorShardStatusResult(doc) ==
    LET infos == Member(doc, "ShardStatusInfos", "object", <<>>)
    IN  [s \in DOMAIN infos |-> JsonToShardStatusEntry(infos[s])]

GetConnectorShardStatusByShardResult(doc) == JsonToShardStatusEntry(doc)
=============================================================================
