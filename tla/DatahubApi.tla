------------------------------ MODULE DatahubApi ------------------------------
(***************************************************************************)
(* What the interface of the client promises its caller, in the caller's   *)
(* terms: objects by path, each a record of typed values, what a granted   *)
(* call does to them, and what the result of a call has to say of them.    *)
(* Nothing here knows of documents, messages or requests.                  *)
(***************************************************************************)
EXTENDS TopicModel, ConnectorModel, SubscriptionModel, RecordModel, SequencesExt

Put(objects, path, object) == Single(path, object) ++ objects
Change(objects, path, fields) == Put(objects, path, fields ++ objects[path])
Cut(objects, path) ==
    [p \in {q \in DOMAIN objects : ~IsPrefix(path, q)} |-> objects[p]]

Known(objects, path) ==
    {p[Len(p)] : p \in {q \in DOMAIN objects : Len(q) = Len(path) + 1 /\ IsPrefix(path, q)}}

SchemaPath(c, version) == TopicPath(c) \o <<"schemas", Printed(version)>>
ContextsPath(c) == ConnectorPath(c) \o <<"contexts">>
RecordsPath(c, s) == ShardsPath(c) \o <<s, "records">>

Position(offset) == [timestamp |-> offset.timestamp, sequence |-> offset.sequence,
                     batchIndex |-> offset.batchIndex]

\* Records that were accepted, in the order in which they were given, behind
\* those that the shard has.
Written(objects, c, s, refused) ==
    LET goes(i) == IF "shardId" \in DOMAIN c THEN c.shardId = s
                   ELSE c.records[i].shardId = s \/ (c.records[i].shardId = "" /\ s = "0")
        mine[i \in 0..Len(c.records)] ==
            IF i = 0 THEN objects[RecordsPath(c, s)]
            ELSE IF goes(i) /\ i \notin refused THEN Append(mine[i - 1], c.records[i])
                 ELSE mine[i - 1]
    IN  mine[Len(c.records)]

-----------------------------------------------------------------------------
\* What a granted call does.  Identifiers that the service gives are those
\* that the result names.
Effect(objects, op, c, result, refused) ==
    CASE op = "CreateProject" -> Put(objects, ProjectPath(c), [comment |-> c.comment])
      [] op = "UpdateProject" -> Change(objects, ProjectPath(c), [comment |-> c.comment])
      [] op = "DeleteProject" -> Cut(objects, ProjectPath(c))
      [] op \in {"CreateTopic", "CreateTopicWithoutSchema"} ->
            Put(objects, TopicPath(c),
                [shardCount |-> c.shardCount, lifecycle |-> c.lifeCycle,
                 recordType |-> c.type, comment |-> c.comment,
                 schema |-> IF c.type = "TUPLE" THEN c.schema ELSE <<>>])
      [] op = "UpdateTopic" ->
            Change(objects, TopicPath(c), [lifecycle |-> c.lifeCycle, comment |-> c.comment])
      [] op = "DeleteTopic" -> Cut(objects, TopicPath(c))
      [] op = "AppendField" ->
            Change(objects, TopicPath(c),
                   [schema |-> Append(objects[TopicPath(c)].schema,
                                      [name |-> c.fieldName, type |-> c.fieldType,
                                       allowNull |-> TRUE, comment |-> ""])])
      [] op = "RegisterTopicSchema" ->
            Put(objects, SchemaPath(c, result), [schema |-> c.schema])
      [] op = "DeleteTopicSchema" -> Cut(objects, SchemaPath(c, c.versionId))
      [] op \in {"PutRecord", "PutRecordByShard"} ->
            [p \in DOMAIN objects |->
                IF IsPrefix(ShardsPath(c), p) /\ Last(p) = "records"
                THEN Written(objects, c, p[6], refused) ELSE objects[p]]
      [] op \in {"CreateConnector", "CreateConnectorFrom"} ->
            [p \in {ConnectorsPath(c) \o <<result, "contexts", s>> :
                        s \in Known(objects, ShardsPath(c))} |-> [currentSequence |-> 0]]
            ++ Put(objects, Append(ConnectorsPath(c), result),
                   [type |-> c.type, columnFields |-> c.columnFields,
                    config |-> <<c.type, c.config>>, state |-> "CONNECTOR_RUNNING"])
      [] op = "UpdateConnector" ->
            Change(objects, ConnectorPath(c), [config |-> <<c.type, c.config>>])
      [] op = "UpdateConnectorState" -> Change(objects, ConnectorPath(c), [state |-> c.state])
      [] op = "AppendConnectorField" ->
            Change(objects, ConnectorPath(c),
                   [columnFields |-> Append(objects[ConnectorPath(c)].columnFields, c.fieldName)])
      \* The shard of the second is not passed on: the offset goes to every shard.
      [] op \in {"UpdateConnectorOffset", "UpdateConnectorOffsetByShard"} ->
            [p \in DOMAIN objects |->
                IF IsPrefix(ContextsPath(c), p) THEN [currentSequence |-> c.offset.sequence]
                ELSE objects[p]]
      [] op = "DeleteConnector" -> Cut(objects, ConnectorPath(c))
      [] op = "CreateSubscription" ->
            Put(objects, Append(SubscriptionsPath(c), result),
                [comment |-> c.comment, state |-> "ONLINE", subId |-> result])
            ++ Single(SubscriptionsPath(c) \o <<result, "offsets">>, <<>>)
      [] op = "UpdateSubscription" ->
            Change(objects, SubscriptionPath(c), [comment |-> c.comment])
      [] op = "UpdateSubscriptionState" ->
            Change(objects, SubscriptionPath(c), [state |-> c.state])
      [] op = "DeleteSubscription" -> Cut(objects, SubscriptionPath(c))
      [] op \in {"UpdateSubscriptionOffset", "ResetSubscriptionOffset"} ->
            Change(objects, OffsetsPath(c), [s \in DOMAIN c.offsets |-> Position(c.offsets[s])])
      [] OTHER -> objects

-----------------------------------------------------------------------------
Shows(result, object) == \A f \in DOMAIN object : result[f] = object[f]

Matches(record, entry) ==
    /\ record.attributes = entry.attributes
    /\ IF entry.type = "BLOB" THEN record.blob = entry.blob
       ELSE record.fieldData = entry.fieldData

\* A shard without an offset stands before its first record.
Standing(objects, c, s) ==
    IF s \in DOMAIN objects[OffsetsPath(c)] THEN objects[OffsetsPath(c)][s]
    ELSE Position(SubscriptionOffset)

\* What a result has to say of the objects there are.
Promises(objects, op, c, result) ==
    CASE op = "ListProject" -> ToSet(result) = Known(objects, Projects)
      [] op = "GetProject" -> Shows(result, objects[ProjectPath(c)])
      [] op = "ListTopic" -> ToSet(result) = Known(objects, TopicsPath(c))
      [] op = "GetTopic" ->
            /\ Shows(result, objects[TopicPath(c)])
            /\ \A i \in DOMAIN result.schema : result.schema[i].type \in FieldTypes
      [] op = "GetTopicSchema" -> Shows(result, objects[SchemaPath(c, c.versionId)])
      [] op = "ListTopicSchema" ->
            ToSet(result.schemas) =
                {objects[TopicPath(c) \o <<"schemas", v>>].schema :
                     v \in Known(objects, TopicPath(c) \o <<"schemas">>)}
      [] op = "GetRecord" ->
            LET all == objects[RecordsPath(c, c.shardId)] IN
            \A k \in 0..(result.recordCount - 1) :
                Matches(RecordAt(result, k)[1], all[Scanned(c.cursor) + k + 1])
      [] op \in {"GetCursor", "GetCursorOf"} ->
            c.type = "CURSOR_TYPE_SEQUENCE" => result.sequence = c.value
      [] op = "ListConnector" -> ToSet(result) = Known(objects, ConnectorsPath(c))
      [] op = "GetConnector" ->
            /\ Shows(result, objects[ConnectorPath(c)])
            /\ result.type \in ConnectorTypes /\ result.state \in ConnectorStates
            /\ result.config[2] \in SinkConfigs(result.type)
      [] op = "GetConnectorShardStatus" ->
            \A s \in Known(objects, ContextsPath(c)) :
                /\ Shows(result[s], objects[Append(ContextsPath(c), s)])
                /\ result[s].state \in ConnectorShardStates
      [] op = "GetConnectorShardStatusByShard" ->
            Shows(result, objects[Append(ContextsPath(c), c.shardId)])
      [] op = "GetSubscription" -> Shows(result, objects[SubscriptionPath(c)])
      [] op \in {"ListSubscription", "ListSubscriptionBy"} ->
            {result.subscriptions[i].subId : i \in DOMAIN result.subscriptions} =
                {s \in Known(objects, SubscriptionsPath(c)) :
                    c.search \in {"", objects[Append(SubscriptionsPath(c), s)].comment}}
      [] op \in {"InitSubscriptionOffsetSession", "GetSubscriptionOffset"} ->
            \A s \in DOMAIN result :
                /\ Shows(result[s], Standing(objects, c, s))
                /\ result[s] \in SubscriptionOffsets
      [] OTHER -> TRUE
=============================================================================
