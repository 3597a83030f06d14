---------------------------- MODULE DatahubService ----------------------------
(***************************************************************************)
(* The service, as the client and its tests use it: a store of JSON        *)
(* documents by path.  It knows nothing of the client's types: it keeps    *)
(* the members of the bodies that it is sent and answers with them.  All   *)
(* of it is outside of the repository.                                     *)
(* Handle(docs, r, refused) is what becomes of the documents, and the      *)
(* answer, when request r is handled; refused are the positions of the     *)
(* records that the service does not accept, in the order in which it      *)
(* names them.                                                             *)
(***************************************************************************)
EXTENDS RecordModel, SequencesExt, FiniteSetsExt

CONSTANT Quota      \* records in a shard, connectors or schemas of a topic

Full(n) == n >= Quota

Answer(docs, doc) == [status |-> 200, docs |-> docs, doc |-> doc]

Refusal(docs, status, code) ==
    [status |-> status, docs |-> docs, doc |-> Doc([ErrorCode |-> Text(code)])]

Members(r) == IF r.body[1] = "json" THEN r.body[2][2] ELSE <<>>

ActionOf(r) ==
    IF "x-datahub-request-action" \in DOMAIN r.headers
    THEN r.headers["x-datahub-request-action"]
    ELSE IF "Action" \in DOMAIN Members(r) THEN Members(r).Action[2] ELSE ""

Arg(r, name) == Members(r)[name]
ArgWords(r, name) == ToSet(Words(Arg(r, name)[2]))

Below(docs, path) == {p \in DOMAIN docs : IsPrefix(path, p)}
Children(docs, path) ==
    {p \in Below(docs, path) : Len(p) = Len(path) + 1}
Names(docs, path) == {p[Len(p)] : p \in Children(docs, path)}

Keep(docs, path, members) == Single(path, members) ++ docs
Merge(docs, path, members) == Keep(docs, path, members ++ docs[path])
Drop(docs, path) == [p \in DOMAIN docs \ Below(docs, path) |-> docs[p]]

Listed(names) == Texts(SetToSeq(names))

-----------------------------------------------------------------------------
(* Documents with a path of their own: projects, topics, shards,           *)
(* connectors, subscriptions.                                              *)

Times == [CreateTime |-> Number(1), LastModifyTime |-> Number(2), Creator |-> Text("owner")]

Create(docs, r, members) ==
    IF r.path \in DOMAIN docs
    THEN Refusal(docs, 409, "ResourceAlreadyExist")
    ELSE Answer(Keep(docs, r.path, members ++ Times), Doc(<<>>))

Get(docs, r) ==
    IF r.query = "donetime"
    THEN Answer(docs, Doc([DoneTime |-> Number(7), TimeZone |-> Text("UTC")]))
    ELSE
    CASE Len(r.path) = 1 ->
            Answer(docs, Doc([ProjectNames |-> Listed(Names(docs, r.path))]))
      [] Len(r.path) = 3 ->
            Answer(docs, Doc([TopicNames |-> Listed(Names(docs, r.path))]))
      [] Len(r.path) = 5 /\ r.path[5] = "connectors" ->
            Answer(docs, Doc([Connectors |-> Listed(Names(docs, r.path))]))
      [] Len(r.path) = 5 /\ r.path[5] = "shards" ->
            LET shards == SetToSeq(Children(docs, r.path))
            IN  Answer(docs, Doc([Shards |->
                    List([i \in DOMAIN shards |-> Doc(docs[shards[i]])])]))
      [] OTHER -> Answer(docs, Doc(docs[r.path]))

-----------------------------------------------------------------------------
(* Topics and their schema versions. *)

RecordsOf(path) == path \o <<"records">>

NewShard(id, state) ==
    [ShardId |-> Text(id), State |-> Text(state),
     BeginHashKey |-> Text("00"), EndHashKey |-> Text("FF"), ParentShardIds |-> List(<<>>)]

\* New shards below path, with no records.
NewShards(path, ids) ==
    [p \in {Append(path, s) : s \in ids} |-> NewShard(p[6], "OPENING")]
    ++ [p \in {RecordsOf(Append(path, s)) : s \in ids} |-> <<>>]

CreateTopicServed(docs, r) ==
    LET m     == Members(r)
        ids   == IF m.ShardCount[2] = 1 THEN {"0"} ELSE {"0", "4"}
        typed == m.RecordType # Text("TUPLE") \/ m.RecordSchema # Text(EmptyText)
    IN  IF ~typed THEN Refusal(docs, 400, "InvalidParameter")
        ELSE IF r.path \in DOMAIN docs THEN Refusal(docs, 409, "TopicAlreadyExist")
        ELSE Answer(NewShards(Append(r.path, "shards"), ids) ++ Keep(docs, r.path, m ++ Times),
                    Doc(<<>>))

SchemasOf(path) == path \o <<"schemas">>

AppendFieldServed(docs, r) ==
    LET typed == "RecordSchema" \in DOMAIN docs[r.path]
        old == docs[r.path].RecordSchema[2][1][2].fields[2]
        new == Doc([name |-> Arg(r, "FieldName"), type |-> Arg(r, "FieldType"),
                    notnull |-> Flag(FALSE), comment |-> Text("")])
    IN  IF ~typed \/ \E i \in DOMAIN old : old[i][2].name = new[2].name
        THEN Refusal(docs, 400, "InvalidParameter")
        ELSE Answer(Merge(docs, r.path,
                       [RecordSchema |-> Text(TextOf(Doc([fields |-> List(Append(old, new))])))]),
                    Doc(<<>>))

RegisterSchemaServed(docs, r) ==
    LET taken   == Names(docs, SchemasOf(r.path))
        version == CHOOSE n \in 0..Cardinality(taken) : Printed(n) \notin taken
    IN  IF Full(Cardinality(taken)) THEN Refusal(docs, 400, "LimitExceeded")
        ELSE Answer(Keep(docs, Append(SchemasOf(r.path), Printed(version)),
                    [RecordSchema |-> Arg(r, "RecordSchema"), VersionId |-> Number(version)]
                    ++ Times),
               Doc([VersionId |-> Number(version)]))

GetSchemaServed(docs, r) ==
    LET path == Append(SchemasOf(r.path), Printed(Arg(r, "VersionId")[2]))
    IN  IF path \in DOMAIN docs THEN Answer(docs, Doc(docs[path]))
        ELSE Refusal(docs, 404, "ResourceNotFound")

ListSchemaServed(docs, r) ==
    LET all == SetToSeq(Children(docs, SchemasOf(r.path)))
    IN  Answer(docs, Doc([PageNumber |-> Arg(r, "PageNumber"), PageSize |-> Arg(r, "PageSize"),
                          PageCount |-> Number(1), TotalCount |-> Number(Len(all)),
                          RecordSchemaList |-> List([i \in DOMAIN all |-> Doc(docs[all[i]])])]))

DeleteSchemaServed(docs, r) ==
    Answer(Drop(docs, Append(SchemasOf(r.path), Printed(Arg(r, "VersionId")[2]))), Doc(<<>>))

-----------------------------------------------------------------------------
(* Shards: an operation on one leaves it in a state on the way, from which *)
(* the service takes it further.                                           *)

Desc(id) == Doc([ShardId |-> Text(id), BeginHashKey |-> Text("00"), EndHashKey |-> Text("FF")])

StateIs(docs, path, state) == path \in DOMAIN docs /\ docs[path].State = Text(state)

ActivateServed(docs, r) ==
    LET closed == {Append(r.path, s) : s \in ArgWords(r, "ShardIds")} IN
    IF \E p \in closed : ~StateIs(docs, p, "CLOSED")
    THEN Refusal(docs, 400, "InvalidShardOperation")
    ELSE Answer([p \in DOMAIN docs |-> IF p \in closed
                                       THEN [docs[p] EXCEPT !.State = Text("OPENING")]
                                       ELSE docs[p]], Doc(<<>>))

\* A split closes a shard and opens two, a merge closes two and opens one.
Replace(docs, r, old, new, doc) ==
    LET olds == {Append(r.path, s) : s \in old}
        news == {Append(r.path, s) : s \in new}
    IN  IF news \cap DOMAIN docs # {} \/ \E p \in olds : ~StateIs(docs, p, "ACTIVE")
        THEN Refusal(docs, 400, "InvalidShardOperation")
        ELSE Answer(NewShards(r.path, new)
                    ++ [p \in olds |-> [docs[p] EXCEPT !.State = Text("CLOSING")]]
                    ++ docs, doc)

SplitServed(docs, r) ==
    Replace(docs, r, {Arg(r, "ShardId")[2]}, {"1", "2"},
            Doc([NewShards |-> List(<<Desc("1"), Desc("2")>>)]))

MergeServed(docs, r) ==
    Replace(docs, r, {Arg(r, "ShardId")[2], Arg(r, "AdjacentShardId")[2]}, {"3"}, Desc("3"))

Settled == [OPENING |-> "ACTIVE", CLOSING |-> "CLOSED"]

\* The shards that are on the way to another state.
Moving(docs) ==
    {p \in DOMAIN docs : Len(p) = 6 /\ p[5] = "shards" /\ docs[p].State[2] \in DOMAIN Settled}

-----------------------------------------------------------------------------
(* Records: of each, what it carries, in the form of neither encoding. *)

\* A shard is given by path or by record; the first active one otherwise.
RecordShard(docs, r, record) ==
    LET named == Set(record, "shard_id", "") IN
    IF Len(r.path) = 6 THEN r.path
    ELSE Append(r.path, IF named # "" THEN named ELSE "0")

RecordsSent(r) ==
    IF r.body[1] = "protobuf" THEN r.body[2].message.records
    ELSE LET sent == Arg(r, "Records")[2] IN
         [i \in DOMAIN sent |->
             [attributes |-> sent[i][2].Attributes[2],
              data |-> sent[i][2].Data]
             ++ Optional("ShardId" \in DOMAIN sent[i][2], "shard_id",
                         TextMember(sent[i], "ShardId"))]

\* The two encodings of the same record are kept alike.
Canonical(r, record) ==
    IF r.body[1] = "protobuf" THEN [attributes |-> record.attributes, data |-> record.data]
    ELSE [attributes |-> [a \in DOMAIN record.attributes |-> record.attributes[a][2]],
          data |-> IF record.data[1] = "string" THEN <<<<record.data[2][2]>>>>
                   ELSE [i \in DOMAIN record.data[2] |->
                            IF record.data[2][i] = Null THEN NullField
                            ELSE <<record.data[2][i][2]>>]]

PubServed(docs, r, refused) ==
    LET sent == RecordsSent(r)
        kept == DOMAIN sent \ ToSet(refused)
        into(p) == LET mine == {i \in kept : RecordShard(docs, r, sent[i]) = p}
                   IN  [k \in 1..Cardinality(mine) |->
                           Canonical(r, sent[SetToSortSeq(mine, <)[k]])]
        stored == [p \in DOMAIN docs |->
                      IF p[Len(p)] = "records" THEN docs[p] \o into(Front(p)) ELSE docs[p]]
        over   == \E p \in DOMAIN docs :
                      p[Len(p)] = "records" /\ Len(docs[p]) + Len(into(Front(p))) > Quota
    IN  IF over THEN Refusal(docs, 400, "LimitExceeded")
        ELSE Answer(stored,
          IF r.body[1] = "protobuf"
          THEN [failed_count |-> Len(refused),
                failed_records |-> [k \in DOMAIN refused |->
                    [index |-> refused[k] - 1, error_code |-> "InvalidShardOperation"]]]
          ELSE Doc([FailedRecordCount |-> Number(Len(refused)),
                    FailedRecords |-> List([k \in DOMAIN refused |->
                        Doc([Index |-> Number(refused[k] - 1),
                             ErrorCode |-> Text("InvalidShardOperation")])])]))

\* A cursor is the printed sequence of a record.
SubServed(docs, r) ==
    LET pb     == r.body[1] = "protobuf"
        cursor == IF pb THEN r.body[2].message.cursor ELSE Arg(r, "Cursor")[2]
        limit  == IF pb THEN r.body[2].message.limit ELSE Arg(r, "Limit")[2]
        all    == docs[RecordsOf(r.path)]
        from   == Scanned(cursor)
        n      == Min({limit, Len(all) - from})
        blob   == docs[SubSeq(r.path, 1, 4)].RecordType = Text("BLOB")
        asJson(x, seq) == Doc([Attributes |-> Doc([a \in DOMAIN x.attributes |-> Text(x.attributes[a])]),
                          Data |-> IF blob THEN EncodeBlobValue(x.data[1][1])
                                   ELSE List([i \in DOMAIN x.data |->
                                          IF x.data[i] = NullField THEN Null ELSE Text(x.data[i][1])]),
                          Sequence |-> Number(seq), SystemTime |-> Number(seq),
                          Cursor |-> Text(Printed(seq))])
        asMessage(x, seq) == x ++ [sequence |-> seq, system_time |-> seq, cursor |-> Printed(seq)]
    IN  IF from > Len(all) THEN Refusal(docs, 400, "InvalidCursor")
        ELSE Answer(docs,
               IF pb THEN [next_cursor |-> Printed(from + n), record_count |-> n,
                           records |-> [k \in 1..n |-> asMessage(all[from + k], from + k - 1)]]
               ELSE Doc([NextCursor |-> Text(Printed(from + n)), RecordCount |-> Number(n),
                         Records |-> List([k \in 1..n |-> asJson(all[from + k], from + k - 1)])]))

CursorServed(docs, r) ==
    LET end == Len(docs[RecordsOf(r.path)])
        at  == CASE Arg(r, "Type") = Text("OLDEST") -> 0
                 [] Arg(r, "Type") = Text("LATEST") -> Max({end - 1, 0})
                 [] Arg(r, "Type") = Text("SYSTEM_TIME") -> Arg(r, "SystemTime")[2]
                 [] Arg(r, "Type") = Text("SEQUENCE") -> Arg(r, "Sequence")[2]
    IN  IF at > end THEN Refusal(docs, 400, "SeekOutOfRange")
        ELSE Answer(docs, Doc([Cursor |-> Text(Printed(at)), Sequence |-> Number(at),
                               RecordTime |-> Number(at)]))

MeterServed(docs, r) ==
    Answer(docs,
       IF Len(r.path) = 6 THEN Doc([ActiveTime |-> Number(3), Storage |-> Number(4)])
       ELSE Doc([MeterData |-> List(<<Doc([ActiveTime |-> Number(3), Storage |-> Number(4),
                                           StartTime |-> Arg(r, "Timestamp")])>>)]))

-----------------------------------------------------------------------------
(* Connectors: the configuration is kept as strings; a partition           *)
(* configuration becomes the text of an array of pairs.                    *)

Stringy(value) ==
    CASE value[1] = "number" -> Text(Printed(value[2]))
      [] value[1] = "object" ->
            LET keys == SetToSeq(DOMAIN value[2])
            IN  Text(TextOf(List([i \in DOMAIN keys |->
                    Doc([key |-> Text(keys[i]), value |-> value[2][keys[i]]])])))
      [] OTHER -> value

StoredConfig(config) == Doc([m \in DOMAIN config[2] |-> Stringy(config[2][m])])

ContextsOf(path) == path \o <<"contexts">>

CreateConnectorServed(docs, r) ==
    LET topic  == SubSeq(r.path, 1, 4)
        shards == Names(docs, Append(topic, "shards"))
        new    == [p \in {Append(ContextsOf(r.path), s) : s \in shards} |->
                      [CurrentSequence |-> Number(0), State |-> Text("CONTEXT_PLANNED")]]
    IN  IF r.path \in DOMAIN docs
        THEN Refusal(docs, 409, "ConnectorAlreadyExist")
        ELSE IF Full(Cardinality(Names(docs, Front(r.path))))
        THEN Refusal(docs, 400, "LimitExceeded")
        ELSE Answer(new ++ Keep(docs, r.path,
                       [ConnectorId  |-> Text(r.path[6]),
                        Type         |-> Arg(r, "Type"),
                        State        |-> Text("CONNECTOR_RUNNING"),
                        ColumnFields |-> Arg(r, "ColumnFields"),
                        Config       |-> StoredConfig(Arg(r, "Config"))] ++ Times),
                    Doc([ConnectorId |-> Text(r.path[6])]))

UpdateConfigServed(docs, r) ==
    Answer(Merge(docs, r.path, [Config |-> StoredConfig(Arg(r, "Config"))]), Doc(<<>>))

UpdateStateServed(docs, r) ==
    Answer(Merge(docs, r.path, [State |-> Arg(r, "State")]), Doc(<<>>))

AppendColumnServed(docs, r) ==
    IF Contains(docs[r.path].ColumnFields[2], Arg(r, "FieldName"))
    THEN Refusal(docs, 400, "InvalidParameter")
    ELSE Answer(Merge(docs, r.path,
                 [ColumnFields |-> List(Append(docs[r.path].ColumnFields[2], Arg(r, "FieldName")))]),
           Doc(<<>>))

\* Of all shards, when none is named.
UpdateContextServed(docs, r) ==
    LET named == IF "ShardId" \in DOMAIN Members(r)
                 THEN {Append(ContextsOf(r.path), Arg(r, "ShardId")[2])}
                 ELSE Children(docs, ContextsOf(r.path))
    IN  Answer([p \in DOMAIN docs |->
                   IF p \in named
                   THEN [docs[p] EXCEPT !.CurrentSequence = Arg(r, "CurrentSequence")]
                   ELSE docs[p]], Doc(<<>>))

StatusServed(docs, r) ==
    IF "ShardId" \in DOMAIN Members(r)
    THEN Answer(docs, Doc(docs[Append(ContextsOf(r.path), Arg(r, "ShardId")[2])]))
    ELSE Answer(docs, Doc([ShardStatusInfos |->
             Doc([s \in Names(docs, ContextsOf(r.path)) |->
                     Doc(docs[Append(ContextsOf(r.path), s)])])]))

-----------------------------------------------------------------------------
(* Subscriptions, offsets and consumer groups. *)

CreateSubscriptionServed(docs, r) ==
    LET id   == IF Names(docs, r.path) = {} THEN "s1" ELSE "s2"
        path == Append(r.path, id)
    IN  IF path \in DOMAIN docs THEN Refusal(docs, 500, "LimitExceeded")
        ELSE Answer(Single(Append(path, "offsets"), <<>>) ++ Single(Append(path, "consumers"), <<>>)
                    ++ Keep(docs, path,
                              [SubId |-> Text(id), Comment |-> Arg(r, "Comment"),
                               State |-> Number(1), Type |-> Number(0), IsOwner |-> Flag(TRUE)]
                              ++ Times),
                    Doc([SubId |-> Text(id)]))

ListSubscriptionServed(docs, r) ==
    LET all == SetToSeq({p \in Children(docs, r.path) :
                            "Search" \in DOMAIN Members(r) => docs[p].Comment = Arg(r, "Search")})
    IN  Answer(docs, Doc([Subscriptions |-> List([i \in DOMAIN all |-> Doc(docs[all[i]])]),
                          TotalCount |-> Number(Len(all))]))

NoOffset == [Timestamp |-> Number(-1), Sequence |-> Number(-1), BatchIndex |-> Number(0)]

Offset(offsets, s) == IF s \in DOMAIN offsets THEN offsets[s][2] ELSE NoOffset

OpenServed(docs, r) ==
    LET old == docs[r.path]
        new == [s \in ArgWords(r, "ShardIds") |->
                   Doc([SessionId |-> Number(1), Version |-> Number(1)] ++ Offset(old, s))]
    IN  Answer(Keep(docs, r.path, new ++ old), Doc([Offsets |-> Doc(new)]))

GetOffsetServed(docs, r) ==
    Answer(docs, Doc([Offsets |-> Doc([s \in ArgWords(r, "ShardIds") \cap DOMAIN docs[r.path] |->
                                          docs[r.path][s]])]))

CommitServed(docs, r) ==
    Answer(Keep(docs, r.path, Arg(r, "Offsets")[2] ++ docs[r.path]), Doc(<<>>))

\* A group is the consumers that have joined; its plan follows them.
GroupServed(docs, r) ==
    LET path  == Append(r.path, "consumers")
        group == docs[path]
        id    == IF "ConsumerId" \in DOMAIN Members(r) THEN Arg(r, "ConsumerId")[2] ELSE "c1"
        plan  == Doc([PlanVersion |-> Number(1), TotalPlan |-> Text("plan"),
                      ShardList |-> Texts(<<"0">>)])
    IN  IF ActionOf(r) = "joinGroup"
        THEN Answer(Keep(docs, path, Single(id, Arg(r, "SessionTimeout")) ++ group),
                    Doc([ConsumerId |-> Text(id), VersionId |-> Number(1),
                         SessionTimeout |-> Arg(r, "SessionTimeout")]))
        ELSE IF id \notin DOMAIN group THEN Refusal(docs, 404, "NoSuchConsumer")
        ELSE CASE ActionOf(r) = "heartbeat" -> Answer(docs, plan)
               [] ActionOf(r) = "syncGroup" -> Answer(docs, Doc(<<>>))
               [] OTHER ->
                    Answer(Keep(docs, path, [m \in DOMAIN group \ {id} |-> group[m]]),
                           Doc(<<>>))

-----------------------------------------------------------------------------
\* Creation needs the parent, everything else but a listing the thing itself.
Subject(r) ==
    IF r.method = "POST" /\ ActionOf(r) \in {"", "Create"} /\ Len(r.path) # 5
    THEN Front(r.path) ELSE r.path

Missing(docs, path) ==
    CASE Len(path) \in {0, 1} -> FALSE
      [] Len(path) \in {3, 5} -> Front(path) \notin DOMAIN docs
      [] OTHER -> path \notin DOMAIN docs

\* What a request that names no action does.
Stored(docs, r) ==
    CASE r.method = "PUT" -> Answer(Merge(docs, r.path, Members(r)), Doc(<<>>))
      [] r.method = "POST" /\ Len(r.path) = 2 -> Create(docs, r, Members(r))
      [] OTHER -> CreateTopicServed(docs, r)

\* What the action that a request names does.
Performed(docs, r, refused) ==
    LET a == ActionOf(r) IN
    CASE a = "AppendField" -> AppendFieldServed(docs, r)
      [] a = "RegisterSchema" -> RegisterSchemaServed(docs, r)
      [] a = "GetSchema" -> GetSchemaServed(docs, r)
      [] a = "ListSchema" -> ListSchemaServed(docs, r)
      [] a = "DeleteSchema" -> DeleteSchemaServed(docs, r)
      [] a = "activate" -> ActivateServed(docs, r)
      [] a = "split" -> SplitServed(docs, r)
      [] a = "merge" -> MergeServed(docs, r)
      [] a = "pub" -> PubServed(docs, r, refused)
      [] a = "sub" -> SubServed(docs, r)
      [] a = "cursor" -> CursorServed(docs, r)
      [] a = "meter" -> MeterServed(docs, r)
      [] a = "updateconfig" -> UpdateConfigServed(docs, r)
      [] a = "updatestate" -> UpdateStateServed(docs, r)
      [] a = "appendfield" -> AppendColumnServed(docs, r)
      [] a = "updateshardcontext" -> UpdateContextServed(docs, r)
      [] a = "Status" -> StatusServed(docs, r)
      [] a = "Reload" -> Answer(docs, Doc(<<>>))
      [] a = "Create" -> IF r.path[5] = "connectors" THEN CreateConnectorServed(docs, r)
                         ELSE CreateSubscriptionServed(docs, r)
      [] a = "list" -> ListSubscriptionServed(docs, r)
      [] a = "open" -> OpenServed(docs, r)
      [] a = "get" -> GetOffsetServed(docs, r)
      [] a \in {"commit", "reset"} -> CommitServed(docs, r)
      [] a \in {"joinGroup", "heartbeat", "syncGroup", "leaveGroup"} -> GroupServed(docs, r)
      [] OTHER -> Refusal(docs, 400, "InvalidParameter")

Handle(docs, r, refused) ==
    IF r.body = <<"json", Malformed>> THEN Refusal(docs, 400, "InvalidParameter")
    ELSE IF Missing(docs, Subject(r)) THEN Refusal(docs, 404, "ResourceNotFound")
    ELSE CASE r.method = "GET" -> Get(docs, r)
           [] r.method = "DELETE" -> Answer(Drop(docs, r.path), Doc(<<>>))
           [] OTHER -> IF ActionOf(r) = "" THEN Stored(docs, r)
                       ELSE Performed(docs, r, refused)
=============================================================================
