----------------------------- MODULE TopicModel -----------------------------
(***************************************************************************)
(* The requests and results about projects, topics, record schemas and     *)
(* shards (src/src/model).  A request is built from a call: a record with  *)
(* the arguments of the client's method.  A result is what the client      *)
(* keeps of the document of an answer.                                     *)
(***************************************************************************)
EXTENDS DatahubRequest

CONSTANT Unquotable     \* comments that hold a quote or a backslash

-----------------------------------------------------------------------------
(* Projects. *)

\* The body is put together by concatenation, without escaping the comment.
Concatenated(comment) ==
    <<"json", IF comment \in Unquotable THEN Malformed
                                        ELSE Doc([Comment |-> Text(comment)])>>

ListProjectRequest(c)   == Request(Projects, NoBody)
CreateProjectRequest(c) == Request(ProjectPath(c), Concatenated(c.comment))
DeleteProjectRequest(c) == Request(ProjectPath(c), NoBody)
GetProjectRequest(c)    == Request(ProjectPath(c), NoBody)
UpdateProjectRequest(c) == Request(ProjectPath(c), Concatenated(c.comment))

ListProjectResult(doc) == WordsMember(doc, "ProjectNames")

\* Times arrive in seconds and are kept in milliseconds.
Millis(doc, name) == 1000 * IntMember(doc, name, 0)

GetProjectResult(c, doc) ==
    [project        |-> c.project,
     comment        |-> TextMember(doc, "Comment"),
     creator        |-> TextMember(doc, "Creator"),
     createTime     |-> Millis(doc, "CreateTime"),
     lastModifyTime |-> Millis(doc, "LastModifyTime")]

-----------------------------------------------------------------------------
(* Record schemas: sequences of fields, no two with the same name. *)

FieldTypes == {"BIGINT", "DOUBLE", "BOOLEAN", "TIMESTAMP", "STRING", "DECIMAL",
               "INTEGER", "FLOAT", "TINYINT", "SMALLINT", "JSON"}

\* A field that has the name of an earlier one is not added.
AddField(schema, field) ==
    IF \E i \in DOMAIN schema : schema[i].name = field.name
    THEN schema ELSE Append(schema, field)

FieldToJson(field) ==
    Doc([type    |-> Text(field.type),
         name    |-> Text(field.name),
         notnull |-> Flag(~field.allowNull),
         comment |-> Text(field.comment)])

ToJsonString(schema) ==
    IF schema = <<>> THEN EmptyText
    ELSE TextOf(Doc([fields |->
             List([i \in DOMAIN schema |-> FieldToJson(schema[i])])]))

\* Mutant: what forbids null values is read as what allows them.
FieldFromJsonNull(doc) ==
    [name      |-> TextMember(doc, "name"),
     type      |-> TextMember(doc, "type"),
     allowNull |-> Member(doc, "notnull", "bool", FALSE),
     comment   |-> TextMember(doc, "comment")]

FieldFromJson(doc) ==
    [name      |-> TextMember(doc, "name"),
     type      |-> TextMember(doc, "type"),
     allowNull |-> ~Member(doc, "notnull", "bool", FALSE),
     comment   |-> TextMember(doc, "comment")]

\* The fields of the text, in order, those without name or type left out.
FromJsonString(text) ==
    LET fields == IF text = EmptyText THEN <<>> ELSE ListMember(text[1], "fields")
        kept[i \in 0..Len(fields)] ==
            IF i = 0 THEN <<>>
            ELSE IF Has(fields[i], "name", "string") /\ Has(fields[i], "type", "string")
                 THEN AddField(kept[i - 1], FieldFromJson(fields[i]))
                 ELSE kept[i - 1]
    IN  kept[Len(fields)]

SchemaMember(doc) == FromJsonString(Member(doc, "RecordSchema", "string", EmptyText))

-----------------------------------------------------------------------------
(* Topics. *)

ListTopicRequest(c) == Request(TopicsPath(c), NoBody)

CreateTopicRequest(c) ==
    Request(TopicPath(c),
            Json([ShardCount |-> Number(c.shardCount),
                  Lifecycle  |-> Number(c.lifeCycle),
                  RecordType |-> Text(c.type),
                  Comment    |-> Text(c.comment)]
                 ++ Optional(c.type = "TUPLE", "RecordSchema",
                             Text(ToJsonString(c.schema)))))

DeleteTopicRequest(c) == Request(TopicPath(c), NoBody)
GetTopicRequest(c)    == Request(TopicPath(c), NoBody)

UpdateTopicRequest(c) ==
    Request(TopicPath(c), Json([Lifecycle |-> Number(c.lifeCycle),
                                Comment   |-> Text(c.comment)]))

AppendFieldRequest(c) ==
    ActionRequest(TopicPath(c), "AppendField",
                  [FieldName |-> Text(c.fieldName), FieldType |-> Text(c.fieldType)])

ListTopicResult(doc) == WordsMember(doc, "TopicNames")

\* The schema is read for a TUPLE topic only.
GetTopicResult(doc) ==
    [shardCount     |-> IntMember(doc, "ShardCount", 0),
     lifecycle      |-> IntMember(doc, "Lifecycle", 0),
     recordType     |-> TextMember(doc, "RecordType"),
     createTime     |-> Millis(doc, "CreateTime"),
     lastModifyTime |-> Millis(doc, "LastModifyTime"),
     comment        |-> TextMember(doc, "Comment"),
     schema         |-> IF TextMember(doc, "RecordType") = "TUPLE"
                        THEN SchemaMember(doc) ELSE <<>>]

-----------------------------------------------------------------------------
(* The schema versions of a topic. *)

RegisterTopicSchemaRequest(c) ==
    ActionRequest(TopicPath(c), "RegisterSchema",
                  [RecordSchema |-> Text(ToJsonString(c.schema))])

GetTopicSchemaRequest(c) ==
    ActionRequest(TopicPath(c), "GetSchema",
                  [RecordSchema |-> Text(ToJsonString(c.schema)),
                   VersionId    |-> Number(c.versionId)])

ListTopicSchemaRequest(c) ==
    ActionRequest(TopicPath(c), "ListSchema",
                  [PageNumber |-> Number(c.pageNumber), PageSize |-> Number(c.pageSize)])

DeleteTopicSchemaRequest(c) ==
    ActionRequest(TopicPath(c), "DeleteSchema", [VersionId |-> Number(c.versionId)])

RegisterTopicSchemaResult(doc) == IntMember(doc, "VersionId", -1)

GetTopicSchemaResult(doc) ==
    [versionId  |-> IntMember(doc, "VersionId", -1),
     createTime |-> IntMember(doc, "CreateTime", 0),
     creator    |-> TextMember(doc, "Creator"),
     schema     |-> SchemaMember(doc)]

ListTopicSchemaResult(doc) ==
    LET list == ListMember(doc, "RecordSchemaList")
    IN  [pageNumber |-> IntMember(doc, "PageNumber", 0),
         pageSize   |-> IntMember(doc, "PageSize", 0),
         pageCount  |-> IntMember(doc, "PageCount", 0),
         totalCount |-> IntMember(doc, "TotalCount", 0),
         schemas    |-> [i \in DOMAIN list |-> SchemaMember(list[i])]]

-----------------------------------------------------------------------------
(* Shards. *)

ListShardRequest(c) == Request(ShardsPath(c), NoBody)

\* Empty identifiers are left out.
ActivateShardRequest(c) ==
    ActionRequest(ShardsPath(c), "activate",
                  [ShardIds |-> Texts(SelectSeq(c.shardIds, LAMBDA s : s # ""))])

SplitShardRequest(c) ==
    ActionRequest(ShardsPath(c), "split",
                  [ShardId |-> Text(c.shardId), SplitKey |-> Text(c.splitKey)])

MergeShardRequest(c) ==
    ActionRequest(ShardsPath(c), "merge",
                  [ShardId         |-> Text(c.shardId),
                   AdjacentShardId |-> Text(c.adjacentShardId)])

ShardStates == {"OPENING", "ACTIVE", "CLOSED", "CLOSING"}

\* A state the client does not know is taken for OPENING.
GetShardStateForName(name) == IF name \in ShardStates THEN name ELSE "OPENING"

JsonToShardDesc(doc) ==
    [shardId      |-> TextMember(doc, "ShardId"),
     beginHashKey |-> TextMember(doc, "BeginHashKey"),
     endHashKey   |-> TextMember(doc, "EndHashKey")]

JsonToShardEntry(doc) ==
    JsonToShardDesc(doc) ++
    [state          |-> GetShardStateForName(TextMember(doc, "State")),
     closedTime     |-> IntMember(doc, "ClosedTime", 0),
     parentShardIds |-> WordsMember(doc, "ParentShardIds"),
     leftShardId    |-> TextMember(doc, "LeftShardId"),
     rightShardId   |-> TextMember(doc, "RightShardId")]

ListShardResult(doc) ==
    LET shards == ListMember(doc, "Shards")
    IN  [i \in DOMAIN shards |-> JsonToShardEntry(shards[i])]

SplitShardResult(doc) ==
    LET shards == ListMember(doc, "NewShards")
    IN  [i \in DOMAIN shards |-> JsonToShardDesc(shards[i])]

MergeShardResult(doc) == JsonToShardDesc(doc)
=============================================================================
