----------------------------- MODULE RecordModel -----------------------------
(***************************************************************************)
(* Records, the requests that write and read them and what meters them, in *)
(* the two forms in which they travel: JSON, and protobuf messages in a    *)
(* frame with a checksum (src/src/model, json_tool.cpp, protobuf_tool.cpp, *)
(* protobuf_parser.cpp).  A field of a record is NullField or <<value>>.   *)
(***************************************************************************)
EXTENDS DatahubRequest

NullField == <<>>

-----------------------------------------------------------------------------
(* A record that the caller makes, and the setters of its parts. *)

EmptyEntry(type) ==
    [type |-> type, fieldData |-> <<>>, blob |-> "", attributes |-> <<>>,
     shardId |-> "", partitionKey |-> "", hashValue |-> ""]

\* Made from a list of values, an empty one stands for no value.
RecordEntry(attributes, values) ==
    [EmptyEntry("TUPLE") EXCEPT
        !.attributes = attributes,
        !.fieldData  = [i \in DOMAIN values |->
                           IF values[i] = "" THEN NullField ELSE <<values[i]>>]]

RecordEntryOf(fieldCount) ==
    [EmptyEntry("TUPLE") EXCEPT !.fieldData = [i \in 1..fieldCount |-> NullField]]

\* A value of any field type is kept as it is printed.  A setter that does
\* not fit the record leaves it as it is (and returns FALSE).
SetField(entry, index, printed) ==
    IF entry.type = "TUPLE" /\ index \in DOMAIN entry.fieldData
    THEN [entry EXCEPT !.fieldData[index] = <<printed>>] ELSE entry

SetData(entry, data) ==
    IF entry.type = "BLOB" THEN [entry EXCEPT !.blob = data] ELSE entry

\* The one of the three ways to choose a shard that is sent.
Target(entry) ==
    IF entry.shardId # "" THEN <<"shard", entry.shardId>>
    ELSE IF entry.partitionKey # "" THEN <<"partition", entry.partitionKey>>
    ELSE IF entry.hashValue # "" THEN <<"hash", entry.hashValue>> ELSE <<"any">>

-----------------------------------------------------------------------------
(* Records in JSON. *)

EncodeBlobValue(blob) == Text(<<"base64", blob>>)
DecodeBlobValue(text) == text[2]

RecordEntryToJson(entry) ==
    LET target == Target(entry)
        names  == [shard |-> "ShardId", partition |-> "PartitionKey", hash |-> "HashValue"]
    IN  Doc([Attributes |-> Doc([a \in DOMAIN entry.attributes |-> Text(entry.attributes[a])]),
             Data |-> IF entry.type = "BLOB" THEN EncodeBlobValue(entry.blob)
                      ELSE List([i \in DOMAIN entry.fieldData |->
                               IF entry.fieldData[i] = NullField THEN Null
                               ELSE Text(entry.fieldData[i][1])])]
            ++ (IF target = <<"any">> THEN <<>> ELSE Single(names[target[1]], Text(target[2]))))

\* The data is an array of fields or the text of a blob.
JsonToRecordResult(doc) ==
    LET data  == ListMember(doc, "Data")
        attrs == Member(doc, "Attributes", "object", <<>>)
    IN  [fieldData  |-> [i \in DOMAIN data |->
                            IF data[i] = Null THEN NullField ELSE <<data[i][2]>>],
         blob       |-> IF Has(doc, "Data", "string")
                        THEN DecodeBlobValue(doc[2].Data[2]) ELSE "",
         attributes |-> [a \in DOMAIN attrs |-> attrs[a][2]],
         systemTime |-> IntMember(doc, "SystemTime", -1),
         cursor     |-> TextMember(doc, "Cursor"),
         sequence   |-> IntMember(doc, "Sequence", -1)]

JsonToErrorEntry(doc) ==
    [index        |-> IntMember(doc, "Index", -1),
     errorCode    |-> TextMember(doc, "ErrorCode"),
     errorMessage |-> TextMember(doc, "ErrorMessage"),
     errorDetail  |-> TextMember(doc, "ErrorDetail")]

-----------------------------------------------------------------------------
(* Records in protobuf messages: of a message, only the members that are   *)
(* set are there.                                                          *)

RecordEntryToMessage(entry) ==
    LET target == Target(entry)
        names  == [shard |-> "shard_id", partition |-> "partition_key", hash |-> "hash_key"]
    IN  [attributes |-> entry.attributes,
         data |-> IF entry.type = "BLOB" THEN <<<<entry.blob>>>> ELSE entry.fieldData]
        ++ (IF target = <<"any">> THEN <<>> ELSE Single(names[target[1]], target[2]))

\* The member of a message, or a default when it is not set.
Set(message, name, default) ==
    IF name \in DOMAIN message THEN message[name] ELSE default

\* A record of one field is taken for a blob too.
MessageToRecordResult(message) ==
    LET data == Set(message, "data", <<>>)
    IN  [fieldData  |-> data,
         blob       |-> IF Len(data) = 1 /\ data[1] # NullField THEN data[1][1] ELSE "",
         attributes |-> Set(message, "attributes", <<>>),
         systemTime |-> Set(message, "system_time", -1),
         cursor     |-> Set(message, "cursor", ""),
         sequence   |-> Set(message, "sequence", -1)]

MessageToErrorEntry(failed) ==
    [index        |-> Set(failed, "index", 0),
     errorCode    |-> Set(failed, "error_code", ""),
     errorMessage |-> Set(failed, "error_message", ""),
     errorDetail  |-> ""]

\* A message in its frame.  Of the checksum, what comparing it with the one
\* of the bytes that arrived gives: none was sent, it fits, or it differs.
Frame(message) == [magic |-> "DHUB", whole |-> TRUE, crc |-> "fits", message |-> message]

FormatAndCheck(frame) == frame.magic = "DHUB" /\ frame.whole

ParsePbFromArrayBuff(frame) == FormatAndCheck(frame) /\ frame.crc \in {"none", "fits"}

PbBody(message) == <<"protobuf", Frame(message)>>

-----------------------------------------------------------------------------
(* Writing records. *)

PutRecordRequest(c) ==
    [ActionRequest(ShardsPath(c), "pub",
                   [Records |-> List([i \in DOMAIN c.records |->
                                         RecordEntryToJson(c.records[i])])])
     EXCEPT !.compress = {"SEND"}]

PbHeaders(action) ==
    Single("x-datahub-request-action", action)
    ++ Single("Content-Type", "application/x-protobuf")

PutRecordsMessage(c) ==
    [records |-> [i \in DOMAIN c.records |-> RecordEntryToMessage(c.records[i])]]

PutPBRecordRequest(c) ==
    [Request(ShardsPath(c), PbBody(PutRecordsMessage(c))) EXCEPT
        !.headers = PbHeaders("pub"), !.compress = {"SEND"}]

PutRecordByShardRequest(c) ==
    [Request(ShardPath(c), PbBody(PutRecordsMessage(c))) EXCEPT
        !.headers = PbHeaders("pub"), !.compress = {"SEND"}]

PutRecordResult(doc) ==
    LET failed == ListMember(doc, "FailedRecords")
    IN  [failedRecordCount |-> IntMember(doc, "FailedRecordCount", -1),
         errorEntries      |-> [i \in DOMAIN failed |-> JsonToErrorEntry(failed[i])]]

PutPBRecordResult(message) ==
    LET failed == Set(message, "failed_records", <<>>)
    IN  IF "failed_count" \in DOMAIN message
        THEN [failedRecordCount |-> message.failed_count,
              errorEntries      |-> [i \in DOMAIN failed |-> MessageToErrorEntry(failed[i])]]
        ELSE [failedRecordCount |-> -1, errorEntries |-> <<>>]

-----------------------------------------------------------------------------
(* Reading records. *)

SubIdHeader(c) ==
    IF c.subId = "" THEN <<>> ELSE Single("x-datahub-sub-id", c.subId)

GetRecordRequest(c) ==
    [ActionRequest(ShardPath(c), "sub", [Cursor |-> Text(c.cursor), Limit |-> Number(c.limit)])
     EXCEPT !.headers = SubIdHeader(c), !.compress = {"RECV"}]

\* The filter is set when there is none: it is sent empty, and a filter
\* that is given would not be sent.
GetPBRecordRequest(c) ==
    [Request(ShardPath(c), PbBody([cursor |-> c.cursor, limit |-> c.limit]
                                  ++ Optional(c.filter = "", "filter", c.filter))) EXCEPT
        !.headers = PbHeaders("sub") ++ SubIdHeader(c), !.compress = {"RECV"}]

GetRecordResult(doc) ==
    LET list == ListMember(doc, "Records")
    IN  [nextCursor  |-> TextMember(doc, "NextCursor"),
         recordCount |-> IntMember(doc, "RecordCount", 0),
         records     |-> [i \in DOMAIN list |-> JsonToRecordResult(list[i])]]

GetPBRecordResult(message) ==
    LET list == Set(message, "records", <<>>)
    IN  [nextCursor  |-> Set(message, "next_cursor", ""),
         recordCount |-> Set(message, "record_count", 0),
         records     |-> [i \in DOMAIN list |-> MessageToRecordResult(list[i])]]

\* GetRecord of the result goes by its count, which the service sends.
RecordAt(result, index) ==
    IF index \in 0..(result.recordCount - 1) THEN <<result.records[index + 1]>> ELSE <<>>

CursorNames == [CURSOR_TYPE_OLDEST    |-> "OLDEST",
                CURSOR_TYPE_LATEST    |-> "LATEST",
                CURSOR_TYPE_TIMESTAMP |-> "SYSTEM_TIME",
                CURSOR_TYPE_SEQUENCE  |-> "SEQUENCE"]

GetCursorRequest(c) ==
    ActionRequest(ShardPath(c), "cursor",
                  [Type |-> Text(CursorNames[c.type])]
                  ++ Optional(c.type = "CURSOR_TYPE_TIMESTAMP", "SystemTime", Number(c.value))
                  ++ Optional(c.type = "CURSOR_TYPE_SEQUENCE", "Sequence", Number(c.value)))

GetCursorResult(doc) ==
    [cursor    |-> TextMember(doc, "Cursor"),
     timestamp |-> IntMember(doc, "RecordTime", 0),
     sequence  |-> IntMember(doc, "Sequence", 0)]

-----------------------------------------------------------------------------
(* Metering. *)

GetMeteringInfoRequest(c) == ActionRequest(ShardPath(c), "meter", <<>>)

\* A day that is written yyyy-mm-dd is sent as its first second: days are
\* numbers here.
ConvertToTimestamp(day) == 86400 * day

GetTopicMeteringInfoRequest(c) ==
    ActionRequest(TopicPath(c), "meter", [Timestamp |-> Number(ConvertToTimestamp(c.day))])

GetMeteringInfoResult(doc) ==
    [activeTime |-> IntMember(doc, "ActiveTime", 0), storage |-> IntMember(doc, "Storage", 0)]

JsonToMeterRecord(doc) ==
    [activeTime        |-> IntMember(doc, "ActiveTime", 0),
     storageSize       |-> IntMember(doc, "Storage", 0),
     readDataSize      |-> IntMember(doc, "ReadDataSize", 0),
     writeDataSize     |-> IntMember(doc, "WriteDataSize", 0),
     readTimes         |-> IntMember(doc, "ReadTimes", 0),
     writeTimes        |-> IntMember(doc, "WriteTimes", 0),
     connectorDataSize |-> IntMember(doc, "ConnectorDataSize", 0),
     startTime         |-> IntMember(doc, "StartTime", 0),
     endTime           |-> IntMember(doc, "EndTime", 0)]

GetTopicMeteringInfoResult(doc) ==
    LET list == ListMember(doc, "MeterData")
    IN  [i \in DOMAIN list |-> JsonToMeterRecord(list[i])]
=============================================================================
