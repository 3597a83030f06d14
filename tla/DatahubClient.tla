---------------------------- MODULE DatahubClient ----------------------------
(***************************************************************************)
(* The client: one action per method of its interface.  A method builds a  *)
(* request from its arguments, has it signed and sent over a handle of the *)
(* pool, and parses the response (src/src/datahub_client_json_impl.cpp,    *)
(* datahub_client_pb_impl.cpp).  It does not send a request again: when    *)
(* the answer is lost, what the service did remains, and the caller gets   *)
(* an error.                                                               *)
(*                                                                         *)
(* One call is in progress at a time; the handle is the one on top of the  *)
(* stack of the pool.  Each behaviour exercises one part of the interface. *)
(***************************************************************************)
EXTENDS DatahubService, DatahubApi

CONSTANTS Parts,          \* families of operations
          Calls,          \* Calls[part][op]: the arguments to call op with
          Docs,           \* Docs[part]: the documents of the service at first
          Objects,        \* Objects[part]: what they stand for
          Configurations, \* Configurations[part]: [protobuf, compress, v4]
          Account         \* [id, key, token] of the caller

ASSUME DocsAssumption == \A p \in Parts : IsFiniteSet(DOMAIN Docs[p])

\* A put is given a sequence of records.
ASSUME RecordsAssumption ==
    \A p \in Parts : "PutRecord" \in DOMAIN Calls[p] =>
        \A c \in Calls[p]["PutRecord"] :
            /\ "records" \in DOMAIN c
            /\ Len(c.records) \in Nat /\ DOMAIN c.records = 1 .. Len(c.records)

\* The status of a gateway's answer is printed in digits.
ASSUME StatusAssumption == Printed(502) # "Unauthorized"

VARIABLES
    part, config,
    call,       \* <<op, arguments>> of the current or last call, or <<>>
    handle,     \* the options that the curl handle carries
    wire,       \* where the exchange stands
    final,      \* WaitForShardReady: the time is up, the last look decides
    outcome,    \* of the last call: <<"ok", result>> or <<"error", code>>
    docs,       \* the documents of the service
    objects,    \* the objects the granted calls have made
    seen        \* when the service answered: granted, objects, refused

vars == <<part, config, call, handle, wire, final, outcome, docs, objects, seen>>

service == <<docs, objects, seen>>

Idle == <<"idle">>
Failed == <<"failed">>
LocalError == <<"error", "LocalErrorCode">>
Returns(result) == <<"ok", result>>
Stopped == <<"stopped">>    \* by an assertion; the next call is of another run
HandleDefaults == [method |-> "", custom |-> ""]
NotSeen == [granted |-> FALSE, objects |-> <<>>, refused |-> <<>>]

Init ==
    /\ part \in Parts
    /\ config \in Configurations[part]
    /\ call = <<>>
    /\ handle = HandleDefaults
    /\ wire = Idle
    /\ final = FALSE
    /\ outcome = <<>>
    /\ docs = Docs[part]
    /\ objects = Objects[part]
    /\ seen = NotSeen

-----------------------------------------------------------------------------
(* Requests. *)

AddCommonHeaders ==
    Single("Content-Type", "application/json") ++ Single("x-datahub-client-version", "1.1")

\* Headers of the request's own replace the common ones.
AddHeadersToRequest(request) == request.headers ++ AddCommonHeaders

Encodings == {"LZ4", "ZLIB", "DEFLATE"}
GetCompressor(method) == method \in Encodings

\* Bodies that may be sent compressed are, in an encoding that the headers
\* name; an encoding for the answer is offered on requests that allow it.
AddContentBodyToRequest(request) ==
    LET send == "SEND" \in request.compress /\ request.body # NoBody
                /\ GetCompressor(config.compress)
        recv == "RECV" \in request.compress /\ GetCompressor(config.compress)
    IN  [body    |-> IF send THEN <<"packed", config.compress, request.body>>
                     ELSE request.body,
         headers |-> Optional(send, "x-datahub-content-raw-size", "size")
                     ++ Optional(send, "Content-Encoding", config.compress)
                     ++ Optional(recv, "Accept-Encoding", config.compress)]

BuildHttpRequest(request, method) ==
    LET content == AddContentBodyToRequest(request)
    IN  [method  |-> method, path |-> request.path, query |-> request.query,
         headers |-> content.headers ++ AddHeadersToRequest(request),
         body    |-> content.body]

\* The headers that are signed begin with x-datahub-.
SignedHeaders == {"x-datahub-client-version", "x-datahub-security-token",
                  "x-datahub-content-raw-size", "x-datahub-request-action",
                  "x-datahub-sub-id"}

BuildHeaderString(headers) ==
    [h \in SignedHeaders \cap DOMAIN headers |-> headers[h]]

\* Method, type, signed headers and path; not the body.
BuildCanonicalString(http) ==
    <<http.method, http.headers["Content-Type"],
      BuildHeaderString(http.headers), http.path, http.query>>

Hmac(key, text) == <<"hmac", key, text>>

SigningKey(v4) == IF v4 THEN Hmac(Account.key, "aliyun_v4_request") ELSE Account.key

Signature(http, v4) == Hmac(SigningKey(v4), BuildCanonicalString(http))

\* The token is part of what is signed.
SignRequest(http, v4) ==
    LET full == [http EXCEPT !.headers =
                    Optional(Account.token # "", "x-datahub-security-token", Account.token) ++ @]
    IN  full ++ [signature |-> Signature(full, v4)]

-----------------------------------------------------------------------------
(* The exchange over a curl handle. *)

\* Only DELETE is sent as a custom method, which stays on the handle.
SetOptCodeForHttpMethod(options, method) ==
    IF method = "DELETE" THEN [options EXCEPT !.custom = "DELETE"]
    ELSE [options EXCEPT !.method = method]

\* What curl sends for these options.
MethodOf(options) == IF options.custom # "" THEN options.custom ELSE options.method

\* Mutant: the handle goes back to the pool without curl_easy_reset.
ReleaseUnreset(options) == options

ReleaseCurlHandle(options) == HandleDefaults

AttemptOneRequest(op, c, method, request) ==
    LET http == SignRequest(BuildHttpRequest(request, method), config.v4) IN
    /\ wire = Idle
    /\ call' = <<op, c>>
    /\ handle' = SetOptCodeForHttpMethod(handle, method)
    /\ wire' = <<"request", [http EXCEPT !.method = MethodOf(handle')]>>
    /\ outcome' = <<>>
    /\ seen' = NotSeen
    /\ UNCHANGED <<part, config, final, docs, objects>>

-----------------------------------------------------------------------------
(* Responses. *)

\* LZ4 and ZLIB need the size of the body, DEFLATE does without.
Decompress(response) ==
    IF ~GetCompressor(response.encoding) THEN response.body
    ELSE IF response.encoding = "DEFLATE" \/ response.rawSize THEN response.body[3]
    ELSE <<"undecodable">>

MIN_HTTP_ERROR_CODE == 400
IsResponseOK(response) == response.status < MIN_HTTP_ERROR_CODE

\* An error that does not come from the service itself has its status for a
\* code.
ErrorParser(response, body) ==
    IF response.type # "application/json" THEN <<"error", Printed(response.status)>>
    ELSE IF body[2] = Malformed THEN <<"error", "Parse response failed">>
    ELSE <<"error", TextMember(body[2], "ErrorCode")>>

\* What the payload of a good response gives is the outcome Deserialize(body).
ParseResponse(Deserialize(_)) ==
    IF wire = Failed THEN LocalError
    ELSE LET response == wire[2]
             body     == Decompress(response)
         IN  IF body = <<"undecodable">> THEN LocalError
             ELSE IF ~IsResponseOK(response) THEN ErrorParser(response, body)
             ELSE Deserialize(body)

Answered(op) == wire[1] \in {"answer", "failed"} /\ call[1] = op

Finish(op, Deserialize(_)) ==
    /\ Answered(op)
    /\ outcome' = ParseResponse(Deserialize)
    /\ handle' = ReleaseCurlHandle(handle)
    /\ wire' = Idle
    /\ UNCHANGED <<part, config, call, final>>
    /\ UNCHANGED service

\* A call: it is begun with some arguments, or it ends.
Exchange(op, defaults, method, RequestOf(_), Deserialize(_)) ==
    \/ \E c \in Calls[part][op] :
            AttemptOneRequest(op, c ++ defaults, method, RequestOf(c ++ defaults))
    \/ Finish(op, Deserialize)

Invoke(op) == op \in DOMAIN Calls[part]

\* The result is read from a JSON document, or there is none to read.
Send(op, method, RequestOf(_), Result(_)) ==
    /\ Invoke(op)
    /\ Exchange(op, <<>>, method, RequestOf,
                LAMBDA body : IF body[2] = Malformed THEN LocalError ELSE Returns(Result(body[2])))

SendWith(defaults, op, method, RequestOf(_), Result(_)) ==
    /\ Invoke(op)
    /\ Exchange(op, defaults, method, RequestOf,
                LAMBDA body : IF body[2] = Malformed THEN LocalError ELSE Returns(Result(body[2])))

Nothing == [done |-> TRUE]

Command(op, method, RequestOf(_)) ==
    /\ Invoke(op)
    /\ Exchange(op, <<>>, method, RequestOf, LAMBDA body : Returns(Nothing))

\* A result that is read without a look at whether the text could be parsed:
\* the library then stops the program.
SendUnchecked(op, method, RequestOf(_), Result(_)) ==
    /\ Invoke(op)
    /\ Exchange(op, <<>>, method, RequestOf,
                LAMBDA body : IF body[2] = Malformed THEN Stopped ELSE Returns(Result(body[2])))

\* The result is read from a message in its frame.
SendPb(op, RequestOf(_), Result(_)) ==
    /\ Invoke(op)
    /\ Exchange(op, <<>>, "POST", RequestOf,
                LAMBDA body : IF ~ParsePbFromArrayBuff(body[2]) THEN LocalError
                              ELSE Returns(Result(body[2].message)))

-----------------------------------------------------------------------------
(* Projects. *)

ListProject   == Send("ListProject", "GET", ListProjectRequest, ListProjectResult)
CreateProject == Command("CreateProject", "POST", CreateProjectRequest)
DeleteProject == Command("DeleteProject", "DELETE", DeleteProjectRequest)
UpdateProject == Command("UpdateProject", "PUT", UpdateProjectRequest)
GetProject    == Send("GetProject", "GET", GetProjectRequest,
                      LAMBDA doc : GetProjectResult(call[2], doc))

-----------------------------------------------------------------------------
(* Topics and their schemas. *)

ListTopic   == Send("ListTopic", "GET", ListTopicRequest, ListTopicResult)
CreateTopic == Command("CreateTopic", "POST", CreateTopicRequest)

CreateTopicWithoutSchema ==
    /\ Invoke("CreateTopicWithoutSchema")
    /\ Exchange("CreateTopicWithoutSchema", [schema |-> <<>>], "POST", CreateTopicRequest,
                LAMBDA body : Returns(Nothing))

DeleteTopic == Command("DeleteTopic", "DELETE", DeleteTopicRequest)
UpdateTopic == Command("UpdateTopic", "PUT", UpdateTopicRequest)
GetTopic    == Send("GetTopic", "GET", GetTopicRequest, GetTopicResult)
AppendField == Command("AppendField", "POST", AppendFieldRequest)

RegisterTopicSchema ==
    Send("RegisterTopicSchema", "POST", RegisterTopicSchemaRequest, RegisterTopicSchemaResult)
GetTopicSchema ==
    Send("GetTopicSchema", "POST", GetTopicSchemaRequest, GetTopicSchemaResult)
ListTopicSchema ==
    Send("ListTopicSchema", "POST", ListTopicSchemaRequest, ListTopicSchemaResult)
DeleteTopicSchema == Command("DeleteTopicSchema", "POST", DeleteTopicSchemaRequest)

-----------------------------------------------------------------------------
(* Shards. *)

ListShard     == Send("ListShard", "GET", ListShardRequest, ListShardResult)
ActivateShard == Command("ActivateShard", "POST", ActivateShardRequest)
SplitShard    == Send("SplitShard", "POST", SplitShardRequest, SplitShardResult)
MergeShard    == Send("MergeShard", "POST", MergeShardRequest, MergeShardResult)

\* An exception of the listing counts as not completed.
IsShardLoadCompleted ==
    LET listed == ParseResponse(LAMBDA body : IF body[2] = Malformed THEN LocalError
                                              ELSE Returns(ListShardResult(body[2])))
    IN  /\ listed[1] = "ok"
        /\ \A i \in DOMAIN listed[2] : listed[2][i].state \in {"ACTIVE", "CLOSED"}

\* The shards are listed until all are active or closed or the time is up,
\* then once more.
WaitForShardReady ==
    /\ Invoke("WaitForShardReady")
    /\ \/ \E c \in Calls[part]["WaitForShardReady"], timeUp \in BOOLEAN :
            /\ wire = Idle
            /\ call' = <<"WaitForShardReady", c>>
            /\ final' = timeUp
            /\ wire' = <<"listing">>
            /\ outcome' = <<>>
            /\ UNCHANGED <<part, config, handle>>
            /\ UNCHANGED service
       \/ /\ wire = <<"listing">>
          /\ LET http == SignRequest(BuildHttpRequest(ListShardRequest(call[2]), "GET"), config.v4)
             IN  /\ handle' = SetOptCodeForHttpMethod(handle, "GET")
                 /\ wire' = <<"request", [http EXCEPT !.method = MethodOf(handle')]>>
          /\ UNCHANGED <<part, config, call, final, outcome>>
          /\ UNCHANGED service
       \/ /\ Answered("WaitForShardReady")
          /\ handle' = ReleaseCurlHandle(handle)
          /\ IF IsShardLoadCompleted
             THEN outcome' = <<"ok", Nothing>> /\ wire' = Idle /\ final' = FALSE
             ELSE IF final
             THEN outcome' = <<"error", "ServiceErrorCode">> /\ wire' = Idle /\ final' = FALSE
             ELSE outcome' = <<>> /\ wire' = <<"listing">> /\ final' \in BOOLEAN
          /\ UNCHANGED <<part, config, call>>
          /\ UNCHANGED service

GetMeteringInfo ==
    Send("GetMeteringInfo", "POST", GetMeteringInfoRequest, GetMeteringInfoResult)
GetTopicMeteringInfo ==
    SendUnchecked("GetTopicMeteringInfo", "POST", GetTopicMeteringInfoRequest,
                  GetTopicMeteringInfoResult)

-----------------------------------------------------------------------------
(* Records. *)

\* Mutant: as many records from the first as failed.
WithFirstRecords(result) ==
    result ++ [failedRecords |-> SubSeq(call[2].records, 1, result.failedRecordCount)]

\* The records that failed, found by the positions the service names.
WithFailedRecords(result) ==
    result ++ [failedRecords |->
        IF result.failedRecordCount > 0
        THEN [k \in DOMAIN result.errorEntries |->
                 call[2].records[result.errorEntries[k].index + 1]]
        ELSE <<>>]

PutRecord ==
    /\ ~config.protobuf
    /\ Send("PutRecord", "POST", PutRecordRequest,
            LAMBDA doc : WithFailedRecords(PutRecordResult(doc)))

PutRecordInPb ==
    /\ config.protobuf
    /\ SendPb("PutRecord", PutPBRecordRequest,
              LAMBDA message : WithFailedRecords(PutPBRecordResult(message)))

\* Without protobuf there is no such request.
PutRecordByShard ==
    /\ ~config.protobuf
    /\ wire = Idle
    /\ Invoke("PutRecordByShard")
    /\ \E c \in Calls[part]["PutRecordByShard"] : call' = <<"PutRecordByShard", c>>
    /\ outcome' = LocalError
    /\ seen' = NotSeen
    /\ UNCHANGED <<part, config, handle, wire, final, docs, objects>>

PutRecordByShardInPb ==
    /\ config.protobuf
    /\ Invoke("PutRecordByShard")
    /\ Exchange("PutRecordByShard", <<>>, "POST", PutRecordByShardRequest,
                LAMBDA body : Returns(Nothing))

GetCursor ==
    SendWith([value |-> 0], "GetCursor", "POST", GetCursorRequest, GetCursorResult)
GetCursorOf == Send("GetCursorOf", "POST", GetCursorRequest, GetCursorResult)

GetRecord ==
    /\ ~config.protobuf
    /\ Send("GetRecord", "POST", GetRecordRequest, GetRecordResult)

GetRecordInPb ==
    /\ config.protobuf
    /\ SendPb("GetRecord", GetPBRecordRequest, GetPBRecordResult)

-----------------------------------------------------------------------------
(* Connectors. *)

ListConnector   == Send("ListConnector", "GET", ListConnectorRequest, ListConnectorResult)
CreateConnectorFrom ==
    Send("CreateConnectorFrom", "POST", CreateConnectorRequest, CreateConnectorResult)
CreateConnector ==
    SendWith([sinkStartTime |-> -1], "CreateConnector", "POST",
             CreateConnectorRequest, CreateConnectorResult)
GetConnector    == Send("GetConnector", "GET", GetConnectorRequest, GetConnectorResult)
UpdateConnector == Command("UpdateConnector", "POST", UpdateConnectorRequest)
DeleteConnector == Command("DeleteConnector", "DELETE", DeleteConnectorRequest)
GetConnectorDoneTime ==
    Send("GetConnectorDoneTime", "GET", GetConnectorDoneTimeRequest, GetConnectorDoneTimeResult)

ReloadConnector ==
    /\ Invoke("ReloadConnector")
    /\ Exchange("ReloadConnector", [shardId |-> ""], "POST", ReloadConnectorRequest,
                LAMBDA body : Returns(Nothing))
ReloadConnectorShard ==
    Command("ReloadConnectorShard", "POST", ReloadConnectorRequest)
UpdateConnectorState == Command("UpdateConnectorState", "POST", UpdateConnectorStateRequest)
UpdateConnectorOffset ==
    Command("UpdateConnectorOffset", "POST", LAMBDA c : UpdateConnectorOffsetRequest(c, ""))

\* The shard is not passed on.
UpdateConnectorOffsetByShard ==
    Command("UpdateConnectorOffsetByShard", "POST",
            LAMBDA c : UpdateConnectorOffsetRequest(c, ""))

GetConnectorShardStatus ==
    Send("GetConnectorShardStatus", "POST", GetConnectorShardStatusRequest,
         GetConnectorShardStatusResult)
GetConnectorShardStatusByShard ==
    Send("GetConnectorShardStatusByShard", "POST", GetConnectorShardStatusByShardRequest,
         GetConnectorShardStatusByShardResult)
AppendConnectorField ==
    Command("AppendConnectorField", "POST", AppendConnectorFieldRequest)

-----------------------------------------------------------------------------
(* Subscriptions. *)

ListSubscriptionBy ==
    Send("ListSubscriptionBy", "POST", ListSubscriptionRequest, ListSubscriptionResult)
ListSubscription ==
    SendWith([search |-> ""], "ListSubscription", "POST",
             ListSubscriptionRequest, ListSubscriptionResult)
CreateSubscription ==
    Send("CreateSubscription", "POST", CreateSubscriptionRequest, CreateSubscriptionResult)
DeleteSubscription == Command("DeleteSubscription", "DELETE", DeleteSubscriptionRequest)
GetSubscription ==
    Send("GetSubscription", "GET", GetSubscriptionRequest, GetSubscriptionResult)
UpdateSubscription == Command("UpdateSubscription", "PUT", UpdateSubscriptionRequest)
UpdateSubscriptionState ==
    Command("UpdateSubscriptionState", "PUT", UpdateSubscriptionStateRequest)
InitSubscriptionOffsetSession ==
    Send("InitSubscriptionOffsetSession", "POST", OpenSubscriptionOffsetSessionRequest,
         OpenSubscriptionOffsetSessionResult)
GetSubscriptionOffset ==
    Send("GetSubscriptionOffset", "POST", GetSubscriptionOffsetRequest,
         GetSubscriptionOffsetResult)
UpdateSubscriptionOffset ==
    Command("UpdateSubscriptionOffset", "PUT", UpdateSubscriptionOffsetRequest)
ResetSubscriptionOffset ==
    Command("ResetSubscriptionOffset", "PUT", ResetSubscriptionOffsetRequest)
JoinGroup  == Send("JoinGroup", "POST", JoinGroupRequest, JoinGroupResult)
Heartbeat  == Send("Heartbeat", "POST", HeartbeatRequest, HeartbeatResult)
SyncGroup  == Command("SyncGroup", "PUT", SyncGroupRequest)
LeaveGroup == Command("LeaveGroup", "PUT", LeaveGroupRequest)

-----------------------------------------------------------------------------
(* The service and the network between. *)

\* The request as the service reads it.
Unpacked(http) ==
    IF http.body[1] = "packed" THEN [http EXCEPT !.body = http.body[3]] ELSE http

Decodable(http) ==
    /\ http.body[1] = "packed" =>
           "Content-Encoding" \in DOMAIN http.headers
           /\ http.headers["Content-Encoding"] = http.body[2]
    /\ LET kind == IF Unpacked(http).body[1] = "protobuf"
                   THEN "application/x-protobuf" ELSE "application/json"
       IN  http.headers["Content-Type"] = kind

\* The service checks the signature with the same account.
Served(http, refused) ==
    IF http.signature # Signature(http, config.v4) THEN Refusal(docs, 401, "Unauthorized")
    ELSE IF ~Decodable(http) THEN Refusal(docs, 400, "InvalidParameter")
    ELSE Handle(docs, Unpacked(http), refused)

InPb(http) == http.headers["Content-Type"] = "application/x-protobuf"

\* The encodings that are offered for the answer.
Offered(http) ==
    IF "Accept-Encoding" \in DOMAIN http.headers
    THEN {http.headers["Accept-Encoding"]} \cap Encodings ELSE {}

\* An answer, packed on request when the service chooses to, its size given
\* or left out.
Response(http, answer) ==
    LET ok   == answer.status < 400
        pb   == ok /\ InPb(http)
        body == IF pb THEN PbBody(answer.doc) ELSE <<"json", answer.doc>>
        type == IF pb THEN "application/x-protobuf" ELSE "application/json"
    IN  {[status |-> answer.status, type |-> type, encoding |-> "NONE",
          rawSize |-> FALSE, body |-> body]}
        \cup {[status |-> answer.status, type |-> type, encoding |-> e,
               rawSize |-> size, body |-> <<"packed", e, body>>] :
                  e \in Offered(http), size \in BOOLEAN}

Refusable ==
    IF call[1] = "PutRecord" THEN SetToAllKPermutations(DOMAIN call[2].records)
    ELSE {<<>>}

\* The identifier that an answer gives to what it made.
Assigned(doc) ==
    IF doc[1] # "object" THEN ""
    ELSE IF "SubId" \in DOMAIN doc[2] THEN doc[2].SubId[2]
    ELSE IF "ConnectorId" \in DOMAIN doc[2] THEN doc[2].ConnectorId[2]
    ELSE IF "VersionId" \in DOMAIN doc[2] THEN doc[2].VersionId[2] ELSE ""

HandleRequest(refused) ==
    LET answer == Served(wire[2], refused)
        now    == IF answer.status < 400
                  THEN Effect(objects, call[1], call[2], Assigned(answer.doc), ToSet(refused))
                  ELSE objects
    IN  /\ docs' = answer.docs
        /\ objects' = now
        /\ seen' = [granted |-> answer.status < 400, objects |-> now, refused |-> refused]

Unmoved == UNCHANGED <<part, config, call, handle, final, outcome>>

Serve ==
    /\ wire[1] = "request"
    /\ \E refused \in Refusable :
        /\ HandleRequest(refused)
        /\ wire' \in {<<"answer", r>> :
                         r \in Response(wire[2], Served(wire[2], refused))}
    /\ Unmoved

\* The answer does not arrive whole.
Garbled(body) ==
    IF body[1] = "protobuf"
    THEN {<<"protobuf", [body[2] EXCEPT !.crc = "differs"]>>,
          <<"protobuf", [body[2] EXCEPT !.whole = FALSE]>>}
    ELSE {<<"json", Malformed>>}

ServeGarbled ==
    /\ wire[1] = "request"
    /\ HandleRequest(<<>>)
    /\ \E r \in Response(wire[2], Served(wire[2], <<>>)) :
        /\ r.encoding = "NONE"
        /\ wire' \in {<<"answer", [r EXCEPT !.body = b]>> : b \in Garbled(r.body)}
    /\ Unmoved

\* No connection, or a time out before the request arrives.
LoseRequest ==
    /\ wire[1] = "request"
    /\ wire' = Failed
    /\ Unmoved /\ UNCHANGED service

\* The time is up, or the connection ends, after the request was handled.
LoseAnswer ==
    /\ wire[1] = "request"
    /\ \E refused \in Refusable : HandleRequest(refused)
    /\ wire' = Failed
    /\ Unmoved

\* Something between client and service answers in its place.
Gateway ==
    /\ wire[1] = "request"
    /\ wire' = <<"answer", [status |-> 502, type |-> "text/html", encoding |-> "NONE",
                            rawSize |-> FALSE, body |-> <<"text">>]>>
    /\ Unmoved /\ UNCHANGED service

\* A shard arrives in the state it is on its way to.
SettleShard ==
    /\ \E p \in Moving(docs) :
        docs' = [docs EXCEPT ![p].State = Text(Settled[docs[p].State[2]])]
    /\ Unmoved /\ UNCHANGED <<wire, objects, seen>>

-----------------------------------------------------------------------------
ProjectStep == ListProject \/ CreateProject \/ DeleteProject \/ UpdateProject \/ GetProject

TopicStep ==
    \/ ListTopic \/ CreateTopic \/ CreateTopicWithoutSchema \/ DeleteTopic \/ UpdateTopic
    \/ GetTopic \/ AppendField \/ RegisterTopicSchema \/ GetTopicSchema
    \/ ListTopicSchema \/ DeleteTopicSchema

ShardStep ==
    \/ ListShard \/ ActivateShard \/ SplitShard \/ MergeShard \/ WaitForShardReady
    \/ GetMeteringInfo \/ GetTopicMeteringInfo

RecordStep ==
    \/ PutRecord \/ PutRecordInPb \/ PutRecordByShard \/ PutRecordByShardInPb
    \/ GetCursor \/ GetCursorOf \/ GetRecord \/ GetRecordInPb

ConnectorStep ==
    \/ ListConnector \/ CreateConnectorFrom \/ CreateConnector \/ GetConnector
    \/ UpdateConnector \/ DeleteConnector \/ GetConnectorDoneTime \/ ReloadConnector
    \/ ReloadConnectorShard \/ UpdateConnectorState \/ UpdateConnectorOffset
    \/ UpdateConnectorOffsetByShard \/ GetConnectorShardStatus
    \/ GetConnectorShardStatusByShard \/ AppendConnectorField

SubscriptionStep ==
    \/ ListSubscriptionBy \/ ListSubscription \/ CreateSubscription \/ DeleteSubscription
    \/ GetSubscription \/ UpdateSubscription \/ UpdateSubscriptionState
    \/ InitSubscriptionOffsetSession \/ GetSubscriptionOffset \/ UpdateSubscriptionOffset
    \/ ResetSubscriptionOffset \/ JoinGroup \/ Heartbeat \/ SyncGroup \/ LeaveGroup

ServiceStep ==
    Serve \/ ServeGarbled \/ LoseRequest \/ LoseAnswer \/ Gateway \/ SettleShard

Next == \/ ProjectStep \/ TopicStep \/ ShardStep \/ RecordStep \/ ConnectorStep
        \/ SubscriptionStep \/ ServiceStep

Spec == Init /\ [][Next]_vars

-----------------------------------------------------------------------------
(* Properties. *)

\* The exchange is in one of its stages, and the handle has no options of an
\* earlier request while no request is under way.
TypeOK ==
    /\ part \in Parts /\ config \in Configurations[part]
    /\ wire[1] \in {"idle", "listing", "request", "answer", "failed"}
    /\ final \in BOOLEAN
    /\ wire[1] \in {"idle", "listing"} => handle = HandleDefaults
    /\ outcome # <<>> => wire = Idle /\ outcome[1] \in {"ok", "error", "stopped"}

Succeeded == outcome # <<>> /\ outcome[1] = "ok" /\ call[1] # "WaitForShardReady"

\* A method that returns normally was granted by the service, and its result
\* says what the objects were when the service answered: nothing is lost or
\* changed between the arguments of the calls that wrote it and the results
\* of those that read it, through requests, documents and answers.
ResultsAreTrue ==
    Succeeded =>
        /\ seen.granted
        /\ Promises(seen.objects, call[1], call[2], outcome[2])

\* A call that returns normally was granted.  An error that the service names
\* tells that it has done nothing, and it is never about the signature: a
\* request is signed as it is sent, with every header that is signed on it.
\* Only LocalErrorCode leaves it open.
ErrorsAreTrue ==
    /\ Succeeded => seen.granted
    /\ outcome # <<>> /\ outcome[1] = "error" /\ outcome[2] # "LocalErrorCode"
       /\ call[1] # "WaitForShardReady" => ~seen.granted /\ outcome[2] # "Unauthorized"

\* After a put, the records that the result calls failed are those that the
\* service did not take, and no others: to put them again neither loses nor
\* doubles a record.
FailedRecordsAreRefused ==
    Succeeded /\ call[1] = "PutRecord" =>
        outcome[2].failedRecords =
            [k \in DOMAIN seen.refused |-> call[2].records[seen.refused[k]]]

\* The wait for shards ends well only when no shard of the topic is on its way.
ShardsAreReady ==
    outcome # <<>> /\ call[1] = "WaitForShardReady" /\ outcome[1] = "ok" =>
        Moving(docs) \cap Children(docs, ShardsPath(call[2])) = {}

\* What the caller learns from the end of a call, whatever was lost on the way,
\* is what the service has done: whether it did the call at all, which records
\* of a put it took, and whether the shards that were waited for are there.
OutcomesAreTrue == ErrorsAreTrue /\ FailedRecordsAreRefused /\ ShardsAreReady
=============================================================================
