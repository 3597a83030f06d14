------------------------ MODULE DatahubClient_proofs ------------------------
(***************************************************************************)
(* What the caller of the client learns is what the service has done, for  *)
(* any documents, arguments and configurations, and whatever the network   *)
(* loses.                                                                  *)
(*                                                                         *)
(* A step of any method begins a call, is a part of the exchange, or ends  *)
(* a call (the step shapes).  Every answer of the service is good and      *)
(* keeps the documents finite, or is a refusal that changes nothing        *)
(* (Proper).  On the wire the request is signed over what it carries, and  *)
(* an answer that can be read agrees with what was done (IInv).  What the  *)
(* service makes of a put, and of a listing, is followed from the request  *)
(* through the documents to the result.                                    *)
(***************************************************************************)
EXTENDS DatahubClient, SequenceTheorems, FiniteSetTheorems, TLAPS

LEMMA MergedFunctions ==
    ASSUME NEW f, NEW g
    PROVE  /\ DOMAIN (f ++ g) = DOMAIN f \cup DOMAIN g
           /\ \A x \in DOMAIN f : (f ++ g)[x] = f[x]
           /\ \A x \in DOMAIN g \ DOMAIN f : (f ++ g)[x] = g[x]
  BY DEF ++

\* The request as it leaves the handle.
Sent(request, method) ==
    [SignRequest(BuildHttpRequest(request, method), config.v4) EXCEPT !.method = method]

LEMMA SignedAsSent ==
    ASSUME NEW request, NEW method
    PROVE  Sent(request, method).signature = Signature(Sent(request, method), config.v4)
<1> DEFINE http == BuildHttpRequest(request, method)
           full == [http EXCEPT !.headers =
                       Optional(Account.token # "", "x-datahub-security-token", Account.token) ++ @]
           sent == full ++ [signature |-> Signature(full, config.v4)]
<1>1. /\ DOMAIN full = {"method", "path", "query", "headers", "body"}
      /\ full.method = method
  BY DEF BuildHttpRequest
<1>2. DOMAIN sent = {"method", "path", "query", "headers", "body", "signature"}
  BY <1>1 DEF ++
<1>3. /\ sent.method = method /\ sent.path = full.path /\ sent.query = full.query
      /\ sent.headers = full.headers /\ sent.signature = Signature(full, config.v4)
  BY <1>1 DEF ++
<1>4. Sent(request, method) = [sent EXCEPT !.method = method]
  BY DEF Sent, SignRequest
<1>5. Sent(request, method).signature = Signature(full, config.v4)
  BY <1>2, <1>3, <1>4
<1>6. /\ Sent(request, method).method = full.method
      /\ Sent(request, method).path = full.path
      /\ Sent(request, method).query = full.query
      /\ Sent(request, method).headers = full.headers
  BY <1>1, <1>2, <1>3, <1>4
<1> HIDE DEF full, sent
<1> QED
  BY <1>5, <1>6 DEF Signature, BuildCanonicalString

LEMMA MethodSent ==
    ASSUME NEW method, handle = HandleDefaults
    PROVE  MethodOf(SetOptCodeForHttpMethod(handle, method)) = method
  BY DEF HandleDefaults, SetOptCodeForHttpMethod, MethodOf

-----------------------------------------------------------------------------
(* What the methods have in common *)

Begins ==
    \E op, c, method, request :
        /\ op \notin {"PutRecord", "WaitForShardReady"}
        /\ AttemptOneRequest(op, c, method, request)

\* What the caller gets when a good answer would give `good`.
Heard(good) ==
    IF wire = Failed \/ Decompress(wire[2]) = <<"undecodable">> THEN LocalError
    ELSE IF ~IsResponseOK(wire[2]) THEN ErrorParser(wire[2], Decompress(wire[2]))
    ELSE good

EndsWith(good) ==
    /\ wire[1] \in {"answer", "failed"}
    /\ outcome' = Heard(good)
    /\ handle' = HandleDefaults
    /\ wire' = Idle
    /\ UNCHANGED <<part, config, call, final, docs, objects, seen>>

Ends ==
    /\ call[1] \notin {"PutRecord", "WaitForShardReady"}
    /\ \E good : (good[1] \in {"ok", "stopped"} \/ good = LocalError) /\ EndsWith(good)

LEMMA ProjectStepShape ==
    ASSUME ProjectStep
    PROVE  Begins \/ Ends
<1> USE DEF Exchange, Finish, Answered, ParseResponse, Begins, Ends, EndsWith, Heard,
            ReleaseCurlHandle, service, Returns, Stopped
<1>1. CASE ListProject
  BY <1>1, SMTT(60) DEF ListProject, Send
<1>2. CASE CreateProject
  BY <1>2 DEF CreateProject, Command
<1>3. CASE DeleteProject
  BY <1>3 DEF DeleteProject, Command
<1>4. CASE UpdateProject
  BY <1>4 DEF UpdateProject, Command
<1>5. CASE GetProject
  BY <1>5 DEF GetProject, Send
<1> QED
  BY <1>1, <1>2, <1>3, <1>4, <1>5 DEF ProjectStep

LEMMA TopicStepShape ==
    ASSUME TopicStep
    PROVE  Begins \/ Ends
<1> USE DEF Exchange, Finish, Answered, ParseResponse, Begins, Ends, EndsWith, Heard,
            ReleaseCurlHandle, service, Returns, Stopped
<1>1. CASE ListTopic
  BY <1>1 DEF ListTopic, Send
<1>2. CASE CreateTopic
  BY <1>2 DEF CreateTopic, Command
<1>3. CASE CreateTopicWithoutSchema
  BY <1>3 DEF CreateTopicWithoutSchema
<1>4. CASE DeleteTopic
  BY <1>4 DEF DeleteTopic, Command
<1>5. CASE UpdateTopic
  BY <1>5 DEF UpdateTopic, Command
<1>6. CASE GetTopic
  BY <1>6 DEF GetTopic, Send
<1>7. CASE AppendField
  BY <1>7 DEF AppendField, Command
<1>8. CASE RegisterTopicSchema
  BY <1>8 DEF RegisterTopicSchema, Send
<1>9. CASE GetTopicSchema
  BY <1>9 DEF GetTopicSchema, Send
<1>10. CASE ListTopicSchema
  BY <1>10 DEF ListTopicSchema, Send
<1>11. CASE DeleteTopicSchema
  BY <1>11 DEF DeleteTopicSchema, Command
<1> QED
  BY <1>1, <1>2, <1>3, <1>4, <1>5, <1>6, <1>7, <1>8, <1>9, <1>10, <1>11 DEF TopicStep

LEMMA ShardStepShape ==
    ASSUME ShardStep
    PROVE  Begins \/ Ends \/ WaitForShardReady
<1> USE DEF Exchange, Finish, Answered, ParseResponse, Begins, Ends, EndsWith, Heard,
            ReleaseCurlHandle, service, Returns, Stopped
<1>1. CASE ListShard
  BY <1>1, SMTT(60) DEF ListShard, Send
<1>2. CASE ActivateShard
  BY <1>2 DEF ActivateShard, Command
<1>3. CASE SplitShard
  BY <1>3 DEF SplitShard, Send
<1>4. CASE MergeShard
  BY <1>4 DEF MergeShard, Send
<1>5. CASE GetMeteringInfo
  BY <1>5 DEF GetMeteringInfo, Send
<1>6. CASE GetTopicMeteringInfo
  BY <1>6 DEF GetTopicMeteringInfo, SendUnchecked
<1> QED
  BY <1>1, <1>2, <1>3, <1>4, <1>5, <1>6 DEF ShardStep

LEMMA RecordStepShape ==
    ASSUME RecordStep
    PROVE  Begins \/ Ends \/ PutRecord \/ PutRecordInPb \/ PutRecordByShard
<1> USE DEF Exchange, Finish, Answered, ParseResponse, Begins, Ends, EndsWith, Heard,
            ReleaseCurlHandle, service, Returns, Stopped
<1>1. CASE PutRecordByShardInPb
  BY <1>1 DEF PutRecordByShardInPb
<1>2. CASE GetCursor
  BY <1>2 DEF GetCursor, SendWith
<1>3. CASE GetCursorOf
  BY <1>3 DEF GetCursorOf, Send
<1>4. CASE GetRecord
  BY <1>4 DEF GetRecord, Send
<1>5. CASE GetRecordInPb
  BY <1>5 DEF GetRecordInPb, SendPb
<1> QED
  BY <1>1, <1>2, <1>3, <1>4, <1>5 DEF RecordStep

LEMMA ConnectorStepShape ==
    ASSUME ConnectorStep
    PROVE  Begins \/ Ends
<1> USE DEF Exchange, Finish, Answered, ParseResponse, Begins, Ends, EndsWith, Heard,
            ReleaseCurlHandle, service, Returns, Stopped
<1>1. CASE ListConnector
  BY <1>1 DEF ListConnector, Send
<1>2. CASE CreateConnectorFrom
  BY <1>2 DEF CreateConnectorFrom, Send
<1>3. CASE CreateConnector
  BY <1>3 DEF CreateConnector, SendWith
<1>4. CASE GetConnector
  BY <1>4 DEF GetConnector, Send
<1>5. CASE UpdateConnector
  BY <1>5 DEF UpdateConnector, Command
<1>6. CASE DeleteConnector
  BY <1>6 DEF DeleteConnector, Command
<1>7. CASE GetConnectorDoneTime
  BY <1>7 DEF GetConnectorDoneTime, Send
<1>8. CASE ReloadConnector
  <2>1. \/ \E c, request : AttemptOneRequest("ReloadConnector", c, "POST", request)
        \/ call[1] = "ReloadConnector"
           /\ EndsWith(Returns(Nothing))
    BY <1>8, Zenon DEF ReloadConnector
  <2> QED
    BY <2>1
<1>9. CASE ReloadConnectorShard
  BY <1>9 DEF ReloadConnectorShard, Command
<1>10. CASE UpdateConnectorState
  BY <1>10 DEF UpdateConnectorState, Command
<1>11. CASE UpdateConnectorOffset
  <2>1. \/ \E c, request : AttemptOneRequest("UpdateConnectorOffset", c, "POST", request)
        \/ call[1] = "UpdateConnectorOffset"
           /\ EndsWith(Returns(Nothing))
    BY <1>11, Zenon DEF UpdateConnectorOffset, Command
  <2> QED
    BY <2>1
<1>12. CASE UpdateConnectorOffsetByShard
  <2>1. \/ \E c, request : AttemptOneRequest("UpdateConnectorOffsetByShard", c, "POST", request)
        \/ call[1] = "UpdateConnectorOffsetByShard"
           /\ EndsWith(Returns(Nothing))
    BY <1>12, Zenon DEF UpdateConnectorOffsetByShard, Command
  <2> QED
    BY <2>1
<1>13. CASE GetConnectorShardStatus
  BY <1>13 DEF GetConnectorShardStatus, Send
<1>14. CASE GetConnectorShardStatusByShard
  BY <1>14 DEF GetConnectorShardStatusByShard, Send
<1>15. CASE AppendConnectorField
  BY <1>15 DEF AppendConnectorField, Command
<1> QED
  BY <1>1, <1>2, <1>3, <1>4, <1>5, <1>6, <1>7, <1>8, <1>9, <1>10, <1>11, <1>12,
     <1>13, <1>14, <1>15 DEF ConnectorStep

LEMMA SubscriptionStepShape ==
    ASSUME SubscriptionStep
    PROVE  Begins \/ Ends
<1> USE DEF Exchange, Finish, Answered, ParseResponse, Begins, Ends, EndsWith, Heard,
            ReleaseCurlHandle, service, Returns, Stopped
<1>1. CASE ListSubscriptionBy
  BY <1>1 DEF ListSubscriptionBy, Send
<1>2. CASE ListSubscription
  <2>1. \/ \E c, request : AttemptOneRequest("ListSubscription", c, "POST", request)
        \/ call[1] = "ListSubscription"
           /\ EndsWith(IF Decompress(wire[2])[2] = Malformed THEN LocalError
                                ELSE Returns(ListSubscriptionResult(Decompress(wire[2])[2])))
    BY <1>2, Zenon DEF ListSubscription, SendWith
  <2> QED
    BY <2>1
<1>3. CASE CreateSubscription
  BY <1>3 DEF CreateSubscription, Send
<1>4. CASE DeleteSubscription
  BY <1>4 DEF DeleteSubscription, Command
<1>5. CASE GetSubscription
  BY <1>5 DEF GetSubscription, Send
<1>6. CASE UpdateSubscription
  BY <1>6 DEF UpdateSubscription, Command
<1>7. CASE UpdateSubscriptionState
  BY <1>7 DEF UpdateSubscriptionState, Command
<1>8. CASE InitSubscriptionOffsetSession
  BY <1>8 DEF InitSubscriptionOffsetSession, Send
<1>9. CASE GetSubscriptionOffset
  BY <1>9 DEF GetSubscriptionOffset, Send
<1>10. CASE UpdateSubscriptionOffset
  BY <1>10 DEF UpdateSubscriptionOffset, Command
<1>11. CASE ResetSubscriptionOffset
  BY <1>11 DEF ResetSubscriptionOffset, Command
<1>12. CASE JoinGroup
  BY <1>12 DEF JoinGroup, Send
<1>13. CASE Heartbeat
  BY <1>13 DEF Heartbeat, Send
<1>14. CASE SyncGroup
  BY <1>14 DEF SyncGroup, Command
<1>15. CASE LeaveGroup
  BY <1>15 DEF LeaveGroup, Command
<1> QED
  BY <1>1, <1>2, <1>3, <1>4, <1>5, <1>6, <1>7, <1>8, <1>9, <1>10, <1>11, <1>12,
     <1>13, <1>14, <1>15 DEF SubscriptionStep

-----------------------------------------------------------------------------
(* What the service answers *)

RefusalCodes ==
    {"InvalidParameter", "ResourceNotFound", "ResourceAlreadyExist", "TopicAlreadyExist",
     "LimitExceeded", "InvalidShardOperation", "InvalidCursor", "SeekOutOfRange",
     "ConnectorAlreadyExist", "NoSuchConsumer"}

\* An answer to a request on the documents `store`: it grants the request, and
\* the documents stay finitely many, or it refuses and changes nothing.
Proper(store, answer) ==
    \/ answer.status = 200 /\ IsFiniteSet(DOMAIN answer.docs)
    \/ \E status \in {400, 404, 409, 500}, code \in RefusalCodes :
          answer = Refusal(store, status, code)

LEMMA AnswerProper ==
    ASSUME NEW store, NEW new, IsFiniteSet(DOMAIN new), NEW doc
    PROVE  Proper(store, Answer(new, doc))
  BY DEF Proper, Answer

LEMMA RefusalProper ==
    ASSUME NEW store, NEW status \in {400, 404, 409, 500}, NEW code \in RefusalCodes
    PROVE  Proper(store, Refusal(store, status, code))
  BY DEF Proper

LEMMA MergedFinite ==
    ASSUME NEW f, NEW g, IsFiniteSet(DOMAIN f), IsFiniteSet(DOMAIN g)
    PROVE  IsFiniteSet(DOMAIN (f ++ g))
<1>1. DOMAIN (f ++ g) = DOMAIN f \cup DOMAIN g
  BY MergedFunctions
<1> QED
  BY <1>1, FS_Union

LEMMA SingleFinite ==
    ASSUME NEW x, NEW y
    PROVE  IsFiniteSet(DOMAIN Single(x, y))
  BY FS_Singleton DEF Single

LEMMA KeepFinite ==
    ASSUME NEW store, IsFiniteSet(DOMAIN store), NEW path, NEW members
    PROVE  IsFiniteSet(DOMAIN Keep(store, path, members))
  BY MergedFinite, SingleFinite DEF Keep

LEMMA MergeFinite ==
    ASSUME NEW store, IsFiniteSet(DOMAIN store), NEW path, NEW members
    PROVE  IsFiniteSet(DOMAIN Merge(store, path, members))
  BY KeepFinite DEF Merge

LEMMA DropFinite ==
    ASSUME NEW store, IsFiniteSet(DOMAIN store), NEW path
    PROVE  IsFiniteSet(DOMAIN Drop(store, path))
  BY FS_Subset DEF Drop

LEMMA ImageFinite ==
    ASSUME NEW f, IsFiniteSet(DOMAIN f)
    PROVE  IsFiniteSet({f[x] : x \in DOMAIN f})
<1> DEFINE T == {f[x] : x \in DOMAIN f}
           g == [x \in DOMAIN f |-> f[x]]
<1>1. g \in Surjection(DOMAIN f, T)
  BY DEF Surjection
<1> HIDE DEF g, T
<1>2. IsFiniteSet(T)
  BY <1>1, FS_Surjection
<1> QED
  BY <1>2 DEF T

\* The documents of the elements of a finite set.
LEMMA OfEachFinite ==
    ASSUME NEW ids, IsFiniteSet(ids), NEW path
    PROVE  /\ IsFiniteSet({Append(path, s) : s \in ids})
           /\ IsFiniteSet({RecordsOf(Append(path, s)) : s \in ids})
<1> DEFINE f == [s \in ids |-> Append(path, s)]
           g == [s \in ids |-> RecordsOf(Append(path, s))]
<1>1. DOMAIN f = ids /\ {Append(path, s) : s \in ids} = {f[s] : s \in ids}
  OBVIOUS
<1>2. DOMAIN g = ids /\ {RecordsOf(Append(path, s)) : s \in ids} = {g[s] : s \in ids}
  OBVIOUS
<1> HIDE DEF f, g
<1> QED
  BY <1>1, <1>2, ImageFinite

LEMMA NewShardsFinite ==
    ASSUME NEW ids, IsFiniteSet(ids), NEW path
    PROVE  IsFiniteSet(DOMAIN NewShards(path, ids))
<1> DEFINE shards == [p \in {Append(path, s) : s \in ids} |-> NewShard(p[6], "OPENING")]
           records == [p \in {RecordsOf(Append(path, s)) : s \in ids} |-> <<>>]
<1>1. IsFiniteSet(DOMAIN shards) /\ IsFiniteSet(DOMAIN records)
  BY OfEachFinite
<1>2. NewShards(path, ids) = shards ++ records
  BY DEF NewShards
<1> HIDE DEF shards, records
<1> QED
  BY <1>1, <1>2, MergedFinite

LEMMA BelowFinite ==
    ASSUME NEW store, IsFiniteSet(DOMAIN store), NEW path
    PROVE  /\ IsFiniteSet(Children(store, path))
           /\ IsFiniteSet(Names(store, path))
<1>1. IsFiniteSet(Children(store, path))
  BY FS_Subset DEF Children, Below
<1> DEFINE f == [p \in Children(store, path) |-> p[Len(p)]]
<1>2. DOMAIN f = Children(store, path) /\ Names(store, path) = {f[p] : p \in DOMAIN f}
  BY DEF Names
<1> HIDE DEF f
<1> QED
  BY <1>1, <1>2, ImageFinite

LEMMA PairFinite ==
    ASSUME NEW x, NEW y
    PROVE  IsFiniteSet({x, y})
<1>1. IsFiniteSet({x} \cup {y})
  BY FS_Singleton, FS_AddElement
<1>2. {x} \cup {y} = {x, y}
  OBVIOUS
<1> QED
  BY <1>1, <1>2

LEMMA CreateProper ==
    ASSUME NEW store, IsFiniteSet(DOMAIN store), NEW r, NEW members
    PROVE  Proper(store, Create(store, r, members))
<1>1. Proper(store, Refusal(store, 409, "ResourceAlreadyExist"))
  BY RefusalProper DEF RefusalCodes
<1>2. Proper(store, Answer(Keep(store, r.path, members ++ Times), Doc(<<>>)))
  BY KeepFinite, AnswerProper
<1> QED
  BY <1>1, <1>2 DEF Create

LEMMA CreateTopicProper ==
    ASSUME NEW store, IsFiniteSet(DOMAIN store), NEW r
    PROVE  Proper(store, CreateTopicServed(store, r))
<1> DEFINE m     == Members(r)
           ids   == IF m.ShardCount[2] = 1 THEN {"0"} ELSE {"0", "4"}
           new   == NewShards(Append(r.path, "shards"), ids) ++ Keep(store, r.path, m ++ Times)
<1>1. IsFiniteSet(ids)
  BY PairFinite, FS_Singleton
<1>2. Proper(store, Answer(new, Doc(<<>>)))
  <2>1. IsFiniteSet(DOMAIN NewShards(Append(r.path, "shards"), ids))
    BY <1>1, NewShardsFinite
  <2>2. IsFiniteSet(DOMAIN Keep(store, r.path, m ++ Times))
    BY KeepFinite
  <2> QED
    BY <2>1, <2>2, MergedFinite, AnswerProper
<1>3. /\ Proper(store, Refusal(store, 400, "InvalidParameter"))
      /\ Proper(store, Refusal(store, 409, "TopicAlreadyExist"))
  BY RefusalProper DEF RefusalCodes
<1>4. \/ CreateTopicServed(store, r) = Answer(new, Doc(<<>>))
      \/ CreateTopicServed(store, r) = Refusal(store, 400, "InvalidParameter")
      \/ CreateTopicServed(store, r) = Refusal(store, 409, "TopicAlreadyExist")
  BY Zenon DEF CreateTopicServed
<1> HIDE DEF new
<1> QED
  BY <1>2, <1>3, <1>4

LEMMA GetProper ==
    ASSUME NEW store, IsFiniteSet(DOMAIN store), NEW r
    PROVE  Proper(store, Get(store, r))
<1>1. \E doc : Get(store, r) = Answer(store, doc)
  <2>1. CASE r.query = "donetime"
    BY <2>1 DEF Get
  <2>2. CASE r.query # "donetime"
    <3> DEFINE shards == SetToSeq(Children(store, r.path))
    <3>1. \/ Get(store, r) = Answer(store, Doc([ProjectNames |-> Listed(Names(store, r.path))]))
          \/ Get(store, r) = Answer(store, Doc([TopicNames |-> Listed(Names(store, r.path))]))
          \/ Get(store, r) = Answer(store, Doc([Connectors |-> Listed(Names(store, r.path))]))
          \/ Get(store, r) = Answer(store, Doc([Shards |->
                    List([i \in DOMAIN shards |-> Doc(store[shards[i]])])]))
          \/ Get(store, r) = Answer(store, Doc(store[r.path]))
      BY <2>2, SMT DEF Get
    <3> QED
      BY <3>1, Zenon
  <2> QED
    BY <2>1, <2>2
<1> QED
  BY <1>1, AnswerProper

LEMMA AppendFieldProper ==
    ASSUME NEW store, IsFiniteSet(DOMAIN store), NEW r
    PROVE  Proper(store, AppendFieldServed(store, r))
<1>1. \/ \E members, doc : AppendFieldServed(store, r) = Answer(Merge(store, r.path, members), doc)
      \/ AppendFieldServed(store, r) = Refusal(store, 400, "InvalidParameter")
  BY Zenon DEF AppendFieldServed
<1>2. Proper(store, Refusal(store, 400, "InvalidParameter"))
  BY RefusalProper DEF RefusalCodes
<1> QED
  BY <1>1, <1>2, MergeFinite, AnswerProper

LEMMA RegisterSchemaProper ==
    ASSUME NEW store, IsFiniteSet(DOMAIN store), NEW r
    PROVE  Proper(store, RegisterSchemaServed(store, r))
<1>1. \/ \E path, members, doc :
            RegisterSchemaServed(store, r) = Answer(Keep(store, path, members), doc)
      \/ RegisterSchemaServed(store, r) = Refusal(store, 400, "LimitExceeded")
  BY Zenon DEF RegisterSchemaServed
<1>2. Proper(store, Refusal(store, 400, "LimitExceeded"))
  BY RefusalProper DEF RefusalCodes
<1> QED
  BY <1>1, <1>2, KeepFinite, AnswerProper

LEMMA GetSchemaProper ==
    ASSUME NEW store, IsFiniteSet(DOMAIN store), NEW r
    PROVE  Proper(store, GetSchemaServed(store, r))
<1>1. \/ \E doc : GetSchemaServed(store, r) = Answer(store, doc)
      \/ GetSchemaServed(store, r) = Refusal(store, 404, "ResourceNotFound")
  BY Zenon DEF GetSchemaServed
<1>2. Proper(store, Refusal(store, 404, "ResourceNotFound"))
  BY RefusalProper DEF RefusalCodes
<1> QED
  BY <1>1, <1>2, AnswerProper

LEMMA ListSchemaProper ==
    ASSUME NEW store, IsFiniteSet(DOMAIN store), NEW r
    PROVE  Proper(store, ListSchemaServed(store, r))
<1>1. \E doc : ListSchemaServed(store, r) = Answer(store, doc)
  BY Zenon DEF ListSchemaServed
<1> QED
  BY <1>1, AnswerProper

LEMMA DeleteSchemaProper ==
    ASSUME NEW store, IsFiniteSet(DOMAIN store), NEW r
    PROVE  Proper(store, DeleteSchemaServed(store, r))
<1>1. \E path, doc : DeleteSchemaServed(store, r) = Answer(Drop(store, path), doc)
  BY Zenon DEF DeleteSchemaServed
<1> QED
  BY <1>1, DropFinite, AnswerProper

LEMMA ActivateProper ==
    ASSUME NEW store, IsFiniteSet(DOMAIN store), NEW r
    PROVE  Proper(store, ActivateServed(store, r))
<1>1. \/ \E new, doc : DOMAIN new = DOMAIN store /\ ActivateServed(store, r) = Answer(new, doc)
      \/ ActivateServed(store, r) = Refusal(store, 400, "InvalidShardOperation")
  BY Zenon DEF ActivateServed
<1>2. Proper(store, Refusal(store, 400, "InvalidShardOperation"))
  BY RefusalProper DEF RefusalCodes
<1> QED
  BY <1>1, <1>2, AnswerProper

LEMMA ReplaceProper ==
    ASSUME NEW store, IsFiniteSet(DOMAIN store), NEW r, NEW doc,
           NEW old, IsFiniteSet(old), NEW new, IsFiniteSet(new)
    PROVE  Proper(store, Replace(store, r, old, new, doc))
<1> DEFINE olds    == {Append(r.path, s) : s \in old}
           closing == [p \in olds |-> [store[p] EXCEPT !.State = Text("CLOSING")]]
           after   == NewShards(r.path, new) ++ closing ++ store
<1>1. \/ Replace(store, r, old, new, doc) = Answer(after, doc)
      \/ Replace(store, r, old, new, doc) = Refusal(store, 400, "InvalidShardOperation")
  BY Zenon DEF Replace
<1>2. Proper(store, Refusal(store, 400, "InvalidShardOperation"))
  BY RefusalProper DEF RefusalCodes
<1>3. IsFiniteSet(DOMAIN closing)
  BY OfEachFinite
<1>4. IsFiniteSet(DOMAIN NewShards(r.path, new))
  BY NewShardsFinite
<1>5. IsFiniteSet(DOMAIN after)
  <2> HIDE DEF closing
  <2>1. IsFiniteSet(DOMAIN (NewShards(r.path, new) ++ closing))
    BY <1>3, <1>4, MergedFinite
  <2> QED
    BY <2>1, MergedFinite
<1> HIDE DEF after
<1> QED
  BY <1>1, <1>2, <1>5, AnswerProper

LEMMA SplitProper ==
    ASSUME NEW store, IsFiniteSet(DOMAIN store), NEW r
    PROVE  Proper(store, SplitServed(store, r))
  BY ReplaceProper, PairFinite, FS_Singleton DEF SplitServed

LEMMA MergeProper ==
    ASSUME NEW store, IsFiniteSet(DOMAIN store), NEW r
    PROVE  Proper(store, MergeServed(store, r))
  BY ReplaceProper, PairFinite, FS_Singleton DEF MergeServed

LEMMA PubProper ==
    ASSUME NEW store, IsFiniteSet(DOMAIN store), NEW r, NEW refused
    PROVE  Proper(store, PubServed(store, r, refused))
<1>1. \/ \E new, doc : DOMAIN new = DOMAIN store /\ PubServed(store, r, refused) = Answer(new, doc)
      \/ PubServed(store, r, refused) = Refusal(store, 400, "LimitExceeded")
  BY Zenon DEF PubServed
<1>2. Proper(store, Refusal(store, 400, "LimitExceeded"))
  BY RefusalProper DEF RefusalCodes
<1> QED
  BY <1>1, <1>2, AnswerProper

LEMMA SubProper ==
    ASSUME NEW store, IsFiniteSet(DOMAIN store), NEW r
    PROVE  Proper(store, SubServed(store, r))
<1>1. \/ \E doc : SubServed(store, r) = Answer(store, doc)
      \/ SubServed(store, r) = Refusal(store, 400, "InvalidCursor")
  BY Zenon DEF SubServed
<1>2. Proper(store, Refusal(store, 400, "InvalidCursor"))
  BY RefusalProper DEF RefusalCodes
<1> QED
  BY <1>1, <1>2, AnswerProper

LEMMA CursorProper ==
    ASSUME NEW store, IsFiniteSet(DOMAIN store), NEW r
    PROVE  Proper(store, CursorServed(store, r))
<1>1. \/ \E doc : CursorServed(store, r) = Answer(store, doc)
      \/ CursorServed(store, r) = Refusal(store, 400, "SeekOutOfRange")
  BY Zenon DEF CursorServed
<1>2. Proper(store, Refusal(store, 400, "SeekOutOfRange"))
  BY RefusalProper DEF RefusalCodes
<1> QED
  BY <1>1, <1>2, AnswerProper

LEMMA MeterProper ==
    ASSUME NEW store, IsFiniteSet(DOMAIN store), NEW r
    PROVE  Proper(store, MeterServed(store, r))
<1>1. \E doc : MeterServed(store, r) = Answer(store, doc)
  BY Zenon DEF MeterServed
<1> QED
  BY <1>1, AnswerProper

LEMMA UpdateConfigProper ==
    ASSUME NEW store, IsFiniteSet(DOMAIN store), NEW r
    PROVE  Proper(store, UpdateConfigServed(store, r))
<1>1. \E members, doc : UpdateConfigServed(store, r) = Answer(Merge(store, r.path, members), doc)
  BY Zenon DEF UpdateConfigServed
<1> QED
  BY <1>1, MergeFinite, AnswerProper

LEMMA UpdateStateProper ==
    ASSUME NEW store, IsFiniteSet(DOMAIN store), NEW r
    PROVE  Proper(store, UpdateStateServed(store, r))
<1>1. \E members, doc : UpdateStateServed(store, r) = Answer(Merge(store, r.path, members), doc)
  BY Zenon DEF UpdateStateServed
<1> QED
  BY <1>1, MergeFinite, AnswerProper

LEMMA AppendColumnProper ==
    ASSUME NEW store, IsFiniteSet(DOMAIN store), NEW r
    PROVE  Proper(store, AppendColumnServed(store, r))
<1>1. \/ \E members, doc : AppendColumnServed(store, r) = Answer(Merge(store, r.path, members), doc)
      \/ AppendColumnServed(store, r) = Refusal(store, 400, "InvalidParameter")
  BY Zenon DEF AppendColumnServed
<1>2. Proper(store, Refusal(store, 400, "InvalidParameter"))
  BY RefusalProper DEF RefusalCodes
<1> QED
  BY <1>1, <1>2, MergeFinite, AnswerProper

LEMMA UpdateContextProper ==
    ASSUME NEW store, IsFiniteSet(DOMAIN store), NEW r
    PROVE  Proper(store, UpdateContextServed(store, r))
<1>1. \E new, doc : DOMAIN new = DOMAIN store
                      /\ UpdateContextServed(store, r) = Answer(new, doc)
  BY Zenon DEF UpdateContextServed
<1> QED
  BY <1>1, AnswerProper

LEMMA StatusProper ==
    ASSUME NEW store, IsFiniteSet(DOMAIN store), NEW r
    PROVE  Proper(store, StatusServed(store, r))
<1>1. \E doc : StatusServed(store, r) = Answer(store, doc)
  BY Zenon DEF StatusServed
<1> QED
  BY <1>1, AnswerProper

LEMMA CreateConnectorProper ==
    ASSUME NEW store, IsFiniteSet(DOMAIN store), NEW r
    PROVE  Proper(store, CreateConnectorServed(store, r))
<1> DEFINE topic  == SubSeq(r.path, 1, 4)
           shards == Names(store, Append(topic, "shards"))
           new    == [p \in {Append(ContextsOf(r.path), s) : s \in shards} |->
                         [CurrentSequence |-> Number(0), State |-> Text("CONTEXT_PLANNED")]]
<1>1. \/ \E members, doc : CreateConnectorServed(store, r)
                              = Answer(new ++ Keep(store, r.path, members), doc)
      \/ CreateConnectorServed(store, r) = Refusal(store, 409, "ConnectorAlreadyExist")
      \/ CreateConnectorServed(store, r) = Refusal(store, 400, "LimitExceeded")
  BY Zenon DEF CreateConnectorServed
<1>2. /\ Proper(store, Refusal(store, 409, "ConnectorAlreadyExist"))
      /\ Proper(store, Refusal(store, 400, "LimitExceeded"))
  BY RefusalProper DEF RefusalCodes
<1>3. IsFiniteSet(DOMAIN new)
  <2>1. IsFiniteSet(shards)
    BY BelowFinite
  <2> HIDE DEF shards
  <2> QED
    BY <2>1, OfEachFinite
<1> HIDE DEF new
<1>4. \A members : IsFiniteSet(DOMAIN (new ++ Keep(store, r.path, members)))
  BY <1>3, MergedFinite, KeepFinite
<1> QED
  BY <1>1, <1>2, <1>4, AnswerProper

LEMMA CreateSubscriptionProper ==
    ASSUME NEW store, IsFiniteSet(DOMAIN store), NEW r
    PROVE  Proper(store, CreateSubscriptionServed(store, r))
<1>1. \/ \E path, members, doc : CreateSubscriptionServed(store, r)
            = Answer(Single(Append(path, "offsets"), <<>>) ++ Single(Append(path, "consumers"), <<>>)
                     ++ Keep(store, path, members), doc)
      \/ CreateSubscriptionServed(store, r) = Refusal(store, 500, "LimitExceeded")
  BY Zenon DEF CreateSubscriptionServed
<1>2. Proper(store, Refusal(store, 500, "LimitExceeded"))
  BY RefusalProper DEF RefusalCodes
<1>3. \A x, y, path, members :
          IsFiniteSet(DOMAIN (Single(x, <<>>) ++ Single(y, <<>>) ++ Keep(store, path, members)))
  <2> TAKE x, y, path, members
  <2>1. IsFiniteSet(DOMAIN (Single(x, <<>>) ++ Single(y, <<>>)))
    BY SingleFinite, MergedFinite
  <2> QED
    BY <2>1, KeepFinite, MergedFinite
<1> QED
  BY <1>1, <1>2, <1>3, AnswerProper

LEMMA ListSubscriptionProper ==
    ASSUME NEW store, IsFiniteSet(DOMAIN store), NEW r
    PROVE  Proper(store, ListSubscriptionServed(store, r))
<1>1. \E doc : ListSubscriptionServed(store, r) = Answer(store, doc)
  BY Zenon DEF ListSubscriptionServed
<1> QED
  BY <1>1, AnswerProper

LEMMA OpenProper ==
    ASSUME NEW store, IsFiniteSet(DOMAIN store), NEW r
    PROVE  Proper(store, OpenServed(store, r))
<1>1. \E members, doc : OpenServed(store, r) = Answer(Keep(store, r.path, members), doc)
  BY Zenon DEF OpenServed
<1> QED
  BY <1>1, KeepFinite, AnswerProper

LEMMA GetOffsetProper ==
    ASSUME NEW store, IsFiniteSet(DOMAIN store), NEW r
    PROVE  Proper(store, GetOffsetServed(store, r))
<1>1. \E doc : GetOffsetServed(store, r) = Answer(store, doc)
  BY Zenon DEF GetOffsetServed
<1> QED
  BY <1>1, AnswerProper

LEMMA CommitProper ==
    ASSUME NEW store, IsFiniteSet(DOMAIN store), NEW r
    PROVE  Proper(store, CommitServed(store, r))
<1>1. \E members, doc : CommitServed(store, r) = Answer(Keep(store, r.path, members), doc)
  BY Zenon DEF CommitServed
<1> QED
  BY <1>1, KeepFinite, AnswerProper

LEMMA GroupProper ==
    ASSUME NEW store, IsFiniteSet(DOMAIN store), NEW r
    PROVE  Proper(store, GroupServed(store, r))
<1>1. \/ \E path, members, doc : GroupServed(store, r) = Answer(Keep(store, path, members), doc)
      \/ \E doc : GroupServed(store, r) = Answer(store, doc)
      \/ GroupServed(store, r) = Refusal(store, 404, "NoSuchConsumer")
  BY SMT DEF GroupServed
<1>2. Proper(store, Refusal(store, 404, "NoSuchConsumer"))
  BY RefusalProper DEF RefusalCodes
<1> QED
  BY <1>1, <1>2, KeepFinite, AnswerProper

LEMMA StoredProper ==
    ASSUME NEW store, IsFiniteSet(DOMAIN store), NEW r
    PROVE  Proper(store, Stored(store, r))
<1>1. \/ \E members, doc : Stored(store, r) = Answer(Merge(store, r.path, members), doc)
      \/ Stored(store, r) = Create(store, r, Members(r))
      \/ Stored(store, r) = CreateTopicServed(store, r)
  BY SMT DEF Stored
<1> QED
  BY <1>1, MergeFinite, AnswerProper, CreateProper, CreateTopicProper

LEMMA PerformedProper ==
    ASSUME NEW store, IsFiniteSet(DOMAIN store), NEW r, NEW refused
    PROVE  Proper(store, Performed(store, r, refused))
<1> DEFINE a == ActionOf(r)
<1>1. CASE a = "AppendField"
  BY <1>1, AppendFieldProper DEF Performed
<1>2. CASE a = "RegisterSchema"
  BY <1>2, RegisterSchemaProper DEF Performed
<1>3. CASE a = "GetSchema"
  BY <1>3, GetSchemaProper DEF Performed
<1>4. CASE a = "ListSchema"
  BY <1>4, ListSchemaProper DEF Performed
<1>5. CASE a = "DeleteSchema"
  BY <1>5, DeleteSchemaProper DEF Performed
<1>6. CASE a = "activate"
  BY <1>6, ActivateProper DEF Performed
<1>7. CASE a = "split"
  BY <1>7, SplitProper DEF Performed
<1>8. CASE a = "merge"
  BY <1>8, MergeProper DEF Performed
<1>9. CASE a = "pub"
  BY <1>9, PubProper DEF Performed
<1>10. CASE a = "sub"
  BY <1>10, SubProper DEF Performed
<1>11. CASE a = "cursor"
  BY <1>11, CursorProper DEF Performed
<1>12. CASE a = "meter"
  BY <1>12, MeterProper DEF Performed
<1>13. CASE a = "updateconfig"
  BY <1>13, UpdateConfigProper DEF Performed
<1>14. CASE a = "updatestate"
  BY <1>14, UpdateStateProper DEF Performed
<1>15. CASE a = "appendfield"
  BY <1>15, AppendColumnProper DEF Performed
<1>16. CASE a = "updateshardcontext"
  BY <1>16, UpdateContextProper DEF Performed
<1>17. CASE a = "Status"
  BY <1>17, StatusProper DEF Performed
<1>18. CASE a = "Reload"
  BY <1>18, AnswerProper DEF Performed
<1>19. CASE a = "Create"
  BY <1>19, CreateConnectorProper, CreateSubscriptionProper DEF Performed
<1>20. CASE a = "list"
  BY <1>20, ListSubscriptionProper DEF Performed
<1>21. CASE a = "open"
  BY <1>21, OpenProper DEF Performed
<1>22. CASE a = "get"
  BY <1>22, GetOffsetProper DEF Performed
<1>23. CASE a \in {"commit", "reset"}
  BY <1>23, CommitProper DEF Performed
<1>24. CASE a \in {"joinGroup", "heartbeat", "syncGroup", "leaveGroup"}
  BY <1>24, GroupProper DEF Performed
<1>25. CASE a \notin {"AppendField", "RegisterSchema", "GetSchema", "ListSchema", "DeleteSchema", "activate",
                     "split", "merge", "pub", "sub", "cursor", "meter", "updateconfig",
                     "updatestate", "appendfield", "updateshardcontext", "Status",
                     "Reload", "Create", "list", "open", "get", "commit", "reset",
                     "joinGroup", "heartbeat", "syncGroup", "leaveGroup"}
  <2>1. Performed(store, r, refused) = Refusal(store, 400, "InvalidParameter")
    BY <1>25 DEF Performed
  <2> QED
    BY <2>1, RefusalProper DEF RefusalCodes
<1> HIDE DEF a
<1> QED
  BY <1>1, <1>2, <1>3, <1>4, <1>5, <1>6, <1>7, <1>8, <1>9, <1>10, <1>11, <1>12, <1>13,
     <1>14, <1>15, <1>16, <1>17, <1>18, <1>19, <1>20, <1>21, <1>22, <1>23, <1>24,
     <1>25

\* Whatever is asked, the service grants it or refuses it and changes nothing.
LEMMA HandleProper ==
    ASSUME NEW store, IsFiniteSet(DOMAIN store), NEW r, NEW refused
    PROVE  Proper(store, Handle(store, r, refused))
<1> DEFINE answer == Handle(store, r, refused)
<1>1. \/ answer = Refusal(store, 400, "InvalidParameter")
      \/ answer = Refusal(store, 404, "ResourceNotFound")
      \/ answer = Get(store, r)
      \/ answer = Answer(Drop(store, r.path), Doc(<<>>))
      \/ answer = Stored(store, r)
      \/ answer = Performed(store, r, refused)
  <2> DEFINE other  == IF ActionOf(r) = "" THEN Stored(store, r) ELSE Performed(store, r, refused)
             choice == CASE r.method = "GET" -> Get(store, r)
                         [] r.method = "DELETE" -> Answer(Drop(store, r.path), Doc(<<>>))
                         [] OTHER -> other
  <2>1. other = Stored(store, r) \/ other = Performed(store, r, refused)
    BY Zenon
  <2> HIDE DEF other
  <2>2. \/ choice = Get(store, r)
        \/ choice = Answer(Drop(store, r.path), Doc(<<>>))
        \/ choice = other
    OBVIOUS
  <2>3. \/ answer = Refusal(store, 400, "InvalidParameter")
        \/ answer = Refusal(store, 404, "ResourceNotFound")
        \/ answer = choice
    BY Zenon DEF Handle, other
  <2> HIDE DEF choice, answer
  <2> QED
    BY <2>1, <2>2, <2>3, Zenon
<1>2. /\ Proper(store, Refusal(store, 400, "InvalidParameter"))
      /\ Proper(store, Refusal(store, 404, "ResourceNotFound"))
  BY RefusalProper DEF RefusalCodes
<1> HIDE DEF answer
<1>3. Proper(store, answer)
  BY <1>1, <1>2, GetProper, DropFinite, AnswerProper, StoredProper, PerformedProper
<1> QED
  BY <1>3 DEF answer

-----------------------------------------------------------------------------
(* The invariant.  On the wire are the requests that the current call makes, *)
(* signed; an answer agrees with what the service did, as far as it can be  *)
(* read.                                                                     *)

Records == call[2].records

\* A request that puts records, in the encoding of the client.
Puts(pb, http) ==
    LET r == Unpacked(http)
    IN  /\ r.method = "POST" /\ ActionOf(r) = "pub"
        /\ IF pb THEN r.body[1] = "protobuf" ELSE r.body[1] # "protobuf"
        /\ IF pb THEN InPb(http) ELSE ~InPb(http)

\* A request that lists the shards of a topic.
Lists(c, http) ==
    LET r == Unpacked(http)
    IN  r.method = "GET" /\ r.path = ShardsPath(c) /\ r.query # "donetime" /\ ~InPb(http)

RefusedRecords == [k \in DOMAIN seen.refused |-> Records[seen.refused[k]]]

\* The records that a put calls failed when the service answers `body`.
FailedRecords(pb, records, body) ==
    LET result == IF pb THEN PutPBRecordResult(body[2].message) ELSE PutRecordResult(body[2])
    IN  IF result.failedRecordCount > 0
        THEN [k \in DOMAIN result.errorEntries |-> records[result.errorEntries[k].index + 1]]
        ELSE <<>>

\* A good answer to a put, when it can be read, names the refused records.
PutTold(pb, records, refused, body) ==
    (IF pb THEN ParsePbFromArrayBuff(body[2]) ELSE body[2] # Malformed)
    => FailedRecords(pb, records, body) = [k \in DOMAIN refused |-> records[refused[k]]]

\* An error that is not about the signature.
Refused(response) ==
    \/ Decompress(response) = <<"undecodable">>
    \/ ErrorParser(response, Decompress(response))[2] # "Unauthorized"

\* An answer to a listing that shows all shards active or closed.
Completed(response) ==
    LET body == Decompress(response)
    IN  /\ body # <<"undecodable">> /\ IsResponseOK(response) /\ body[2] # Malformed
        /\ \A i \in DOMAIN ListShardResult(body[2]) :
               ListShardResult(body[2])[i].state \in {"ACTIVE", "CLOSED"}

Ready == Moving(docs) \cap Children(docs, ShardsPath(call[2])) = {}

WireInv ==
    /\ wire[1] = "failed" => wire = Failed
    /\ wire[1] = "listing" => call[1] = "WaitForShardReady"

RequestInv ==
    wire[1] = "request" =>
        /\ wire[2].signature = Signature(wire[2], config.v4)
        /\ call[1] # "WaitForShardReady" => ~seen.granted
        /\ call[1] = "WaitForShardReady" => Lists(call[2], wire[2])
        /\ call[1] = "PutRecord" => Puts(config.protobuf, wire[2])

AnswerInv ==
    wire[1] = "answer" =>
        /\ IF IsResponseOK(wire[2]) THEN seen.granted \/ call[1] = "WaitForShardReady"
           ELSE call[1] = "WaitForShardReady" \/ (~seen.granted /\ Refused(wire[2]))
        /\ call[1] = "WaitForShardReady" /\ Completed(wire[2]) => Ready
        /\ IsResponseOK(wire[2]) /\ call[1] = "PutRecord"
              => \/ Decompress(wire[2]) = <<"undecodable">>
                 \/ PutTold(config.protobuf, Records, seen.refused, Decompress(wire[2]))

PutInv ==
    wire[1] = "request" /\ call[1] = "PutRecord" =>
        Len(Records) \in Nat /\ DOMAIN Records = 1 .. Len(Records)

IInv ==
    /\ TypeOK /\ OutcomesAreTrue
    /\ WireInv /\ RequestInv /\ AnswerInv /\ PutInv
    /\ IsFiniteSet(DOMAIN docs)

-----------------------------------------------------------------------------
(* What a request carries *)

LEMMA PathSent ==
    ASSUME NEW request, NEW method
    PROVE  /\ Sent(request, method).method = method
           /\ Sent(request, method).path = request.path
           /\ Sent(request, method).query = request.query
<1> DEFINE http == BuildHttpRequest(request, method)
           full == [http EXCEPT !.headers =
                       Optional(Account.token # "", "x-datahub-security-token", Account.token) ++ @]
           sent == full ++ [signature |-> Signature(full, config.v4)]
<1>1. /\ DOMAIN full = {"method", "path", "query", "headers", "body"}
      /\ full.path = request.path /\ full.query = request.query
  BY DEF BuildHttpRequest
<1>2. DOMAIN sent = {"method", "path", "query", "headers", "body", "signature"}
  BY <1>1 DEF ++
<1>3. sent.path = full.path /\ sent.query = full.query
  BY <1>1 DEF ++
<1>4. Sent(request, method) = [sent EXCEPT !.method = method]
  BY DEF Sent, SignRequest
<1> HIDE DEF full, sent
<1> QED
  BY <1>1, <1>2, <1>3, <1>4

LEMMA BodySent ==
    ASSUME NEW request, NEW method, request.body[1] # "packed"
    PROVE  /\ Unpacked(Sent(request, method)).body = request.body
           /\ Unpacked(Sent(request, method)).method = method
           /\ Unpacked(Sent(request, method)).path = request.path
           /\ Unpacked(Sent(request, method)).query = request.query
           /\ Unpacked(Sent(request, method)).headers = Sent(request, method).headers
<1> DEFINE http == BuildHttpRequest(request, method)
           full == [http EXCEPT !.headers =
                       Optional(Account.token # "", "x-datahub-security-token", Account.token) ++ @]
           sent == full ++ [signature |-> Signature(full, config.v4)]
<1>1. /\ DOMAIN full = {"method", "path", "query", "headers", "body"}
      /\ full.body = AddContentBodyToRequest(request).body
  BY DEF BuildHttpRequest
<1>2. /\ DOMAIN sent = {"method", "path", "query", "headers", "body", "signature"}
      /\ sent.body = full.body
  BY <1>1 DEF ++
<1>3. Sent(request, method) = [sent EXCEPT !.method = method]
  BY DEF Sent, SignRequest
<1>4. \/ full.body = request.body
      \/ full.body = <<"packed", config.compress, request.body>>
  BY <1>1 DEF AddContentBodyToRequest
<1> HIDE DEF full, sent
<1>5. /\ DOMAIN Sent(request, method)
             = {"method", "path", "query", "headers", "body", "signature"}
      /\ \/ Sent(request, method).body = request.body
         \/ Sent(request, method).body = <<"packed", config.compress, request.body>>
  BY <1>2, <1>3, <1>4
<1>6. /\ Unpacked(Sent(request, method)).body = request.body
      /\ Unpacked(Sent(request, method)).method = Sent(request, method).method
      /\ Unpacked(Sent(request, method)).path = Sent(request, method).path
      /\ Unpacked(Sent(request, method)).query = Sent(request, method).query
      /\ Unpacked(Sent(request, method)).headers = Sent(request, method).headers
  BY <1>5 DEF Unpacked
<1> QED
  BY <1>6, PathSent

\* The headers of the request itself are sent, and some common ones.
CommonHeaders == {"x-datahub-security-token", "x-datahub-content-raw-size", "Content-Encoding",
                  "Accept-Encoding", "Content-Type", "x-datahub-client-version"}

LEMMA HeadersSent ==
    ASSUME NEW request, NEW method
    PROVE  LET headers == Sent(request, method).headers
           IN  /\ DOMAIN headers \subseteq DOMAIN request.headers \cup CommonHeaders
               /\ \A h \in DOMAIN request.headers :
                      h \notin CommonHeaders \/ h = "Content-Type"
                         => h \in DOMAIN headers /\ headers[h] = request.headers[h]
               /\ "Content-Type" \notin DOMAIN request.headers
                     => headers["Content-Type"] = "application/json"
<1> DEFINE http  == BuildHttpRequest(request, method)
           token == Optional(Account.token # "", "x-datahub-security-token", Account.token)
           full  == [http EXCEPT !.headers = token ++ @]
           sent  == full ++ [signature |-> Signature(full, config.v4)]
           content == AddContentBodyToRequest(request).headers
           common  == AddCommonHeaders
<1>1. /\ DOMAIN full = {"method", "path", "query", "headers", "body"}
      /\ full.headers = token ++ (content ++ (request.headers ++ common))
  BY DEF BuildHttpRequest, AddHeadersToRequest
<1>2. /\ DOMAIN sent = {"method", "path", "query", "headers", "body", "signature"}
      /\ sent.headers = full.headers
  BY <1>1 DEF ++
<1>3. Sent(request, method) = [sent EXCEPT !.method = method]
  BY DEF Sent, SignRequest
<1>4. \A given, name, value : DOMAIN Optional(given, name, value) \subseteq {name}
  BY DEF Optional, Single
<1>5. DOMAIN token \subseteq {"x-datahub-security-token"}
  BY <1>4
<1>6. DOMAIN content \subseteq {"x-datahub-content-raw-size", "Content-Encoding", "Accept-Encoding"}
  <2> DEFINE send == "SEND" \in request.compress /\ request.body # NoBody
                     /\ GetCompressor(config.compress)
             recv == "RECV" \in request.compress /\ GetCompressor(config.compress)
             size == Optional(send, "x-datahub-content-raw-size", "size")
             sends == Optional(send, "Content-Encoding", config.compress)
             takes == Optional(recv, "Accept-Encoding", config.compress)
  <2>1. content = size ++ sends ++ takes
    BY DEF AddContentBodyToRequest
  <2>2. /\ DOMAIN size \subseteq {"x-datahub-content-raw-size"}
        /\ DOMAIN sends \subseteq {"Content-Encoding"}
        /\ DOMAIN takes \subseteq {"Accept-Encoding"}
    BY <1>4
  <2> HIDE DEF size, sends, takes
  <2>3. DOMAIN (size ++ sends) = DOMAIN size \cup DOMAIN sends
    BY MergedFunctions
  <2>4. DOMAIN ((size ++ sends) ++ takes) = DOMAIN (size ++ sends) \cup DOMAIN takes
    BY MergedFunctions
  <2>5. DOMAIN content = DOMAIN ((size ++ sends) ++ takes)
    BY <2>1, Zenon
  <2> QED
    BY <2>2, <2>3, <2>4, <2>5
<1>7. /\ DOMAIN common = {"Content-Type", "x-datahub-client-version"}
      /\ common["Content-Type"] = "application/json"
  BY DEF AddCommonHeaders, Single, ++
<1> HIDE DEF full, sent, token, content, common
<1>8. Sent(request, method).headers = token ++ (content ++ (request.headers ++ common))
  BY <1>1, <1>2, <1>3
<1> DEFINE own   == request.headers ++ common
           inner == content ++ own
<1>9. /\ DOMAIN own = DOMAIN request.headers \cup DOMAIN common
      /\ \A h \in DOMAIN request.headers : own[h] = request.headers[h]
      /\ \A h \in DOMAIN common \ DOMAIN request.headers : own[h] = common[h]
  BY MergedFunctions
<1> HIDE DEF own
<1>10. /\ DOMAIN inner = DOMAIN content \cup DOMAIN own
       /\ \A h \in DOMAIN own \ DOMAIN content : inner[h] = own[h]
  BY MergedFunctions
<1> HIDE DEF inner
<1>11. /\ DOMAIN (token ++ inner) = DOMAIN token \cup DOMAIN inner
       /\ \A h \in DOMAIN inner \ DOMAIN token : (token ++ inner)[h] = inner[h]
  BY MergedFunctions
<1>12. Sent(request, method).headers = token ++ inner
  BY <1>8 DEF own, inner
<1> QED
  BY <1>5, <1>6, <1>7, <1>9, <1>10, <1>11, <1>12 DEF CommonHeaders

\* A request with the right signature is never refused for it.
LEMMA ServedSigned ==
    ASSUME NEW http, NEW refused, http.signature = Signature(http, config.v4)
    PROVE  \/ Served(http, refused) = Refusal(docs, 400, "InvalidParameter")
           \/ Served(http, refused) = Handle(docs, Unpacked(http), refused)
  BY DEF Served

LEMMA ServedProper ==
    ASSUME NEW http, NEW refused, http.signature = Signature(http, config.v4),
           IsFiniteSet(DOMAIN docs)
    PROVE  Proper(docs, Served(http, refused))
<1>1. Proper(docs, Refusal(docs, 400, "InvalidParameter"))
  BY RefusalProper DEF RefusalCodes
<1> QED
  BY <1>1, ServedSigned, HandleProper

-----------------------------------------------------------------------------
(* A listing of shards shows every shard *)

LEMMA SetToSeqOnto ==
    ASSUME NEW S, IsFiniteSet(S)
    PROVE  /\ DOMAIN SetToSeq(S) = 1 .. Cardinality(S)
           /\ \A x \in S : \E i \in DOMAIN SetToSeq(S) : SetToSeq(S)[i] = x
<1> DEFINE n == Cardinality(S)
           f == SetToSeq(S)
<1>1. n \in Nat /\ ExistsBijection(1..n, S)
  BY FS_CardinalityType
<1> HIDE DEF n
<1>2. PICK b \in Bijection(1..n, S) : TRUE
  BY <1>1 DEF ExistsBijection
<1>3. b \in [1..n -> S] /\ IsInjective(b)
  BY <1>2 DEF Bijection, Injection
<1>4. SetToSeq(S) = CHOOSE g \in [1..n -> S] : IsInjective(g)
  BY DEF SetToSeq, n
<1>5. f \in [1..n -> S] /\ IsInjective(f)
  BY <1>3, <1>4
<1> HIDE DEF f
<1>6. f \in Injection(1..n, S)
  BY <1>5 DEF Injection
<1>7. IsFiniteSet(1..n) /\ Cardinality(1..n) = n
  BY <1>1, FS_Interval
<1>8. Cardinality(S) = n
  BY DEF n
<1>9. f \in Surjection(1..n, S)
  BY <1>6, <1>7, <1>8, FS_Injection
<1>10. /\ DOMAIN f = 1..n
       /\ \A x \in S : \E i \in 1..n : f[i] = x
  BY <1>9 DEF Surjection
<1> QED
  BY <1>10 DEF f, n

LEMMA OneMore ==
    ASSUME NEW W, NEW s \in Seq(W), NEW x \in W
    PROVE  /\ s \o <<x>> \in Seq(W)
           /\ Len(s \o <<x>>) = Len(s) + 1
           /\ (s \o <<x>>)[Len(s) + 1] = x
<1>1. <<x>> \in Seq(W) /\ Len(<<x>>) = 1 /\ <<x>>[1] = x
  OBVIOUS
<1>2. Len(s) \in Nat
  OBVIOUS
<1> DEFINE t == <<x>>
<1> HIDE DEF t
<1>3. t \in Seq(W) /\ Len(t) = 1 /\ t[1] = x
  BY <1>1 DEF t
<1>4. /\ s \o t \in Seq(W)
      /\ Len(s \o t) = Len(s) + Len(t)
      /\ \A i \in 1 .. Len(s) + Len(t) :
             (s \o t)[i] = IF i <= Len(s) THEN s[i] ELSE t[i - Len(s)]
  BY <1>3, ConcatProperties
<1>5. /\ s \o t \in Seq(W)
      /\ Len(s \o t) = Len(s) + 1
      /\ (s \o t)[Len(s) + 1] = x
  BY <1>2, <1>3, <1>4
<1> QED
  BY <1>5 DEF t

LEMMA ShardsPathIs ==
    ASSUME NEW c
    PROVE  Len(ShardsPath(c)) = 5 /\ ShardsPath(c)[5] = "shards"
<1> DEFINE W == {"projects", c.project, "topics", c.topic, "shards"}
<1>1. ProjectPath(c) \in Seq(W) /\ Len(ProjectPath(c)) = 2
  BY DEF ProjectPath
<1>2. {c.topic, "topics", "shards"} \subseteq W
  OBVIOUS
<1> HIDE DEF W
<1>3. \A s \in Seq(W), x \in W :
          s \o <<x>> \in Seq(W) /\ Len(s \o <<x>>) = Len(s) + 1 /\ (s \o <<x>>)[Len(s) + 1] = x
  BY OneMore
<1>4. /\ TopicsPath(c) = ProjectPath(c) \o <<"topics">>
      /\ TopicPath(c) = TopicsPath(c) \o <<c.topic>>
      /\ ShardsPath(c) = TopicPath(c) \o <<"shards">>
  BY Zenon DEF TopicsPath, TopicPath, ShardsPath
<1>5. TopicsPath(c) \in Seq(W) /\ Len(TopicsPath(c)) = 2 + 1
  BY <1>1, <1>2, <1>3, <1>4, Zenon
<1>6. TopicPath(c) \in Seq(W) /\ Len(TopicPath(c)) = Len(TopicsPath(c)) + 1
  <2>1. c.topic \in W
    BY <1>2
  <2>2. TopicsPath(c) \in Seq(W)
    BY <1>5
  <2>3. /\ TopicsPath(c) \o <<c.topic>> \in Seq(W)
        /\ Len(TopicsPath(c) \o <<c.topic>>) = Len(TopicsPath(c)) + 1
    BY <1>3, <2>1, <2>2, Zenon
  <2> QED
    BY <1>4, <2>3, Zenon
<1>7. /\ Len(ShardsPath(c)) = Len(TopicPath(c)) + 1
      /\ ShardsPath(c)[Len(TopicPath(c)) + 1] = "shards"
  BY <1>2, <1>3, <1>4, <1>6, Zenon
<1>8. Len(TopicPath(c)) + 1 = 5
  BY <1>5, <1>6
<1> QED
  BY <1>7, <1>8, Zenon

\* The shards of a topic as the service lists them.
ShardsListed(c) ==
    LET shards == SetToSeq(Children(docs, ShardsPath(c)))
    IN  Answer(docs, Doc([Shards |-> List([i \in DOMAIN shards |-> Doc(docs[shards[i]])])]))

LEMMA ListSent ==
    ASSUME NEW c
    PROVE  Lists(c, Sent(ListShardRequest(c), "GET"))
<1> DEFINE request == ListShardRequest(c)
           r == Unpacked(Sent(request, "GET"))
<1>1. request.query = ""
  BY Zenon DEF ListShardRequest, Request
<1>2. request.path = ShardsPath(c) /\ request.body = NoBody /\ request.headers = <<>>
  BY Zenon DEF ListShardRequest, Request
<1> HIDE DEF request
<1>3. request.body[1] # "packed"
  BY <1>2 DEF NoBody
<1>4. r.method = "GET" /\ r.path = request.path /\ r.query = request.query
  BY <1>3, BodySent
<1>5. ~InPb(Sent(request, "GET"))
  <2>1. "Content-Type" \notin DOMAIN request.headers
    BY <1>2
  <2> QED
    BY <2>1, HeadersSent DEF InPb
<1> HIDE DEF r
<1>6. r.query # "donetime"
  BY <1>1, <1>4, Zenon
<1>7. r.method = "GET" /\ r.path = ShardsPath(c) /\ r.query # "donetime"
  BY <1>2, <1>4, <1>6, Zenon
<1> QED
  BY <1>5, <1>7, Zenon DEF Lists, r, request

LEMMA ListServed ==
    ASSUME NEW c, NEW http, Lists(c, http), http.signature = Signature(http, config.v4),
           NEW refused
    PROVE  \/ Served(http, refused) = ShardsListed(c)
           \/ \E status \in {400, 404}, code \in RefusalCodes :
                 Served(http, refused) = Refusal(docs, status, code)
<1> DEFINE r == Unpacked(http)
<1>1. r.method = "GET" /\ r.path = ShardsPath(c) /\ r.query # "donetime"
  BY DEF Lists
<1> HIDE DEF r
<1>2. Len(r.path) = 5 /\ r.path[5] = "shards"
  BY <1>1, ShardsPathIs
<1>3. Get(docs, r) = ShardsListed(c)
  BY <1>1, <1>2 DEF Get, ShardsListed
<1>4. \/ Handle(docs, r, refused) = Refusal(docs, 400, "InvalidParameter")
      \/ Handle(docs, r, refused) = Refusal(docs, 404, "ResourceNotFound")
      \/ Handle(docs, r, refused) = Get(docs, r)
  BY <1>1 DEF Handle
<1>5. \/ Served(http, refused) = Refusal(docs, 400, "InvalidParameter")
      \/ Served(http, refused) = Handle(docs, r, refused)
  BY ServedSigned DEF r
<1>6. Served(http, refused)
          \in {ShardsListed(c), Refusal(docs, 400, "InvalidParameter"),
              Refusal(docs, 404, "ResourceNotFound")}
  BY <1>3, <1>4, <1>5
<1> QED
  BY <1>6 DEF RefusalCodes

\* What the answer says when it can be unpacked.
Told(http, answer) ==
    IF answer.status < 400 /\ InPb(http) THEN PbBody(answer.doc) ELSE <<"json", answer.doc>>

LEMMA ResponseIs ==
    ASSUME NEW http, NEW answer, NEW r \in Response(http, answer)
    PROVE  /\ r.status = answer.status
           /\ r.type = IF answer.status < 400 /\ InPb(http)
                       THEN "application/x-protobuf" ELSE "application/json"
           /\ Decompress(r) = <<"undecodable">> \/ Decompress(r) = Told(http, answer)
           /\ r.encoding = "NONE" => r.body = Told(http, answer)
           /\ r = [r EXCEPT !.body = r.body]
           /\ DOMAIN r = {"status", "type", "encoding", "rawSize", "body"}
<1> DEFINE ok   == answer.status < 400
           pb   == ok /\ InPb(http)
           body == Told(http, answer)
           type == IF pb THEN "application/x-protobuf" ELSE "application/json"
           whole == [status |-> answer.status, type |-> type, encoding |-> "NONE",
                     rawSize |-> FALSE, body |-> body]
           packed(e, size) == [status |-> answer.status, type |-> type, encoding |-> e,
                               rawSize |-> size, body |-> <<"packed", e, body>>]
<1>1. \/ r = whole
      \/ \E e \in Offered(http), size \in BOOLEAN : r = packed(e, size)
  BY SMT DEF Response, Told
<1>2. Offered(http) \subseteq Encodings /\ "NONE" \notin Encodings
  BY DEF Offered, Encodings
<1> HIDE DEF body, type
<1>3. CASE r = whole
  BY <1>2, <1>3 DEF Decompress, GetCompressor, body, type
<1>4. CASE \E e \in Offered(http), size \in BOOLEAN : r = packed(e, size)
  <2>1. PICK e \in Offered(http), size \in BOOLEAN : r = packed(e, size)
    BY <1>4
  <2>2. r.encoding = e /\ r.body = <<"packed", e, body>>
    BY <2>1
  <2>3. Decompress(r) = <<"undecodable">> \/ Decompress(r) = body
    BY <1>2, <2>2 DEF Decompress, GetCompressor
  <2> QED
    BY <1>2, <2>1, <2>2, <2>3 DEF body, type
<1> QED
  BY <1>1, <1>3, <1>4

LEMMA ReadyWhenCompleted ==
    ASSUME NEW c, NEW http, Lists(c, http), http.signature = Signature(http, config.v4),
           NEW refused, IsFiniteSet(DOMAIN docs),
           NEW r \in Response(http, Served(http, refused)), Completed(r)
    PROVE  Moving(docs) \cap Children(docs, ShardsPath(c)) = {}
<1> DEFINE answer == Served(http, refused)
           all    == Children(docs, ShardsPath(c))
           shards == SetToSeq(all)
           list   == [i \in DOMAIN shards |-> Doc(docs[shards[i]])]
           doc    == Doc([Shards |-> List(list)])
<1>1. answer.status < 400
  <2>1. r.status = answer.status
    BY ResponseIs
  <2> QED
    BY <2>1 DEF Completed, IsResponseOK, MIN_HTTP_ERROR_CODE
<1>2. answer = Answer(docs, doc)
  <2>0. \/ answer = ShardsListed(c)
        \/ \E status \in {400, 404}, code \in RefusalCodes : answer = Refusal(docs, status, code)
    BY ListServed
  <2>2. ShardsListed(c) = Answer(docs, doc)
    BY Zenon DEF ShardsListed
  <2> HIDE DEF answer, doc
  <2>1. \A status \in {400, 404}, code \in RefusalCodes : Refusal(docs, status, code).status = status
    BY DEF Refusal
  <2> QED
    BY <1>1, <2>0, <2>1, <2>2
<1>3. ~InPb(http)
  BY DEF Lists
<1> HIDE DEF answer
<1>4. Decompress(r) = <<"json", doc>>
  <2>1. Told(http, answer) = <<"json", doc>>
    BY <1>2, <1>3 DEF Told, Answer
  <2>2. Decompress(r) # <<"undecodable">>
    BY DEF Completed
  <2> QED
    BY <2>1, <2>2, ResponseIs DEF answer
<1>5. \A i \in DOMAIN ListShardResult(doc) :
          ListShardResult(doc)[i].state \in {"ACTIVE", "CLOSED"}
  BY <1>4 DEF Completed
<1>6. ListMember(doc, "Shards") = list
  BY DEF ListMember, Member, Has, Doc, List
<1>7. \A i \in DOMAIN shards : JsonToShardEntry(Doc(docs[shards[i]])).state \in {"ACTIVE", "CLOSED"}
  <2> HIDE DEF doc
  <2>1. ListShardResult(doc) = [i \in DOMAIN list |-> JsonToShardEntry(list[i])]
    BY <1>6 DEF ListShardResult
  <2> QED
    BY <1>5, <2>1
<1>8. \A d : JsonToShardEntry(d).state = GetShardStateForName(TextMember(d, "State"))
  <2> TAKE d
  <2>1. DOMAIN JsonToShardDesc(d) = {"shardId", "beginHashKey", "endHashKey"}
    BY DEF JsonToShardDesc
  <2> QED
    BY <2>1 DEF JsonToShardEntry, ++
<1>9. SUFFICES ASSUME NEW p \in Moving(docs), p \in all
               PROVE  FALSE
  OBVIOUS
<1>10. IsFiniteSet(all)
  BY BelowFinite
<1>11. PICK i \in DOMAIN shards : shards[i] = p
  <2> HIDE DEF all
  <2> QED
    BY <1>9, <1>10, SetToSeqOnto
<1>12. docs[p].State[2] \in {"OPENING", "CLOSING"}
  BY <1>9 DEF Moving, Settled
<1>13. TextMember(Doc(docs[p]), "State") \in {"OPENING", "CLOSING", ""}
  BY <1>12 DEF TextMember, Member, Has, Doc
<1>14. GetShardStateForName(TextMember(Doc(docs[p]), "State")) \notin {"ACTIVE", "CLOSED"}
  BY <1>13 DEF GetShardStateForName, ShardStates
<1> QED
  BY <1>7, <1>8, <1>11, <1>14

-----------------------------------------------------------------------------
(* What the caller is told when the answer is an error *)

LEMMA StatusSeen ==
    ASSUME NEW http, NEW answer, NEW r \in Response(http, answer)
    PROVE  IsResponseOK(r) <=> answer.status < 400
<1>1. r.status = answer.status
  BY ResponseIs
<1> QED
  BY <1>1 DEF IsResponseOK, MIN_HTTP_ERROR_CODE

LEMMA RefusalTold ==
    ASSUME NEW http, NEW refused, http.signature = Signature(http, config.v4),
           IsFiniteSet(DOMAIN docs),
           NEW r \in Response(http, Served(http, refused)), ~IsResponseOK(r)
    PROVE  Refused(r)
<1> DEFINE answer == Served(http, refused)
<1>1. Proper(docs, answer)
  BY ServedProper
<1>2. /\ r.type = IF answer.status < 400 /\ InPb(http)
                  THEN "application/x-protobuf" ELSE "application/json"
      /\ Decompress(r) = <<"undecodable">> \/ Decompress(r) = Told(http, answer)
      /\ ~(answer.status < 400)
  BY ResponseIs, StatusSeen
<1> HIDE DEF answer
<1>3. PICK status \in {400, 404, 409, 500}, code \in RefusalCodes :
          answer = Refusal(docs, status, code)
  <2>1. answer.status # 200
    BY <1>2
  <2> QED
    BY <1>1, <2>1 DEF Proper
<1>4. Told(http, answer) = <<"json", Doc([ErrorCode |-> Text(code)])>>
  <2>1. answer.doc = Doc([ErrorCode |-> Text(code)])
    BY <1>3 DEF Refusal
  <2>2. Told(http, answer) = <<"json", answer.doc>>
    <3>1. ~(answer.status < 400)
      BY <1>2
    <3> QED
      BY <3>1, Zenon DEF Told
  <2> QED
    BY <2>1, <2>2, Zenon
<1>5. TextMember(Doc([ErrorCode |-> Text(code)]), "ErrorCode") = code
  BY DEF TextMember, Member, Has, Doc, Text
<1>6. code # "Unauthorized"
  BY DEF RefusalCodes
<1>7. CASE Decompress(r) = Told(http, answer)
  <2> DEFINE body == <<"json", Doc([ErrorCode |-> Text(code)])>>
  <2>1. r.type = "application/json"
    BY <1>2
  <2>2. body[2] = Doc([ErrorCode |-> Text(code)])
    OBVIOUS
  <2> HIDE DEF body
  <2>3. \/ ErrorParser(r, body) = <<"error", "Parse response failed">>
        \/ ErrorParser(r, body) = <<"error", code>>
    <3>1. ErrorParser(r, body) = IF body[2] = Malformed THEN <<"error", "Parse response failed">>
                                 ELSE <<"error", TextMember(body[2], "ErrorCode")>>
      BY <2>1, Zenon DEF ErrorParser
    <3>2. TextMember(body[2], "ErrorCode") = code
      BY <1>5, <2>2, Zenon
    <3> QED
      BY <3>1, <3>2, Zenon
  <2>4. Decompress(r) = body
    BY <1>4, <1>7 DEF body
  <2>5. ErrorParser(r, body)[2] = "Parse response failed" \/ ErrorParser(r, body)[2] = code
    <3>1. \A x : ErrorParser(r, body) = <<"error", x>> => ErrorParser(r, body)[2] = x
      OBVIOUS
    <3> QED
      BY <2>3, <3>1, ZenonT(60)
  <2>6. ErrorParser(r, body)[2] # "Unauthorized"
    BY <1>6, <2>5
  <2> QED
    BY <2>4, <2>6, Zenon DEF Refused
<1> QED
  BY <1>2, <1>7 DEF Refused

\* An answer that arrives garbled, and still in one piece.
LEMMA GarbledIs ==
    ASSUME NEW http, NEW answer, NEW r \in Response(http, answer), r.encoding = "NONE",
           NEW b \in Garbled(r.body)
    PROVE  LET g == [r EXCEPT !.body = b]
           IN  /\ IsResponseOK(g) <=> answer.status < 400
               /\ Decompress(g) = b
               /\ IF answer.status < 400 /\ InPb(http) THEN ~ParsePbFromArrayBuff(b[2])
                  ELSE b[2] = Malformed
               /\ ~IsResponseOK(g) => Refused(g)
<1> DEFINE g == [r EXCEPT !.body = b]
<1>1. /\ DOMAIN r = {"status", "type", "encoding", "rawSize", "body"}
      /\ r.body = Told(http, answer)
      /\ r.type = IF answer.status < 400 /\ InPb(http)
                  THEN "application/x-protobuf" ELSE "application/json"
  BY ResponseIs
<1>2. /\ g.status = r.status /\ g.type = r.type /\ g.encoding = "NONE" /\ g.body = b
  BY <1>1
<1> HIDE DEF g
<1>3. IsResponseOK(g) <=> answer.status < 400
  BY <1>2, StatusSeen DEF IsResponseOK
<1>4. Decompress(g) = b
  BY <1>2 DEF Decompress, GetCompressor, Encodings
<1>5. CASE answer.status < 400 /\ InPb(http)
  <2>1. r.body = PbBody(answer.doc)
    BY <1>1, <1>5 DEF Told
  <2>2. r.body[1] = "protobuf" /\ r.body[2] = Frame(answer.doc)
    BY <2>1 DEF PbBody
  <2>3. b[2] \in {[Frame(answer.doc) EXCEPT !.crc = "differs"],
                 [Frame(answer.doc) EXCEPT !.whole = FALSE]}
    BY <2>2 DEF Garbled
  <2>4. ~ParsePbFromArrayBuff(b[2])
    BY <2>3 DEF ParsePbFromArrayBuff, FormatAndCheck, Frame
  <2> QED
    BY <1>3, <1>4, <1>5, <2>4 DEF g
<1>6. CASE ~(answer.status < 400 /\ InPb(http))
  <2>1. r.body[1] = "json" /\ r.type = "application/json"
    BY <1>1, <1>6 DEF Told
  <2>2. b = <<"json", Malformed>>
    BY <2>1 DEF Garbled
  <2>3. b[2] = Malformed
    BY <2>2
  <2>4. ErrorParser(g, b) = <<"error", "Parse response failed">>
    BY <1>2, <2>1, <2>3 DEF ErrorParser
  <2>5. Refused(g)
    <3>1. ErrorParser(g, b)[2] = "Parse response failed"
      <4>1. \A x : ErrorParser(g, b) = <<"error", x>> => ErrorParser(g, b)[2] = x
        OBVIOUS
      <4> QED
        BY <2>4, <4>1, Zenon
    <3>2. ErrorParser(g, b)[2] # "Unauthorized"
      BY <3>1
    <3> QED
      BY <1>4, <3>2, Zenon DEF Refused
  <2> QED
    BY <1>3, <1>4, <1>6, <2>3, <2>5 DEF g
<1> QED
  BY <1>5, <1>6

GatewayAnswer ==
    [status |-> 502, type |-> "text/html", encoding |-> "NONE", rawSize |-> FALSE,
     body |-> <<"text">>]

LEMMA GatewayTold == ~IsResponseOK(GatewayAnswer) /\ Refused(GatewayAnswer)
<1>1. GatewayAnswer.status = 502 /\ GatewayAnswer.type = "text/html"
  BY DEF GatewayAnswer
<1>2. \A body : ErrorParser(GatewayAnswer, body) = <<"error", Printed(502)>>
  BY <1>1 DEF ErrorParser
<1> QED
  BY <1>1, <1>2, StatusAssumption DEF IsResponseOK, MIN_HTTP_ERROR_CODE, Refused

-----------------------------------------------------------------------------
(* Puts *)

\* What a put that is granted is answered.
PutAnswer(pb, refused) ==
    IF pb
    THEN [failed_count   |-> Len(refused),
          failed_records |-> [k \in DOMAIN refused |->
              [index |-> refused[k] - 1, error_code |-> "InvalidShardOperation"]]]
    ELSE Doc([FailedRecordCount |-> Number(Len(refused)),
              FailedRecords |-> List([k \in DOMAIN refused |->
                  Doc([Index     |-> Number(refused[k] - 1),
                       ErrorCode |-> Text("InvalidShardOperation")])])])

LEMMA PubAnswers ==
    ASSUME NEW store, NEW r, NEW refused
    PROVE  \/ PubServed(store, r, refused) = Refusal(store, 400, "LimitExceeded")
           \/ \E new : PubServed(store, r, refused)
                         = Answer(new, PutAnswer(r.body[1] = "protobuf", refused))
  BY Zenon DEF PubServed, PutAnswer

LEMMA PbPutAsks ==
    ASSUME NEW c
    PROVE  LET r == Unpacked(Sent(PutPBRecordRequest(c), "POST"))
           IN  /\ r.method = "POST" /\ r.body[1] = "protobuf" /\ ActionOf(r) = "pub"
               /\ InPb(Sent(PutPBRecordRequest(c), "POST"))
<1> DEFINE request == PutPBRecordRequest(c)
           r == Unpacked(Sent(request, "POST"))
<1>1. /\ request.body = PbBody(PutRecordsMessage(c))
      /\ request.headers = PbHeaders("pub")
  BY DEF PutPBRecordRequest, Request
<1>2. /\ DOMAIN PbHeaders("pub") = {"x-datahub-request-action", "Content-Type"}
      /\ PbHeaders("pub")["x-datahub-request-action"] = "pub"
      /\ PbHeaders("pub")["Content-Type"] = "application/x-protobuf"
  BY DEF PbHeaders, Single, ++
<1>3. request.body[1] = "protobuf"
  BY <1>1 DEF PbBody
<1> HIDE DEF request
<1>4. /\ r.method = "POST" /\ r.body = request.body
      /\ r.headers = Sent(request, "POST").headers
  BY <1>3, BodySent
<1>5. /\ "x-datahub-request-action" \in DOMAIN Sent(request, "POST").headers
      /\ Sent(request, "POST").headers["x-datahub-request-action"] = "pub"
      /\ Sent(request, "POST").headers["Content-Type"] = "application/x-protobuf"
  BY <1>1, <1>2, HeadersSent DEF CommonHeaders
<1> HIDE DEF r
<1>6. ActionOf(r) = "pub"
  BY <1>4, <1>5 DEF ActionOf
<1>7. InPb(Sent(request, "POST"))
  BY <1>5 DEF InPb
<1> QED
  BY <1>3, <1>4, <1>6, <1>7 DEF r, request

LEMMA JsonPutAsks ==
    ASSUME NEW c
    PROVE  LET r == Unpacked(Sent(PutRecordRequest(c), "POST"))
           IN  /\ r.method = "POST" /\ r.body[1] # "protobuf" /\ ActionOf(r) = "pub"
               /\ ~InPb(Sent(PutRecordRequest(c), "POST"))
<1> DEFINE request == PutRecordRequest(c)
           r == Unpacked(Sent(request, "POST"))
           members == Single("Action", Text("pub"))
                      ++ [Records |-> List([i \in DOMAIN c.records |->
                                               RecordEntryToJson(c.records[i])])]
<1>1. /\ request.body = Json(members)
      /\ request.headers = <<>>
  BY DEF PutRecordRequest, ActionRequest, Request
<1>2. "Action" \in DOMAIN members /\ members.Action = Text("pub")
  BY DEF Single, ++
<1> HIDE DEF request, members
<1>3. request.body[1] = "json" /\ request.body[2][2] = members
  BY <1>1 DEF Json, Doc
<1>4. /\ r.method = "POST" /\ r.body = request.body
      /\ r.headers = Sent(request, "POST").headers
  BY <1>3, BodySent
<1>5. DOMAIN request.headers = {}
  BY <1>1
<1>6. /\ "x-datahub-request-action" \notin DOMAIN Sent(request, "POST").headers
      /\ Sent(request, "POST").headers["Content-Type"] = "application/json"
  BY <1>5, HeadersSent DEF CommonHeaders
<1> HIDE DEF r
<1>7. Members(r) = members
  BY <1>3, <1>4 DEF Members
<1>8. ActionOf(r) = "pub"
  <2>1. members.Action[2] = "pub"
    BY <1>2 DEF Text
  <2>2. ActionOf(r) = Members(r).Action[2]
    BY <1>2, <1>4, <1>6, <1>7 DEF ActionOf
  <2> QED
    BY <1>7, <2>1, <2>2
<1>9. ~InPb(Sent(request, "POST"))
  BY <1>6 DEF InPb
<1> QED
  BY <1>3, <1>4, <1>8, <1>9 DEF r, request

LEMMA PutSent ==
    ASSUME NEW c, NEW pb
    PROVE  Puts(pb, Sent(IF pb THEN PutPBRecordRequest(c) ELSE PutRecordRequest(c), "POST"))
<1>1. CASE pb
  BY <1>1, PbPutAsks DEF Puts
<1>2. CASE ~pb
  BY <1>2, JsonPutAsks DEF Puts
<1> QED
  BY <1>1, <1>2

LEMMA PutServed ==
    ASSUME NEW http, NEW pb, Puts(pb, http), http.signature = Signature(http, config.v4),
           NEW refused, Served(http, refused).status < 400
    PROVE  Served(http, refused).doc = PutAnswer(pb, refused)
<1> DEFINE r == Unpacked(http)
<1>1. /\ r.method = "POST" /\ ActionOf(r) = "pub"
      /\ IF pb THEN r.body[1] = "protobuf" ELSE r.body[1] # "protobuf"
  BY DEF Puts
<1>2. http.signature = Signature(http, config.v4)
  OBVIOUS
<1>3. Served(http, refused).status < 400
  OBVIOUS
<1>4. \/ Served(http, refused) = Refusal(docs, 400, "InvalidParameter")
      \/ Served(http, refused) = Handle(docs, r, refused)
  BY <1>2, ServedSigned
<1> HIDE DEF r
<1>5. ActionOf(r) # ""
  BY <1>1, Zenon
<1>6. Performed(docs, r, refused) = PubServed(docs, r, refused)
  BY <1>1 DEF Performed
<1>7. \/ Handle(docs, r, refused) = Refusal(docs, 400, "InvalidParameter")
      \/ Handle(docs, r, refused) = Refusal(docs, 404, "ResourceNotFound")
      \/ Handle(docs, r, refused) = PubServed(docs, r, refused)
  <2> DEFINE other  == IF ActionOf(r) = "" THEN Stored(docs, r) ELSE Performed(docs, r, refused)
             choice == CASE r.method = "GET" -> Get(docs, r)
                         [] r.method = "DELETE" -> Answer(Drop(docs, r.path), Doc(<<>>))
                         [] OTHER -> other
  <2>1. other = PubServed(docs, r, refused)
    BY <1>5, <1>6, Zenon
  <2> HIDE DEF other
  <2>2. choice = other
    BY <1>1
  <2>3. \/ Handle(docs, r, refused) = Refusal(docs, 400, "InvalidParameter")
        \/ Handle(docs, r, refused) = Refusal(docs, 404, "ResourceNotFound")
        \/ Handle(docs, r, refused) = choice
    BY Zenon DEF Handle, other
  <2> HIDE DEF choice
  <2> QED
    BY <2>1, <2>2, <2>3
<1>8. \A status, code : Refusal(docs, status, code).status = status
  BY DEF Refusal
<1>9. \E new : Served(http, refused) = Answer(new, PutAnswer(r.body[1] = "protobuf", refused))
  BY <1>3, <1>4, <1>7, <1>8, PubAnswers
<1>10. Served(http, refused).doc = PutAnswer(r.body[1] = "protobuf", refused)
  BY <1>9 DEF Answer
<1>11. PutAnswer(r.body[1] = "protobuf", refused) = PutAnswer(pb, refused)
  BY <1>1, Zenon DEF PutAnswer
<1> QED
  BY <1>10, <1>11

LEMMA Positions ==
    ASSUME NEW records, Len(records) \in Nat, DOMAIN records = 1 .. Len(records),
           NEW refused \in SetToAllKPermutations(DOMAIN records)
    PROVE  /\ Len(refused) \in Nat /\ DOMAIN refused = 1 .. Len(refused)
           /\ \A k \in DOMAIN refused : refused[k] \in Int
<1>1. PICK S \in SUBSET DOMAIN records : refused \in SetToSeqs(S)
  BY DEF SetToAllKPermutations
<1>2. IsFiniteSet(S)
  <2>1. IsFiniteSet(DOMAIN records)
    BY FS_Interval
  <2> QED
    BY <1>1, <2>1, FS_Subset
<1>3. Cardinality(S) \in Nat
  BY <1>2, FS_CardinalityType
<1>4. refused \in [1 .. Cardinality(S) -> S]
  BY <1>1, Zenon DEF SetToSeqs
<1>5. Len(refused) = Cardinality(S)
  <2> DEFINE n == Cardinality(S)
  <2>1. refused \in Seq(S)
    BY <1>3, <1>4
  <2>2. DOMAIN refused = 1 .. Len(refused) /\ Len(refused) \in Nat
    BY <2>1
  <2> QED
    BY <1>3, <1>4, <2>2
<1>6. S \subseteq Int
  BY <1>1
<1> QED
  BY <1>3, <1>4, <1>5, <1>6

\* The result of a put that is granted names the records that were refused,
\* in either encoding.
LEMMA PutResultTells ==
    ASSUME NEW records, NEW refused, NEW pb,
           Len(refused) \in Nat, DOMAIN refused = 1 .. Len(refused),
           \A k \in DOMAIN refused : refused[k] \in Int
    PROVE  FailedRecords(pb, records,
                         IF pb THEN PbBody(PutAnswer(pb, refused))
                         ELSE <<"json", PutAnswer(pb, refused)>>)
              = [k \in DOMAIN refused |-> records[refused[k]]]
<1> DEFINE body   == IF pb THEN PbBody(PutAnswer(pb, refused))
                     ELSE <<"json", PutAnswer(pb, refused)>>
           result == IF pb THEN PutPBRecordResult(body[2].message) ELSE PutRecordResult(body[2])
<1>1. /\ result.failedRecordCount = Len(refused)
      /\ DOMAIN result.errorEntries = DOMAIN refused
      /\ \A k \in DOMAIN refused : result.errorEntries[k].index = refused[k] - 1
  <2>1. CASE pb
    <3> DEFINE message == PutAnswer(pb, refused)
    <3>1. /\ message.failed_count = Len(refused)
          /\ DOMAIN message = {"failed_count", "failed_records"}
          /\ message.failed_records = [k \in DOMAIN refused |->
                [index |-> refused[k] - 1, error_code |-> "InvalidShardOperation"]]
      BY <2>1 DEF PutAnswer
    <3> HIDE DEF message
    <3>2. body[2].message = message
      BY <2>1 DEF message, PbBody, Frame
    <3>3. result = [failedRecordCount |-> message.failed_count,
                    errorEntries |-> [i \in DOMAIN message.failed_records |->
                                         MessageToErrorEntry(message.failed_records[i])]]
      BY <2>1, <3>1, <3>2 DEF PutPBRecordResult, Set
    <3> HIDE DEF result
    <3>4. \A i : MessageToErrorEntry(
              [index |-> refused[i] - 1, error_code |-> "InvalidShardOperation"]).index
                 = refused[i] - 1
      BY DEF MessageToErrorEntry, Set
    <3> QED
      BY <3>1, <3>3, <3>4
  <2>2. CASE ~pb
    <3> DEFINE doc  == PutAnswer(pb, refused)
               list == [k \in DOMAIN refused |->
                  Doc([Index     |-> Number(refused[k] - 1),
                       ErrorCode |-> Text("InvalidShardOperation")])]
    <3>1. doc = Doc([FailedRecordCount |-> Number(Len(refused)), FailedRecords |-> List(list)])
      BY <2>2 DEF PutAnswer
    <3> HIDE DEF doc, list
    <3>2. body[2] = doc
      BY <2>2 DEF doc
    <3>3. /\ ListMember(doc, "FailedRecords") = list
          /\ IntMember(doc, "FailedRecordCount", -1) = Len(refused)
      BY <3>1 DEF ListMember, IntMember, Member, Has, Doc, Number, List
    <3>4. result = [failedRecordCount |-> Len(refused),
                    errorEntries |-> [i \in DOMAIN list |-> JsonToErrorEntry(list[i])]]
      BY <2>2, <3>2, <3>3 DEF PutRecordResult
    <3> HIDE DEF result
    <3>5. \A n, text : JsonToErrorEntry(Doc([Index |-> Number(n), ErrorCode |-> text])).index = n
      BY DEF JsonToErrorEntry, IntMember, Member, Has, Doc, Number
    <3>6. DOMAIN list = DOMAIN refused
      BY DEF list
    <3>7. \A k \in DOMAIN list : JsonToErrorEntry(list[k]).index = refused[k] - 1
      BY <3>5 DEF list
    <3> QED
      BY <3>4, <3>6, <3>7
  <2> QED
    BY <2>1, <2>2
<1> HIDE DEF result
<1>2. FailedRecords(pb, records, body)
        = IF result.failedRecordCount > 0
          THEN [k \in DOMAIN result.errorEntries |-> records[result.errorEntries[k].index + 1]]
          ELSE <<>>
  BY Zenon DEF FailedRecords, result
<1> HIDE DEF body
<1>3. \A k \in DOMAIN refused : result.errorEntries[k].index + 1 = refused[k]
  <2> TAKE k \in DOMAIN refused
  <2>1. \A n \in Int : (n - 1) + 1 = n
    OBVIOUS
  <2>2. refused[k] \in Int /\ result.errorEntries[k].index = refused[k] - 1
    BY <1>1, Zenon
  <2> QED
    BY <2>1, <2>2, Zenon
<1>4. CASE Len(refused) > 0
  <2>1. result.failedRecordCount > 0
    BY <1>1, <1>4
  <2>2. FailedRecords(pb, records, body)
          = [k \in DOMAIN result.errorEntries |-> records[result.errorEntries[k].index + 1]]
    BY <1>2, <2>1, Zenon
  <2> QED
    BY <1>1, <1>3, <2>2 DEF body
<1>5. CASE Len(refused) = 0
  <2>1. ~(result.failedRecordCount > 0) /\ DOMAIN refused = {}
    BY <1>1, <1>5
  <2>2. FailedRecords(pb, records, body) = <<>>
    BY <1>2, <2>1, Zenon
  <2>3. [k \in DOMAIN refused |-> records[refused[k]]] = <<>>
    BY <2>1
  <2> QED
    BY <2>2, <2>3 DEF body
<1> QED
  BY <1>4, <1>5

-----------------------------------------------------------------------------
(* Every step keeps the invariant *)

LEMMA InitInv == Init => IInv
<1> SUFFICES ASSUME Init PROVE IInv
  OBVIOUS
<1>1. /\ wire = <<"idle">> /\ outcome = <<>> /\ call = <<>> /\ handle = HandleDefaults
      /\ final = FALSE /\ part \in Parts /\ config \in Configurations[part]
      /\ docs = Docs[part]
  BY DEF Init, Idle
<1>2. wire[1] = "idle"
  BY <1>1
<1>3. TypeOK
  BY <1>1, <1>2 DEF TypeOK
<1>4. OutcomesAreTrue
  BY <1>1, Zenon DEF OutcomesAreTrue, ErrorsAreTrue, FailedRecordsAreRefused, ShardsAreReady,
     Succeeded
<1>5. WireInv /\ RequestInv /\ AnswerInv
  BY <1>2 DEF WireInv, RequestInv, AnswerInv
<1>6. PutInv
  BY <1>2 DEF PutInv
<1>7. IsFiniteSet(DOMAIN docs)
  BY <1>1, DocsAssumption
<1> QED
  BY <1>3, <1>4, <1>5, <1>6, <1>7 DEF IInv

\* Putting a request on the wire.
LEMMA AttemptInv ==
    ASSUME IInv, NEW op, NEW c, NEW method, NEW request,
           AttemptOneRequest(op, c, method, request),
           op # "WaitForShardReady",
           op = "PutRecord" =>
               /\ Puts(config.protobuf, Sent(request, method))
               /\ Len(c.records) \in Nat /\ DOMAIN c.records = 1 .. Len(c.records)
    PROVE  IInv'
<1> DEFINE http == Sent(request, method)
<1>1. TypeOK /\ wire = Idle /\ IsFiniteSet(DOMAIN docs)
  BY Zenon DEF IInv, AttemptOneRequest
<1>2. handle = HandleDefaults
  BY <1>1 DEF TypeOK, Idle
<1>3. /\ call' = <<op, c>> /\ outcome' = <<>> /\ seen' = NotSeen
      /\ UNCHANGED <<part, config, final, docs>>
      /\ handle' = SetOptCodeForHttpMethod(handle, method)
      /\ wire' = <<"request", [SignRequest(BuildHttpRequest(request, method), config.v4)
                                EXCEPT !.method = MethodOf(handle')]>>
  BY Zenon DEF AttemptOneRequest
<1>4. wire' = <<"request", http>>
  BY <1>2, <1>3, MethodSent, Zenon DEF Sent
<1>5. http.signature = Signature(http, config.v4)
  BY SignedAsSent
<1>6. op = "PutRecord" => Puts(config.protobuf, http)
  OBVIOUS
<1> HIDE DEF http
<1>7. wire'[1] = "request" /\ wire'[2] = http /\ call'[1] = op /\ call'[2] = c
  BY <1>3, <1>4
<1>8. TypeOK'
  BY <1>1, <1>3, <1>7 DEF TypeOK
<1>9. OutcomesAreTrue'
  BY <1>3, Zenon DEF OutcomesAreTrue, ErrorsAreTrue, FailedRecordsAreRefused, ShardsAreReady,
     Succeeded
<1>10. WireInv' /\ AnswerInv'
  BY <1>7 DEF WireInv, AnswerInv
<1>11. RequestInv'
  <2>1. ~seen'.granted
    BY <1>3 DEF NotSeen
  <2> QED
    BY <1>3, <1>5, <1>6, <1>7, <2>1 DEF RequestInv
<1>12. PutInv'
  BY <1>7 DEF PutInv, Records
<1>13. IsFiniteSet(DOMAIN docs)'
  BY <1>1, <1>3
<1> QED
  BY <1>8, <1>9, <1>10, <1>11, <1>12, <1>13 DEF IInv

LEMMA BeginsInv == IInv /\ Begins => IInv'
<1> SUFFICES ASSUME IInv, Begins PROVE IInv'
  OBVIOUS
<1>1. PICK op, c, method, request :
          op \notin {"PutRecord", "WaitForShardReady"} /\ AttemptOneRequest(op, c, method, request)
  BY Zenon DEF Begins
<1>2. op # "PutRecord" /\ op # "WaitForShardReady"
  BY <1>1
<1> QED
  BY <1>1, <1>2, AttemptInv, Zenon

\* A call ends, and its caller hears the outcome.
LEMMA EndInv ==
    ASSUME IInv, NEW good, EndsWith(good), call[1] # "WaitForShardReady",
           good[1] \in {"ok", "stopped"} \/ good = LocalError,
           call[1] = "PutRecord" /\ wire[1] = "answer" /\ IsResponseOK(wire[2])
              /\ Decompress(wire[2]) # <<"undecodable">> /\ good[1] = "ok"
              => good[2].failedRecords = RefusedRecords
    PROVE  IInv'
<1>1. /\ TypeOK /\ WireInv /\ AnswerInv /\ PutInv /\ IsFiniteSet(DOMAIN docs)
  BY Zenon DEF IInv
<1>2. /\ wire[1] \in {"answer", "failed"} /\ outcome' = Heard(good) /\ handle' = HandleDefaults
      /\ wire' = <<"idle">> /\ UNCHANGED <<part, config, call, final, docs, seen>>
  BY Zenon DEF EndsWith, Idle
<1>3. wire'[1] = "idle"
  BY <1>2
<1>4. \/ outcome' = LocalError
      \/ /\ wire[1] = "answer" /\ Decompress(wire[2]) # <<"undecodable">>
         /\ IsResponseOK(wire[2]) /\ outcome' = good
      \/ /\ wire[1] = "answer" /\ Decompress(wire[2]) # <<"undecodable">>
         /\ ~IsResponseOK(wire[2]) /\ outcome' = ErrorParser(wire[2], Decompress(wire[2]))
  <2>1. wire # Failed => wire[1] = "answer"
    BY <1>1, <1>2 DEF WireInv
  <2> QED
    BY <1>2, <2>1, Zenon DEF Heard
<1>5. LocalError[1] = "error" /\ LocalError[2] = "LocalErrorCode"
  BY DEF LocalError
<1>6. \A r, body : ErrorParser(r, body)[1] = "error"
  <2>1. \A r, body : \E x : ErrorParser(r, body) = <<"error", x>>
    BY Zenon DEF ErrorParser
  <2> QED
    BY <2>1
<1>7. TypeOK'
  <2>1. outcome'[1] \in {"ok", "error", "stopped"}
    BY <1>4, <1>5, <1>6
  <2> QED
    BY <1>1, <1>2, <1>3, <2>1 DEF TypeOK, Idle
<1>8. ErrorsAreTrue'
  <2>1. CASE outcome' = LocalError
    BY <1>5, <2>1 DEF ErrorsAreTrue, Succeeded
  <2>2. CASE /\ wire[1] = "answer" /\ IsResponseOK(wire[2]) /\ outcome' = good
    <3>1. seen.granted
      BY <1>1, <2>2 DEF AnswerInv
    <3>2. outcome'[1] \in {"ok", "stopped"} \/ outcome' = LocalError
      BY <2>2
    <3> QED
      BY <1>2, <1>5, <3>1, <3>2 DEF ErrorsAreTrue, Succeeded
  <2>3. CASE /\ wire[1] = "answer" /\ Decompress(wire[2]) # <<"undecodable">>
             /\ ~IsResponseOK(wire[2]) /\ outcome' = ErrorParser(wire[2], Decompress(wire[2]))
    <3>1. ~seen.granted /\ outcome'[2] # "Unauthorized"
      BY <1>1, <2>3 DEF AnswerInv, Refused
    <3>2. outcome'[1] = "error"
      BY <1>6, <2>3
    <3> QED
      BY <1>2, <3>1, <3>2 DEF ErrorsAreTrue, Succeeded
  <2> QED
    BY <1>4, <2>1, <2>2, <2>3
<1>9. FailedRecordsAreRefused'
  <2>1. SUFFICES ASSUME Succeeded', call'[1] = "PutRecord"
                 PROVE  outcome'[2].failedRecords = RefusedRecords'
    BY DEF FailedRecordsAreRefused, RefusedRecords, Records
  <2>2. outcome'[1] = "ok"
    BY <2>1 DEF Succeeded
  <2>3. /\ wire[1] = "answer" /\ Decompress(wire[2]) # <<"undecodable">>
        /\ IsResponseOK(wire[2]) /\ outcome' = good
    BY <1>4, <1>5, <1>6, <2>2
  <2>4. outcome'[2].failedRecords = RefusedRecords
    BY <1>2, <2>1, <2>2, <2>3
  <2>5. RefusedRecords' = RefusedRecords
    BY <1>2 DEF RefusedRecords, Records
  <2> QED
    BY <2>4, <2>5
<1>10. ShardsAreReady'
  BY <1>2 DEF ShardsAreReady
<1>11. WireInv' /\ RequestInv' /\ AnswerInv'
  BY <1>3 DEF WireInv, RequestInv, AnswerInv
<1>12. PutInv'
  BY <1>3 DEF PutInv
<1>13. IsFiniteSet(DOMAIN docs)'
  BY <1>1, <1>2
<1> QED
  BY <1>7, <1>8, <1>9, <1>10, <1>11, <1>12, <1>13 DEF IInv, OutcomesAreTrue

LEMMA EndsInv == IInv /\ Ends => IInv'
<1> SUFFICES ASSUME IInv, Ends PROVE IInv'
  OBVIOUS
<1>1. PICK good : /\ good[1] \in {"ok", "stopped"} \/ good = LocalError
                  /\ EndsWith(good)
  BY Zenon DEF Ends
<1>2. call[1] # "PutRecord" /\ call[1] # "WaitForShardReady"
  BY DEF Ends
<1> QED
  BY <1>1, <1>2, EndInv, Zenon

\* What a put returns when the answer is good.
PutGood ==
    LET body == Decompress(wire[2])
    IN  IF config.protobuf
        THEN IF ~ParsePbFromArrayBuff(body[2]) THEN LocalError
             ELSE Returns(WithFailedRecords(PutPBRecordResult(body[2].message)))
        ELSE IF body[2] = Malformed THEN LocalError
             ELSE Returns(WithFailedRecords(PutRecordResult(body[2])))

PutRequestOf(pb, c) == IF pb THEN PutPBRecordRequest(c) ELSE PutRecordRequest(c)

LEMMA PutShape ==
    ASSUME PutRecord \/ PutRecordInPb
    PROVE  /\ "PutRecord" \in DOMAIN Calls[part]
           /\ \/ \E c \in Calls[part]["PutRecord"] :
                    AttemptOneRequest("PutRecord", c ++ <<>>, "POST",
                                      PutRequestOf(config.protobuf, c ++ <<>>))
              \/ call[1] = "PutRecord" /\ EndsWith(PutGood)
<1> USE DEF Exchange, Finish, Answered, ParseResponse, EndsWith, Heard, ReleaseCurlHandle, service
<1>1. CASE PutRecord
  <2>1. ~config.protobuf
    BY <1>1 DEF PutRecord
  <2>2. PutGood = IF Decompress(wire[2])[2] = Malformed THEN LocalError
                  ELSE Returns(WithFailedRecords(PutRecordResult(Decompress(wire[2])[2])))
    BY <2>1, Zenon DEF PutGood
  <2>3. \A c : PutRequestOf(config.protobuf, c) = PutRecordRequest(c)
    BY <2>1, Zenon DEF PutRequestOf
  <2> QED
    BY <1>1, <2>2, <2>3 DEF PutRecord, Send, Invoke
<1>2. CASE PutRecordInPb
  <2>1. config.protobuf
    BY <1>2 DEF PutRecordInPb
  <2>2. PutGood = IF ~ParsePbFromArrayBuff(Decompress(wire[2])[2]) THEN LocalError
                  ELSE Returns(WithFailedRecords(
                                   PutPBRecordResult(Decompress(wire[2])[2].message)))
    BY <2>1, Zenon DEF PutGood
  <2>3. \A c : PutRequestOf(config.protobuf, c) = PutPBRecordRequest(c)
    BY <2>1, Zenon DEF PutRequestOf
  <2> QED
    BY <1>2, <2>2, <2>3 DEF PutRecordInPb, SendPb, Invoke
<1> QED
  BY <1>1, <1>2

LEMMA FailedRecordsOf ==
    ASSUME NEW result, "failedRecords" \notin DOMAIN result
    PROVE  WithFailedRecords(result).failedRecords
              = IF result.failedRecordCount > 0
                THEN [k \in DOMAIN result.errorEntries |->
                         Records[result.errorEntries[k].index + 1]]
                ELSE <<>>
<1> DEFINE failed == IF result.failedRecordCount > 0
                     THEN [k \in DOMAIN result.errorEntries |->
                              call[2].records[result.errorEntries[k].index + 1]]
                     ELSE <<>>
<1>1. WithFailedRecords(result) = result ++ [failedRecords |-> failed]
  BY Zenon DEF WithFailedRecords
<1> HIDE DEF failed
<1>2. (result ++ [failedRecords |-> failed]).failedRecords = failed
  BY DEF ++
<1> QED
  BY <1>1, <1>2, Zenon DEF failed, Records

LEMMA PutInvariant == IInv /\ (PutRecord \/ PutRecordInPb) => IInv'
<1> SUFFICES ASSUME IInv, PutRecord \/ PutRecordInPb PROVE IInv'
  OBVIOUS
<1>0. TypeOK /\ AnswerInv
  BY Zenon DEF IInv
<1>1. "PutRecord" \in DOMAIN Calls[part]
  BY PutShape, Zenon
<1>2. CASE \E c \in Calls[part]["PutRecord"] :
              AttemptOneRequest("PutRecord", c ++ <<>>, "POST",
                                PutRequestOf(config.protobuf, c ++ <<>>))
  <2>1. PICK c \in Calls[part]["PutRecord"] :
            AttemptOneRequest("PutRecord", c ++ <<>>, "POST",
                              PutRequestOf(config.protobuf, c ++ <<>>))
    BY <1>2, Zenon
  <2>2. /\ "records" \in DOMAIN c
        /\ Len(c.records) \in Nat /\ DOMAIN c.records = 1 .. Len(c.records)
    <3>1. part \in Parts
      BY <1>0 DEF TypeOK
    <3> QED
      BY <1>1, <2>1, <3>1, RecordsAssumption
  <2> DEFINE args == c ++ <<>>
  <2>3. args.records = c.records
    BY <2>2, MergedFunctions
  <2> HIDE DEF args
  <2>4. Len(args.records) \in Nat /\ DOMAIN args.records = 1 .. Len(args.records)
    BY <2>2, <2>3
  <2>5. Puts(config.protobuf, Sent(PutRequestOf(config.protobuf, args), "POST"))
    BY PutSent, Zenon DEF PutRequestOf
  <2>6. AttemptOneRequest("PutRecord", args, "POST", PutRequestOf(config.protobuf, args))
    BY <2>1, Zenon DEF args
  <2>7. "PutRecord" # "WaitForShardReady"
    OBVIOUS
  <2> QED
    BY <2>4, <2>5, <2>6, <2>7, AttemptInv, Zenon
<1>3. CASE call[1] = "PutRecord" /\ EndsWith(PutGood)
  <2> DEFINE body   == Decompress(wire[2])
             result == IF config.protobuf THEN PutPBRecordResult(body[2].message)
                       ELSE PutRecordResult(body[2])
             parsed == IF config.protobuf THEN ParsePbFromArrayBuff(body[2])
                       ELSE body[2] # Malformed
  <2>1. \/ ~parsed /\ PutGood = LocalError
        \/ parsed /\ PutGood = Returns(WithFailedRecords(result))
    BY SMT DEF PutGood
  <2>2. "failedRecords" \notin DOMAIN result
    BY DEF PutPBRecordResult, PutRecordResult
  <2>3. wire[1] = "answer" /\ IsResponseOK(wire[2]) /\ body # <<"undecodable">> /\ parsed
           => WithFailedRecords(result).failedRecords = RefusedRecords
    <3>1. SUFFICES ASSUME wire[1] = "answer", IsResponseOK(wire[2]), body # <<"undecodable">>,
                          parsed
                   PROVE  WithFailedRecords(result).failedRecords = RefusedRecords
      OBVIOUS
    <3>2. PutTold(config.protobuf, Records, seen.refused, body)
      BY <1>0, <1>3, <3>1 DEF AnswerInv
    <3>3. FailedRecords(config.protobuf, Records, body) = RefusedRecords
      BY <3>1, <3>2, Zenon DEF PutTold, RefusedRecords
    <3>4. FailedRecords(config.protobuf, Records, body)
            = IF result.failedRecordCount > 0
              THEN [k \in DOMAIN result.errorEntries |->
                       Records[result.errorEntries[k].index + 1]]
              ELSE <<>>
      BY Zenon DEF FailedRecords
    <3> HIDE DEF result
    <3>5. WithFailedRecords(result).failedRecords
            = IF result.failedRecordCount > 0
              THEN [k \in DOMAIN result.errorEntries |->
                       Records[result.errorEntries[k].index + 1]]
              ELSE <<>>
      BY <2>2, FailedRecordsOf
    <3> QED
      BY <3>3, <3>4, <3>5, Zenon
  <2> HIDE DEF body, result, parsed
  <2>4. PutGood[1] = "ok" \/ PutGood = LocalError
    BY <2>1 DEF Returns
  <2>5. LocalError[1] # "ok"
    BY DEF LocalError
  <2>6. PutGood[1] = "ok" => parsed /\ PutGood[2] = WithFailedRecords(result)
    BY <2>1, <2>5 DEF Returns
  <2> HIDE DEF PutGood
  <2>7. call[1] # "WaitForShardReady"
    BY <1>3
  <2>8. wire[1] = "answer" /\ IsResponseOK(wire[2]) /\ Decompress(wire[2]) # <<"undecodable">>
           /\ PutGood[1] = "ok" => PutGood[2].failedRecords = RefusedRecords
    BY <2>3, <2>6 DEF body
  <2>9. PutGood[1] \in {"ok", "stopped"} \/ PutGood = LocalError
    BY <2>4
  <2> QED
    BY <1>3, <2>7, <2>8, <2>9, EndInv, Zenon
<1> QED
  BY <1>2, <1>3, PutShape, Zenon

LEMMA PutByShardInv == IInv /\ PutRecordByShard => IInv'
<1> SUFFICES ASSUME IInv, PutRecordByShard PROVE IInv'
  OBVIOUS
<1>1. TypeOK /\ IsFiniteSet(DOMAIN docs)
  BY Zenon DEF IInv
<1>2. PICK c : call' = <<"PutRecordByShard", c>>
  BY Zenon DEF PutRecordByShard
<1>3. /\ wire = <<"idle">> /\ outcome' = <<"error", "LocalErrorCode">>
      /\ UNCHANGED <<part, config, handle, wire, final, docs>>
  BY Zenon DEF PutRecordByShard, Idle, LocalError
<1>4. call'[1] = "PutRecordByShard" /\ wire'[1] = "idle"
  BY <1>2, <1>3
<1>5. outcome'[1] = "error" /\ outcome'[2] = "LocalErrorCode"
  BY <1>3
<1>6. TypeOK'
  BY <1>1, <1>3, <1>5 DEF TypeOK, Idle
<1>7. OutcomesAreTrue'
  BY <1>4, <1>5 DEF OutcomesAreTrue, ErrorsAreTrue, FailedRecordsAreRefused, ShardsAreReady,
     Succeeded
<1>8. WireInv' /\ RequestInv' /\ AnswerInv' /\ PutInv'
  BY <1>4 DEF WireInv, RequestInv, AnswerInv, PutInv
<1>9. IsFiniteSet(DOMAIN docs)'
  BY <1>1, <1>3
<1> QED
  BY <1>6, <1>7, <1>8, <1>9 DEF IInv

LEMMA WaitInv == IInv /\ WaitForShardReady => IInv'
<1> SUFFICES ASSUME IInv, WaitForShardReady PROVE IInv'
  OBVIOUS
<1>0. /\ TypeOK /\ OutcomesAreTrue /\ WireInv /\ RequestInv /\ AnswerInv /\ PutInv
      /\ IsFiniteSet(DOMAIN docs)
  BY Zenon DEF IInv
<1>1. CASE \E c \in Calls[part]["WaitForShardReady"], timeUp \in BOOLEAN :
            /\ wire = Idle
            /\ call' = <<"WaitForShardReady", c>>
            /\ final' = timeUp
            /\ wire' = <<"listing">>
            /\ outcome' = <<>>
            /\ UNCHANGED <<part, config, handle>>
            /\ UNCHANGED service
  <2>1. PICK c : call' = <<"WaitForShardReady", c>>
    BY <1>1
  <2>2. /\ wire = <<"idle">> /\ final' \in BOOLEAN /\ wire' = <<"listing">> /\ outcome' = <<>>
        /\ UNCHANGED <<part, config, handle, docs>>
    BY <1>1 DEF service, Idle
  <2>3. call'[1] = "WaitForShardReady" /\ wire'[1] = "listing" /\ wire[1] = "idle"
    BY <2>1, <2>2
  <2>4. TypeOK'
    BY <1>0, <2>2, <2>3 DEF TypeOK
  <2>5. OutcomesAreTrue'
    BY <2>2, Zenon DEF OutcomesAreTrue, ErrorsAreTrue, FailedRecordsAreRefused, ShardsAreReady,
       Succeeded
  <2>6. WireInv' /\ RequestInv' /\ AnswerInv' /\ PutInv'
    BY <2>3 DEF WireInv, RequestInv, AnswerInv, PutInv
  <2>7. IsFiniteSet(DOMAIN docs)'
    BY <1>0, <2>2
  <2> QED
    BY <2>4, <2>5, <2>6, <2>7 DEF IInv
<1>2. CASE /\ wire = <<"listing">>
           /\ handle' = SetOptCodeForHttpMethod(handle, "GET")
           /\ wire' = <<"request",
                  [SignRequest(BuildHttpRequest(ListShardRequest(call[2]), "GET"), config.v4)
                   EXCEPT !.method = MethodOf(handle')]>>
           /\ UNCHANGED <<part, config, call, final, outcome>>
           /\ UNCHANGED service
  <2> DEFINE http == Sent(ListShardRequest(call[2]), "GET")
  <2>1. wire[1] = "listing"
    BY <1>2
  <2>2. handle = HandleDefaults
    BY <1>0, <2>1 DEF TypeOK
  <2>3. wire' = <<"request", http>>
    BY <1>2, <2>2, MethodSent, Zenon DEF Sent
  <2>4. Lists(call[2], http) /\ http.signature = Signature(http, config.v4)
    BY ListSent, SignedAsSent
  <2> HIDE DEF http
  <2>5. wire'[1] = "request" /\ wire'[2] = http
    BY <2>3
  <2>6. outcome = <<>> /\ call[1] = "WaitForShardReady"
    BY <1>0, <2>1 DEF TypeOK, WireInv, Idle
  <2>7. /\ UNCHANGED <<part, config, call, final, docs>>
        /\ outcome' = <<>>
    BY <1>2, <2>6 DEF service
  <2>8. TypeOK'
    BY <1>0, <2>5, <2>7 DEF TypeOK
  <2>9. OutcomesAreTrue'
    BY <2>7, Zenon DEF OutcomesAreTrue, ErrorsAreTrue, FailedRecordsAreRefused, ShardsAreReady,
       Succeeded
  <2>10. RequestInv'
    BY <2>4, <2>5, <2>6, <2>7 DEF RequestInv
  <2>11. WireInv' /\ AnswerInv' /\ PutInv'
    BY <2>5, <2>6, <2>7 DEF WireInv, AnswerInv, PutInv
  <2>12. IsFiniteSet(DOMAIN docs)'
    BY <1>0, <2>7
  <2> QED
    BY <2>8, <2>9, <2>10, <2>11, <2>12 DEF IInv
<1>3. CASE /\ Answered("WaitForShardReady")
           /\ handle' = ReleaseCurlHandle(handle)
           /\ IF IsShardLoadCompleted
              THEN outcome' = <<"ok", Nothing>> /\ wire' = Idle /\ final' = FALSE
              ELSE IF final
              THEN outcome' = <<"error", "ServiceErrorCode">> /\ wire' = Idle /\ final' = FALSE
              ELSE outcome' = <<>> /\ wire' = <<"listing">> /\ final' \in BOOLEAN
           /\ UNCHANGED <<part, config, call>>
           /\ UNCHANGED service
  <2>1. /\ wire[1] \in {"answer", "failed"} /\ call[1] = "WaitForShardReady"
        /\ handle' = HandleDefaults /\ final' \in BOOLEAN
        /\ UNCHANGED <<part, config, call, docs>>
    BY <1>3 DEF Answered, ReleaseCurlHandle, service
  <2>2. \/ IsShardLoadCompleted /\ outcome' = <<"ok", Nothing>> /\ wire' = <<"idle">>
        \/ outcome' = <<"error", "ServiceErrorCode">> /\ wire' = <<"idle">>
        \/ outcome' = <<>> /\ wire' = <<"listing">>
    BY <1>3 DEF Idle
  <2>3. wire'[1] \in {"idle", "listing"} /\ (outcome' # <<>> => wire' = <<"idle">>)
    BY <2>2
  <2>4. TypeOK'
    <3>1. outcome' # <<>> => outcome'[1] \in {"ok", "error"}
      BY <2>2
    <3> QED
      BY <1>0, <2>1, <2>3, <3>1 DEF TypeOK, Idle
  <2>5. ErrorsAreTrue' /\ FailedRecordsAreRefused'
    BY <2>1 DEF ErrorsAreTrue, FailedRecordsAreRefused, Succeeded
  <2>6. IsShardLoadCompleted => Completed(wire[2]) /\ wire[1] = "answer"
    <3>1. SUFFICES ASSUME IsShardLoadCompleted PROVE Completed(wire[2]) /\ wire[1] = "answer"
      OBVIOUS
    <3> DEFINE body   == Decompress(wire[2])
               listed == IF wire = Failed THEN LocalError
                         ELSE IF body = <<"undecodable">> THEN LocalError
                         ELSE IF ~IsResponseOK(wire[2]) THEN ErrorParser(wire[2], body)
                         ELSE IF body[2] = Malformed THEN LocalError
                         ELSE Returns(ListShardResult(body[2]))
    <3>2. /\ listed[1] = "ok"
          /\ \A i \in DOMAIN listed[2] : listed[2][i].state \in {"ACTIVE", "CLOSED"}
      BY <3>1, Zenon DEF IsShardLoadCompleted, ParseResponse
    <3>3. LocalError[1] = "error" /\ ErrorParser(wire[2], body)[1] = "error"
      <4>1. \E x : ErrorParser(wire[2], body) = <<"error", x>>
        BY Zenon DEF ErrorParser
      <4> QED
        BY <4>1 DEF LocalError
    <3>4. /\ wire # Failed /\ body # <<"undecodable">> /\ IsResponseOK(wire[2])
          /\ body[2] # Malformed
      <4> HIDE DEF body
      <4>1. "ok" # "error"
        OBVIOUS
      <4> QED
        BY <3>2, <3>3, <4>1, Zenon
    <3>5. listed = Returns(ListShardResult(body[2]))
      BY <3>4, Zenon
    <3> HIDE DEF listed, body
    <3>6. \A i \in DOMAIN ListShardResult(body[2]) :
              ListShardResult(body[2])[i].state \in {"ACTIVE", "CLOSED"}
      BY <3>2, <3>5 DEF Returns
    <3>7. wire[1] = "answer"
      BY <1>0, <2>1, <3>4 DEF WireInv
    <3> QED
      BY <3>4, <3>6, <3>7, Zenon DEF Completed, body
  <2>7. ShardsAreReady'
    <3>1. outcome' # <<>> /\ outcome'[1] = "ok" => IsShardLoadCompleted
      BY <2>2
    <3>2. IsShardLoadCompleted => Ready
      BY <1>0, <2>1, <2>6 DEF AnswerInv
    <3>3. Ready' = Ready
      BY <2>1 DEF Ready
    <3> QED
      BY <3>1, <3>2, <3>3 DEF ShardsAreReady, Ready
  <2>8. WireInv' /\ RequestInv' /\ AnswerInv'
    BY <2>1, <2>3 DEF WireInv, RequestInv, AnswerInv
  <2>9. PutInv'
    BY <2>1 DEF PutInv
  <2>10. IsFiniteSet(DOMAIN docs)'
    BY <1>0, <2>1
  <2> QED
    BY <2>4, <2>5, <2>7, <2>8, <2>9, <2>10 DEF IInv, OutcomesAreTrue
<1> QED
  BY <1>1, <1>2, <1>3, Zenon DEF WaitForShardReady

\* While a request is on the wire, a step of the service or of the network
\* leaves the call, and what the caller has heard, as they are.
LEMMA UnderWay ==
    ASSUME IInv, wire[1] = "request", Unmoved,
           wire'[1] \in {"answer", "failed"}, WireInv', AnswerInv', IsFiniteSet(DOMAIN docs')
    PROVE  IInv'
<1>1. TypeOK /\ PutInv
  BY Zenon DEF IInv
<1>2. /\ UNCHANGED <<part, config, call, final>> /\ outcome' = <<>>
  BY <1>1 DEF Unmoved, TypeOK, Idle
<1>3. TypeOK'
  BY <1>1, <1>2 DEF TypeOK
<1>4. OutcomesAreTrue'
  BY <1>2, Zenon DEF OutcomesAreTrue, ErrorsAreTrue, FailedRecordsAreRefused, ShardsAreReady,
     Succeeded
<1>5. RequestInv'
  BY DEF RequestInv
<1>6. PutInv'
  BY DEF PutInv
<1> QED
  BY <1>3, <1>4, <1>5, <1>6, Zenon DEF IInv

LEMMA RequestServed ==
    ASSUME IInv, wire[1] = "request", NEW refused, HandleRequest(refused)
    PROVE  LET answer == Served(wire[2], refused)
           IN  /\ docs' = answer.docs /\ IsFiniteSet(DOMAIN docs')
               /\ seen'.granted = (answer.status < 400) /\ seen'.refused = refused
               /\ wire[2].signature = Signature(wire[2], config.v4)
               /\ IsFiniteSet(DOMAIN docs)
<1> DEFINE answer == Served(wire[2], refused)
<1>1. RequestInv /\ IsFiniteSet(DOMAIN docs)
  BY Zenon DEF IInv
<1>2. wire[2].signature = Signature(wire[2], config.v4)
  BY <1>1 DEF RequestInv
<1>3. Proper(docs, answer)
  BY <1>1, <1>2, ServedProper
<1>4. /\ docs' = answer.docs
      /\ \E now : seen' = [granted |-> answer.status < 400, objects |-> now, refused |-> refused]
  BY Zenon DEF HandleRequest
<1> HIDE DEF answer
<1>5. IsFiniteSet(DOMAIN answer.docs)
  <2>1. CASE answer.status = 200 /\ IsFiniteSet(DOMAIN answer.docs)
    BY <2>1
  <2>2. CASE \E status, code : answer = Refusal(docs, status, code)
    <3>1. answer.docs = docs
      BY <2>2 DEF Refusal
    <3> QED
      BY <1>1, <3>1
  <2>3. \/ answer.status = 200 /\ IsFiniteSet(DOMAIN answer.docs)
        \/ \E status, code : answer = Refusal(docs, status, code)
    <3>1. \/ answer.status = 200 /\ IsFiniteSet(DOMAIN answer.docs)
          \/ \E status \in {400, 404, 409, 500}, code \in RefusalCodes :
                answer = Refusal(docs, status, code)
      BY <1>3 DEF Proper
    <3> QED
      BY <3>1
  <2> QED
    BY <2>1, <2>2, <2>3
<1>6. seen'.granted = (answer.status < 400) /\ seen'.refused = refused
  BY <1>4
<1> QED
  BY <1>1, <1>2, <1>4, <1>5, <1>6 DEF answer

LEMMA ServeInv == IInv /\ Serve => IInv'
<1> SUFFICES ASSUME IInv, Serve PROVE IInv'
  OBVIOUS
<1>1. PICK refused \in Refusable :
          /\ HandleRequest(refused)
          /\ wire' \in {<<"answer", r>> : r \in Response(wire[2], Served(wire[2], refused))}
  BY Zenon DEF Serve
<1> DEFINE http == wire[2]
           answer == Served(http, refused)
<1>2. PICK r \in Response(http, answer) : wire' = <<"answer", r>>
  BY <1>1
<1>3. wire[1] = "request" /\ Unmoved
  BY Zenon DEF Serve
<1>4. /\ docs' = answer.docs /\ IsFiniteSet(DOMAIN docs')
      /\ seen'.granted = (answer.status < 400) /\ seen'.refused = refused
      /\ http.signature = Signature(http, config.v4) /\ IsFiniteSet(DOMAIN docs)
  BY <1>1, <1>3, RequestServed
<1>5. RequestInv /\ PutInv
  BY Zenon DEF IInv
<1>6. /\ call[1] = "WaitForShardReady" => Lists(call[2], http)
      /\ call[1] = "PutRecord" => Puts(config.protobuf, http)
  BY <1>3, <1>5 DEF RequestInv
<1>7. config' = config /\ call' = call
  BY <1>3 DEF Unmoved
<1> HIDE DEF http
<1>8. IsResponseOK(r) <=> answer.status < 400
  BY StatusSeen
<1>9. ~IsResponseOK(r) => Refused(r)
  BY <1>4, RefusalTold
<1>10. call[1] = "WaitForShardReady" /\ Completed(r) => Ready'
  <2>1. SUFFICES ASSUME call[1] = "WaitForShardReady", Completed(r) PROVE Ready'
    OBVIOUS
  <2>2. Moving(docs) \cap Children(docs, ShardsPath(call[2])) = {}
    BY <1>4, <1>6, <2>1, ReadyWhenCompleted
  <2>3. docs' = docs
    <3>1. /\ \A status, code : Refusal(docs, status, code).docs = docs
          /\ ShardsListed(call[2]).docs = docs
      BY DEF Refusal, ShardsListed, Answer
    <3>2. \/ answer = ShardsListed(call[2])
          \/ \E status \in {400, 404}, code \in RefusalCodes : answer = Refusal(docs, status, code)
      BY <1>4, <1>6, <2>1, ListServed
    <3> HIDE DEF answer
    <3> QED
      BY <1>4, <3>1, <3>2
  <2> QED
    BY <1>7, <2>2, <2>3 DEF Ready
<1>11. call[1] = "PutRecord" /\ IsResponseOK(r)
          => \/ Decompress(r) = <<"undecodable">>
             \/ PutTold(config.protobuf, Records, refused, Decompress(r))
  <2>1. SUFFICES ASSUME call[1] = "PutRecord", IsResponseOK(r), Decompress(r) # <<"undecodable">>
                 PROVE  PutTold(config.protobuf, Records, refused, Decompress(r))
    OBVIOUS
  <2>2. answer.doc = PutAnswer(config.protobuf, refused)
    BY <1>4, <1>6, <1>8, <2>1, PutServed
  <2>3. Decompress(r) = Told(http, answer)
    BY <2>1, ResponseIs
  <2> HIDE DEF answer
  <2>4. Told(http, answer) = IF config.protobuf THEN PbBody(PutAnswer(config.protobuf, refused))
                              ELSE <<"json", PutAnswer(config.protobuf, refused)>>
    BY <1>6, <1>8, <2>1, <2>2 DEF Told, Puts
  <2>5. Len(Records) \in Nat /\ DOMAIN Records = 1 .. Len(Records)
    BY <1>3, <1>5, <2>1 DEF PutInv
  <2>6. refused \in SetToAllKPermutations(DOMAIN Records)
    BY <1>1, <2>1 DEF Refusable, Records
  <2>7. FailedRecords(config.protobuf, Records, Decompress(r))
           = [k \in DOMAIN refused |-> Records[refused[k]]]
    <3>1. /\ Len(refused) \in Nat /\ DOMAIN refused = 1 .. Len(refused)
          /\ \A k \in DOMAIN refused : refused[k] \in Int
      <4> HIDE DEF Records
      <4> QED
        BY <2>5, <2>6, Positions
    <3> DEFINE body == IF config.protobuf THEN PbBody(PutAnswer(config.protobuf, refused))
                       ELSE <<"json", PutAnswer(config.protobuf, refused)>>
    <3>2. FailedRecords(config.protobuf, Records, body)
             = [k \in DOMAIN refused |-> Records[refused[k]]]
      <4>1. \A records, p :
               FailedRecords(p, records, IF p THEN PbBody(PutAnswer(p, refused))
                                         ELSE <<"json", PutAnswer(p, refused)>>)
                  = [k \in DOMAIN refused |-> records[refused[k]]]
        BY <3>1, PutResultTells
      <4> QED
        BY <4>1
    <3>3. Decompress(r) = body
      BY <2>3, <2>4, Zenon
    <3> HIDE DEF body
    <3> QED
      BY <3>2, <3>3
  <2> QED
    BY <2>7, Zenon DEF PutTold
<1>12. wire'[1] = "answer" /\ wire'[2] = r
  BY <1>2
<1>13. AnswerInv'
  <2>1. (call' # <<>> /\ call'[1] = "PutRecord") => Records' = Records
    BY <1>7 DEF Records
  <2> HIDE DEF answer
  <2> QED
    BY <1>4, <1>7, <1>8, <1>9, <1>10, <1>11, <1>12 DEF AnswerInv, Records
<1>14. WireInv'
  BY <1>12 DEF WireInv
<1> QED
  BY <1>3, <1>4, <1>12, <1>13, <1>14, UnderWay

LEMMA ServeGarbledInv == IInv /\ ServeGarbled => IInv'
<1> SUFFICES ASSUME IInv, ServeGarbled PROVE IInv'
  OBVIOUS
<1> DEFINE http == wire[2]
           answer == Served(http, <<>>)
<1>1. HandleRequest(<<>>) /\ wire[1] = "request" /\ Unmoved
  BY Zenon DEF ServeGarbled
<1>2. PICK r \in Response(http, answer) :
          r.encoding = "NONE"
          /\ wire' \in {<<"answer", [r EXCEPT !.body = b]>> : b \in Garbled(r.body)}
  BY Zenon DEF ServeGarbled
<1>3. PICK b \in Garbled(r.body) : wire' = <<"answer", [r EXCEPT !.body = b]>>
  BY <1>2
<1>4. /\ docs' = answer.docs /\ IsFiniteSet(DOMAIN docs')
      /\ seen'.granted = (answer.status < 400)
  BY <1>1, RequestServed
<1>5. RequestInv
  BY Zenon DEF IInv
<1>6. /\ call[1] = "WaitForShardReady" => Lists(call[2], http)
      /\ call[1] = "PutRecord" => Puts(config.protobuf, http)
  BY <1>1, <1>5 DEF RequestInv
<1>7. config' = config /\ call' = call
  BY <1>1 DEF Unmoved
<1> DEFINE g == [r EXCEPT !.body = b]
<1> HIDE DEF http, answer
<1>8. /\ IsResponseOK(g) <=> answer.status < 400
      /\ Decompress(g) = b
      /\ IF answer.status < 400 /\ InPb(http) THEN ~ParsePbFromArrayBuff(b[2])
         ELSE b[2] = Malformed
      /\ ~IsResponseOK(g) => Refused(g)
  BY <1>2, GarbledIs
<1>9. wire' = <<"answer", g>>
  BY <1>3
<1> HIDE DEF g
<1>10. call[1] = "WaitForShardReady" => ~Completed(g)
  BY <1>6, <1>8 DEF Completed, Lists
<1>11. call[1] = "PutRecord" /\ IsResponseOK(g)
          => \A records, refused : PutTold(config.protobuf, records, refused, Decompress(g))
  <2>1. SUFFICES ASSUME call[1] = "PutRecord", IsResponseOK(g), NEW records, NEW refused
                 PROVE  PutTold(config.protobuf, records, refused, Decompress(g))
    OBVIOUS
  <2>2. IF config.protobuf THEN ~ParsePbFromArrayBuff(b[2]) ELSE b[2] = Malformed
    BY <1>6, <1>8, <2>1 DEF Puts
  <2> QED
    BY <1>8, <2>2 DEF PutTold
<1>12. wire'[1] = "answer" /\ wire'[2] = g
  BY <1>9
<1>13. AnswerInv'
  BY <1>4, <1>7, <1>8, <1>10, <1>11, <1>12 DEF AnswerInv
<1>14. WireInv'
  BY <1>12 DEF WireInv
<1> QED
  BY <1>1, <1>4, <1>12, <1>13, <1>14, UnderWay

LEMMA LoseRequestInv == IInv /\ LoseRequest => IInv'
<1> SUFFICES ASSUME IInv, LoseRequest PROVE IInv'
  OBVIOUS
<1>1. wire[1] = "request" /\ wire' = Failed /\ Unmoved /\ docs' = docs
  BY DEF LoseRequest, service
<1>2. wire'[1] = "failed"
  BY <1>1 DEF Failed
<1>3. IsFiniteSet(DOMAIN docs')
  BY <1>1 DEF IInv
<1>4. WireInv' /\ AnswerInv'
  BY <1>1, <1>2 DEF WireInv, AnswerInv
<1> QED
  BY <1>1, <1>2, <1>3, <1>4, UnderWay

LEMMA LoseAnswerInv == IInv /\ LoseAnswer => IInv'
<1> SUFFICES ASSUME IInv, LoseAnswer PROVE IInv'
  OBVIOUS
<1>1. wire[1] = "request" /\ wire' = Failed /\ Unmoved
  BY Zenon DEF LoseAnswer
<1>2. PICK refused \in Refusable : HandleRequest(refused)
  BY Zenon DEF LoseAnswer
<1>3. wire'[1] = "failed"
  BY <1>1 DEF Failed
<1>4. IsFiniteSet(DOMAIN docs')
  BY <1>1, <1>2, RequestServed
<1>5. WireInv' /\ AnswerInv'
  BY <1>1, <1>3 DEF WireInv, AnswerInv
<1> QED
  BY <1>1, <1>3, <1>4, <1>5, UnderWay

LEMMA GatewayInv == IInv /\ Gateway => IInv'
<1> SUFFICES ASSUME IInv, Gateway PROVE IInv'
  OBVIOUS
<1>1. /\ wire[1] = "request" /\ wire' = <<"answer", GatewayAnswer>> /\ Unmoved
      /\ docs' = docs /\ seen' = seen
  BY DEF Gateway, GatewayAnswer, service
<1>2. wire'[1] = "answer" /\ wire'[2] = GatewayAnswer
  BY <1>1
<1>3. IsFiniteSet(DOMAIN docs')
  BY <1>1 DEF IInv
<1>4. WireInv'
  BY <1>2 DEF WireInv
<1>5. AnswerInv'
  <2>1. call[1] # "WaitForShardReady" => ~seen.granted
    BY <1>1 DEF IInv, RequestInv
  <2>2. call' = call
    BY <1>1 DEF Unmoved
  <2>3. ~Completed(GatewayAnswer)
    BY GatewayTold DEF Completed
  <2> QED
    BY <1>1, <1>2, <2>1, <2>2, <2>3, GatewayTold DEF AnswerInv
<1> QED
  BY <1>1, <1>2, <1>3, <1>4, <1>5, UnderWay

\* Shards only arrive.
LEMMA SettleShardInv == IInv /\ SettleShard => IInv'
<1> SUFFICES ASSUME IInv, SettleShard PROVE IInv'
  OBVIOUS
<1>1. PICK p \in Moving(docs) :
          docs' = [docs EXCEPT ![p].State = Text(Settled[docs[p].State[2]])]
  BY Zenon DEF SettleShard
<1>2. UNCHANGED <<part, config, call, handle, final, outcome, wire, seen>>
  BY DEF SettleShard, Unmoved
<1>3. /\ TypeOK /\ OutcomesAreTrue /\ WireInv /\ RequestInv /\ AnswerInv /\ PutInv
      /\ IsFiniteSet(DOMAIN docs)
  BY Zenon DEF IInv
<1>4. DOMAIN docs' = DOMAIN docs /\ \A q \in DOMAIN docs \ {p} : docs'[q] = docs[q]
  BY <1>1
<1>5. Moving(docs') \subseteq Moving(docs)
  BY <1>4 DEF Moving
<1>6. \A path : Children(docs', path) = Children(docs, path)
  BY <1>4 DEF Children, Below
<1>7. TypeOK' /\ WireInv' /\ RequestInv' /\ PutInv'
  BY <1>2, <1>3 DEF TypeOK, WireInv, RequestInv, PutInv, Records
<1>8. ErrorsAreTrue' /\ FailedRecordsAreRefused'
  BY <1>2, <1>3 DEF OutcomesAreTrue, ErrorsAreTrue, FailedRecordsAreRefused, Succeeded
<1>9. ShardsAreReady'
  BY <1>2, <1>3, <1>5, <1>6 DEF OutcomesAreTrue, ShardsAreReady
<1>10. AnswerInv'
  <2>1. Ready => Ready'
    BY <1>2, <1>5, <1>6 DEF Ready
  <2> QED
    BY <1>2, <1>3, <2>1 DEF AnswerInv, Records
<1>11. IsFiniteSet(DOMAIN docs)'
  BY <1>3, <1>4
<1> QED
  BY <1>7, <1>8, <1>9, <1>10, <1>11 DEF IInv, OutcomesAreTrue

LEMMA StutterInv == IInv /\ UNCHANGED vars => IInv'
<1> SUFFICES ASSUME IInv, UNCHANGED vars PROVE IInv'
  OBVIOUS
<1>1. UNCHANGED <<part, config, call, handle, wire, final, outcome, docs, objects, seen>>
  BY DEF vars
<1>2. /\ TypeOK /\ OutcomesAreTrue /\ WireInv /\ RequestInv /\ AnswerInv /\ PutInv
      /\ IsFiniteSet(DOMAIN docs)
  BY Zenon DEF IInv
<1>3. TypeOK' /\ WireInv' /\ RequestInv' /\ PutInv' /\ IsFiniteSet(DOMAIN docs)'
  BY <1>1, <1>2 DEF TypeOK, WireInv, RequestInv, PutInv, Records
<1>4. OutcomesAreTrue'
  BY <1>1, <1>2 DEF OutcomesAreTrue, ErrorsAreTrue, FailedRecordsAreRefused, ShardsAreReady,
     Succeeded
<1>5. AnswerInv'
  BY <1>1, <1>2 DEF AnswerInv, Records, Ready
<1> QED
  BY <1>3, <1>4, <1>5 DEF IInv

LEMMA NextInv == IInv /\ [Next]_vars => IInv'
<1> SUFFICES ASSUME IInv, [Next]_vars PROVE IInv'
  OBVIOUS
<1>1. CASE ProjectStep
  BY <1>1, ProjectStepShape, BeginsInv, EndsInv, Zenon
<1>2. CASE TopicStep
  BY <1>2, TopicStepShape, BeginsInv, EndsInv, Zenon
<1>3. CASE ShardStep
  BY <1>3, ShardStepShape, BeginsInv, EndsInv, WaitInv, Zenon
<1>4. CASE RecordStep
  BY <1>4, RecordStepShape, BeginsInv, EndsInv, PutInvariant, PutByShardInv, Zenon
<1>5. CASE ConnectorStep
  BY <1>5, ConnectorStepShape, BeginsInv, EndsInv, Zenon
<1>6. CASE SubscriptionStep
  BY <1>6, SubscriptionStepShape, BeginsInv, EndsInv, Zenon
<1>7. CASE ServiceStep
  BY <1>7, ServeInv, ServeGarbledInv, LoseRequestInv, LoseAnswerInv, GatewayInv,
     SettleShardInv, Zenon DEF ServiceStep
<1>8. CASE UNCHANGED vars
  BY <1>8, StutterInv
<1> QED
  BY <1>1, <1>2, <1>3, <1>4, <1>5, <1>6, <1>7, <1>8, Zenon DEF Next

-----------------------------------------------------------------------------
(* Theorems *)

\* The inductive invariant holds: requests are signed as they are sent, and
\* an answer that can be read agrees with what the service has done.
THEOREM Invariance == Spec => []IInv
<1> QED
  BY InitInv, NextInv, PTL DEF Spec

\* Whatever the calls, the documents and the faults, an exchange is in one of
\* its stages, and a handle that is taken for a request has no options of an
\* earlier one, as SetOptCodeForHttpMethod, which never undoes a custom
\* method, relies on.
THEOREM ClientTypeOK == Spec => []TypeOK
<1>1. IInv => TypeOK
  BY Zenon DEF IInv
<1> QED
  BY <1>1, Invariance, PTL

\* What the end of a call tells its caller is what the service has done: a
\* call that returns was granted, an error that the service names means that
\* nothing was done and is never about the signature, the failed records of
\* a put are those that were refused, and a wait that ends well leaves no
\* shard of the topic on its way.
THEOREM OutcomesTold == Spec => []OutcomesAreTrue
<1>1. IInv => OutcomesAreTrue
  BY Zenon DEF IInv
<1> QED
  BY <1>1, Invariance, PTL

\* Of it, the part about the records of a put: to put the failed records of
\* a result again neither loses nor doubles a record, in either encoding.
THEOREM FailedRecordsTold == Spec => []FailedRecordsAreRefused
<1>1. IInv => FailedRecordsAreRefused
  BY Zenon DEF IInv, OutcomesAreTrue
<1> QED
  BY <1>1, Invariance, PTL

\* And the part about the wait for shards.
THEOREM WaitTold == Spec => []ShardsAreReady
<1>1. IInv => ShardsAreReady
  BY Zenon DEF IInv, OutcomesAreTrue
<1> QED
  BY <1>1, Invariance, PTL

=============================================================================
