--------------------------- MODULE DatahubRequest ---------------------------
(***************************************************************************)
(* What every request of the client has: a path, the parameters after it,  *)
(* the headers of its own and a body (src/src/model/datahub_request.cpp).  *)
(* A path is the sequence of its segments.  A body is <<"none">> when the  *)
(* request has none, <<"json", document>> or <<"protobuf", message>>.      *)
(***************************************************************************)
EXTENDS Json

NoBody == <<"none">>

Request(path, body) ==
    [path |-> path, query |-> "", headers |-> <<>>, body |-> body,
     compress |-> {}]

Json(members) == <<"json", Doc(members)>>

\* A request whose body names the operation in its member Action.
ActionRequest(path, action, members) ==
    Request(path, Json(Single("Action", Text(action)) ++ members))

Projects == <<"projects">>
ProjectPath(c) == <<"projects", c.project>>
TopicsPath(c) == ProjectPath(c) \o <<"topics">>
TopicPath(c) == TopicsPath(c) \o <<c.topic>>
ShardsPath(c) == TopicPath(c) \o <<"shards">>
ShardPath(c) == ShardsPath(c) \o <<c.shardId>>
ConnectorsPath(c) == TopicPath(c) \o <<"connectors">>
SubscriptionsPath(c) == TopicPath(c) \o <<"subscriptions">>
SubscriptionPath(c) == SubscriptionsPath(c) \o <<c.subId>>
OffsetsPath(c) == SubscriptionPath(c) \o <<"offsets">>
GroupPath(c) == SubscriptionsPath(c) \o <<c.consumerGroup>>
=============================================================================
