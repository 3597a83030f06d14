-------------------------------- MODULE Json --------------------------------
(***************************************************************************)
(* JSON documents, as the rapidjson library presents them to the client.   *)
(* A document is a pair: its kind, and what it holds.  The kind is what    *)
(* the tests IsString, IsInt, IsBool, IsArray and IsObject of the client   *)
(* look at, so a number where the client expects a string is not read.     *)
(* Words are model strings: how a document is spelled is left out, except  *)
(* for documents that travel as the text of a string (a record schema, a   *)
(* partition configuration): that text is <<>> when it is empty and        *)
(* <<document>> otherwise.                                                 *)
(***************************************************************************)
EXTENDS Integers, Sequences, TLC

Int64 == -1..100000     \* the numbers of a bounded instance

\* A function with one value, and a function over another.
Single(x, y) == [z \in {x} |-> y]
f ++ g == [x \in DOMAIN f \cup DOMAIN g |-> IF x \in DOMAIN f THEN f[x] ELSE g[x]]

Text(s)  == <<"string", s>>
Number(n)   == <<"number", n>>
Flag(b)  == <<"bool", b>>
Null     == <<"null">>
List(s)  == <<"array", s>>
Doc(m)   == <<"object", m>>

\* A text that no JSON parser accepts.
Malformed == <<"malformed">>

Texts(s) == List([i \in DOMAIN s |-> Text(s[i])])

EmptyText == <<>>
TextOf(doc) == <<doc>>

Has(doc, name, kind) ==
    /\ doc[1] = "object"
    /\ name \in DOMAIN doc[2]
    /\ doc[2][name][1] = kind

\* FindMember, the test of the kind, and the value read: what the client
\* does for each member it knows, leaving its default otherwise.
Member(doc, name, kind, default) ==
    IF Has(doc, name, kind) THEN doc[2][name][2] ELSE default

TextMember(doc, name) == Member(doc, name, "string", "")
IntMember(doc, name, default) == Member(doc, name, "number", default)
ListMember(doc, name) == Member(doc, name, "array", <<>>)

\* The words of an array of strings.
Words(list) == [i \in DOMAIN list |-> list[i][2]]
WordsMember(doc, name) == Words(ListMember(doc, name))

\* A member that is sent on a condition only.
Optional(given, name, value) == IF given THEN Single(name, value) ELSE <<>>

\* std::to_string and std::stoi on the numbers of a bounded instance, and
\* the spelling of truth values.
Printed(n) == ToString(n)
Scanned(s) == CHOOSE n \in -1..100 : ToString(n) = s
ScannedMember(doc, name, default) ==
    IF Has(doc, name, "string") THEN Scanned(doc[2][name][2]) ELSE default
BoolToString(b) == IF b THEN "true" ELSE "false"
StringToBool(s) == s \in {"true", "1"}
=============================================================================
