-------------------------- MODULE MCSchemaEncoder --------------------------
(* Instances of SchemaEncoder for TLC. *)
EXTENDS SchemaEncoder, TLC

OrderV1 == [kind |-> "AVRO", name |-> "order", fits |-> {"object"}, depth |-> 0]
OrderV2 == [kind |-> "AVRO", name |-> "order", fits |-> {"object", "string"}, depth |-> 0]
Flat == [kind |-> "PROTOBUF", name |-> "flat", fits |-> {"object"}, depth |-> 0]
Nested == [kind |-> "PROTOBUF", name |-> "nested", fits |-> {"object"}, depth |-> 1]

SomeTexts == {OrderV1, OrderV2, Flat}
NestedTexts == {Flat, Nested}
\* "a b" is asked for as "a%20b", which is a subject too.
SomeEscaped == ("a b" :> "a%20b") @@ ("a%20b" :> "a%2520b")
SomeSubjects == {<<"topic", "key">>, <<"topic", "value">>, <<"order">>, <<"topic", "flat">>,
                 <<"a b">>, <<"a%20b">>}
SomeSeeded == [s \in SomeSubjects |->
                  IF s = <<"topic", "value">> \/ s = <<"a b">> THEN <<OrderV1>> ELSE <<>>]
SomeEvolutions == {<<<<"topic", "value">>, OrderV2>>, <<<<"order">>, OrderV1>>,
                   <<<<"a%20b">>, OrderV2>>}
NothingSeeded == [s \in SomeSubjects |-> <<>>]

Plain == [side |-> "value", type |-> "JSON", subject |-> <<>>, strategy |-> "",
          id |-> 0, version |-> 0, text |-> NoText, data |-> "object", valid |-> TRUE]
Null(f) == [f EXCEPT !.data = "null"]
Invalid(f) == [f EXCEPT !.valid = FALSE]
Key(f) == [f EXCEPT !.side = "key"]
Avro == [Plain EXCEPT !.type = "AVRO", !.strategy = "TOPIC_NAME"]

\* v2 requests: two records with a null key, by text, by id, by neither.
V2Request(f, g) == [route |-> "v2", fields |-> <<Null(Key(f)), f, Null(Key(g)), g>>]
V2Values == {[Avro EXCEPT !.text = OrderV2], [Avro EXCEPT !.id = 1], [Avro EXCEPT !.id = 2],
             [Avro EXCEPT !.id = 1, !.text = OrderV2], Avro}
V2Requests ==
    {V2Request(f, f) : f \in V2Values} \cup
    {V2Request(f, Null(f)) : f \in V2Values} \cup
    {V2Request([Avro EXCEPT !.text = Flat], [Avro EXCEPT !.text = Flat]),
     V2Request(Avro, [Avro EXCEPT !.data = "string"]),
     V2Request([Avro EXCEPT !.text = OrderV2], Invalid([Avro EXCEPT !.text = OrderV2])),
     V2Request(Plain, Plain),
     V2Request([Plain EXCEPT !.type = "BINARY", !.data = "base64"], [Plain EXCEPT !.type = "BINARY"])}

\* v3 records: a key and a value, each of its own type.
V3Values ==
    {[Plain EXCEPT !.type = t, !.data = d] : t \in {"BINARY", "STRING"}, d \in {"string", "null"}} \cup
    {[Plain EXCEPT !.type = ""], [Plain EXCEPT !.id = 1], [Plain EXCEPT !.type = "XML"],
     [Plain EXCEPT !.type = "", !.id = 2],
     [Avro EXCEPT !.version = 2], [Avro EXCEPT !.version = 1, !.id = 2],
     [Avro EXCEPT !.text = OrderV2, !.strategy = "RECORD_NAME"],
     [Avro EXCEPT !.text = Flat, !.type = "PROTOBUF", !.strategy = "TOPIC_RECORD_NAME"],
     [Avro EXCEPT !.subject = <<"order">>],
     [Avro EXCEPT !.subject = <<"a b">>], [Avro EXCEPT !.subject = <<"a b">>, !.text = OrderV2],
     [Avro EXCEPT !.subject = <<"..">>], [Avro EXCEPT !.subject = <<".">>, !.text = OrderV2],
     Null(Avro), Invalid(Null(Avro))}
V3Keys == {Key(Null(Plain)), Key([Avro EXCEPT !.text = OrderV1])}
V3Records == {[route |-> "v3", fields |-> <<k, f>>] : k \in V3Keys, f \in V3Values}

TwoJobs == {"one", "two"}
Pair(a, b) == [j \in TwoJobs |-> IF j = "one" THEN a ELSE b]

\* Jobs meet in the registry only: each beside one that registers a schema.
V2Registrar == V2Request([Avro EXCEPT !.text = OrderV2], [Avro EXCEPT !.text = OrderV2])
V3Registrar == [route |-> "v3", fields |->
                   <<Key([Avro EXCEPT !.text = OrderV1]),
                     [Avro EXCEPT !.text = Flat, !.type = "PROTOBUF",
                                  !.strategy = "TOPIC_RECORD_NAME"]>>]
MixedWork == {Pair(a, V3Registrar) : a \in V2Requests} \cup {Pair(V2Registrar, b) : b \in V3Records}

\* A v3 record with a protobuf schema.
OneJob == {"one"}
ProtobufWork ==
    {[j \in OneJob |-> [route |-> "v3", fields |->
        <<Key(Null(Plain)), [Avro EXCEPT !.type = "PROTOBUF", !.text = t]>>]] : t \in NestedTexts}

=============================================================================
