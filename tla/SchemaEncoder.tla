--------------------------- MODULE SchemaEncoder ---------------------------
(***************************************************************************)
(* internal/schema/encoder.go and the loops that call it: the records of a *)
(* request are encoded one after the other, key before value, each with a  *)
(* call of the registry, while other requests and other clients of the     *)
(* registry go on.  The first error ends the request (v2) or refuses the   *)
(* record (v3).                                                            *)
(*                                                                         *)
(* A field is [side, type, subject, strategy, id, version, text, data,     *)
(* valid]: id and version 0, text NoText, subject <<>> and type or         *)
(* strategy "" are absent; data is "null" (or missing), or one of the      *)
(* values that a text or a plain type may or may not fit; valid says that  *)
(* what is checked after the value (headers, sizes, partition) is in       *)
(* order, and is TRUE for a key.  A v2 field has the type of the request's *)
(* media type and neither a subject nor a version.                         *)
(***************************************************************************)
EXTENDS SchemaRegistry

CONSTANTS
    Jobs,        \* the requests (v2), or the records of one (v3)
    Work         \* what they may hold: a [route, fields] for each job

VARIABLES
    configured,  \* SCHEMA_REGISTRY_URL is set
    job,     \* job[j]
    wires,   \* wires[j]: the payloads encoded so far, one per field
    meta,    \* the schema ids of the v2 response, by side; 0 is null
    state    \* "encoding", "encoded" or "rejected"

encoderVars == <<registryVars, configured, job, wires, meta, state>>

SchemaTypes == {"AVRO", "JSONSCHEMA", "PROTOBUF"}

EncoderInit ==
    /\ RegistryInit
    /\ configured \in BOOLEAN
    /\ job \in Work
    /\ wires = [j \in Jobs |-> <<>>]
    /\ meta = [j \in Jobs |-> [side \in {"key", "value"} |-> 0]]
    /\ state = [j \in Jobs |-> "encoding"]

-----------------------------------------------------------------------------
IsSchemaAware(field) ==
    field.type \in SchemaTypes \/ field.text # NoText \/ field.id # 0 \/ field.version # 0

\* The type Encode works with.
EncodeType(field) ==
    CASE field.type # "" -> field.type
      [] field.type = "" /\ IsSchemaAware(field) -> "AVRO"
      [] OTHER -> "JSON"

\* schemaRecordName finds a name only in a text of the type it is told.
SchemaRecordName(type, text) == IF text.kind = type THEN text.name ELSE ""

ResolveSubject(field) ==
    LET name == SchemaRecordName(EncodeType(field), field.text) IN
    CASE field.subject # <<>> -> field.subject
      [] field.subject = <<>> /\ field.strategy = "RECORD_NAME" /\ name # "" -> <<name>>
      [] field.subject = <<>> /\ field.strategy = "TOPIC_RECORD_NAME" /\ name # "" ->
            <<"topic", name>>
      [] OTHER -> <<"topic", field.side>>

\* The subject that the field's schema is looked up or registered under.
AskedSubject(field) == RequestedSubject(ResolveSubject(field))

NullWire == [id |-> 0, type |-> "", text |-> NoText, message |-> <<>>, index |-> <<>>]
PlainWire == [NullWire EXCEPT !.type = "plain"]

\* firstMessage goes down to the innermost first message.
FirstMessage(text) == [level \in 1..(text.depth + 1) |-> 0]

\* Mutant: the prefix carries the id that was asked for.
ConfluentWireAsAsked(field, answer) ==
    [id |-> IF field.id # 0 THEN field.id ELSE answer.id,
     type |-> answer.type, text |-> answer.text, message |-> <<>>, index |-> <<>>]

\* The payload, with appendConfluentWireFormat's prefix; protobuf adds one
\* zero byte, which stands for the message indexes <<0>>.
ConfluentWire(field, answer) ==
    [id |-> answer.id, type |-> answer.type, text |-> answer.text,
     message |-> IF answer.type = "PROTOBUF" THEN FirstMessage(answer.text) ELSE <<>>,
     index |-> IF answer.type = "PROTOBUF" THEN <<0>> ELSE <<>>]

\* What a job may hold.
Fields == [side : {"key", "value"}, type : STRING, subject : Seq(STRING), strategy : STRING,
           id : Nat, version : Nat, text : Texts \cup {NoText}, data : STRING, valid : BOOLEAN]

\* A v2 request names one schema for all its keys and one for all its values.
V2Fields(fields) ==
    \A i \in DOMAIN fields :
        /\ fields[i].subject = <<>> /\ fields[i].version = 0
        /\ fields[i].strategy \in {"", "TOPIC_NAME"}
        /\ \A k \in DOMAIN fields : fields[k].side = fields[i].side =>
              fields[k].text = fields[i].text /\ fields[k].id = fields[i].id

\* The service knows the subject it is asked about, if it is asked about one ("."
\* alone is left out: its path is that of another call).
ASSUME WorkAssumption ==
    /\ Work \subseteq [Jobs -> [route : {"v2", "v3"}, fields : Seq(Fields)]]
    /\ \A w \in Work : \A j \in Jobs :
          /\ w[j].route = "v2" => V2Fields(w[j].fields)
          /\ \A i \in DOMAIN w[j].fields :
                AskedSubject(w[j].fields[i]) \in Subjects \cup {NoSubject}

-----------------------------------------------------------------------------
Field(j) == job[j].fields[Len(wires[j]) + 1]

\* encodeV3Data refuses a schema-aware field of a proxy without a registry,
\* null or not.  The same test of decodeV2NullableValue never succeeds: the
\* handler passes it a nil *Encoder, which is no nil interface.
Unsupported(j) ==
    \/ job[j].route = "v3" /\ ~configured /\ IsSchemaAware(Field(j))
    \/ EncodeType(Field(j)) \notin SchemaTypes \cup {"BINARY", "STRING", "JSON"}

Ready(j) == state[j] = "encoding" /\ Len(wires[j]) < Len(job[j].fields)

Reject(j) ==
    /\ state' = [state EXCEPT ![j] = "rejected"]
    /\ UNCHANGED <<configured, job, wires, meta>>

\* Mutant: the schema id of the response is the last record's.
AcceptKeepsLast(j, wire) ==
    IF ~Field(j).valid THEN Reject(j)
    ELSE /\ wires' = [wires EXCEPT ![j] = Append(@, wire)]
         /\ state' = [state EXCEPT ![j] =
                         IF Len(wires[j]) + 1 = Len(job[j].fields) THEN "encoded" ELSE @]
         /\ meta' = [meta EXCEPT ![j][Field(j).side] = wire.id]
         /\ UNCHANGED <<configured, job>>

\* The field is encoded; the record is checked after its value, and the v2 loop
\* keeps the first schema id of each side.
Accept(j, wire) ==
    IF ~Field(j).valid THEN Reject(j)
    ELSE /\ wires' = [wires EXCEPT ![j] = Append(@, wire)]
         /\ state' = [state EXCEPT ![j] =
                         IF Len(wires[j]) + 1 = Len(job[j].fields) THEN "encoded" ELSE @]
         /\ meta' = [meta EXCEPT ![j][Field(j).side] = IF @ = 0 THEN wire.id ELSE @]
         /\ UNCHANGED <<configured, job>>

EncodeUnsupported(j) ==
    /\ Ready(j) /\ Unsupported(j)
    /\ Reject(j)
    /\ UNCHANGED registryVars

\* The data a plain type takes: base64 strings, strings, any JSON.
PlainFits(type) == CASE type = "BINARY" -> {"base64"}
                     [] type = "STRING" -> {"base64", "string"}
                     [] OTHER -> {"base64", "string", "object"}

\* encodeBinary, encodeString, encodeJSON.
EncodePlain(j) ==
    /\ Ready(j) /\ ~Unsupported(j)
    /\ EncodeType(Field(j)) \notin SchemaTypes
    /\ IF Field(j).data = "null" THEN Accept(j, NullWire)
       ELSE IF Field(j).data \in PlainFits(EncodeType(Field(j))) THEN Accept(j, PlainWire)
       ELSE Reject(j)
    /\ UNCHANGED registryVars

\* encodeSchemaAware, for null: no call of the registry, nor need of one.
EncodeNull(j) ==
    /\ Ready(j) /\ ~Unsupported(j)
    /\ EncodeType(Field(j)) \in SchemaTypes
    /\ Field(j).data = "null"
    /\ Accept(j, NullWire)
    /\ UNCHANGED registryVars

\* encodeSchemaAware without a registry.
EncodeUnresolvable(j) ==
    /\ Ready(j) /\ ~Unsupported(j) /\ ~configured
    /\ EncodeType(Field(j)) \in SchemaTypes
    /\ Field(j).data # "null"
    /\ Reject(j)
    /\ UNCHANGED registryVars

\* encodeSchemaAware: resolve, encode by the schema that came back, frame.
EncodeSchemaAware(j) ==
    LET field == Field(j)
        answers == [id : 0..MaxSchemas, text : Texts \cup {NoText}, type : SchemaTypes \cup {""}]
    IN
    /\ Ready(j) /\ ~Unsupported(j) /\ configured
    /\ EncodeType(field) \in SchemaTypes
    /\ field.data # "null"
    /\ \E answer \in answers :
          /\ Resolve(ResolveSubject(field), EncodeType(field), field, answer)
          /\ IF answer.id # 0 /\ field.data \in answer.text.fits
               THEN Accept(j, ConfluentWire(field, answer))
               ELSE Reject(j)

EncodeField(j) ==
    \/ EncodeUnsupported(j) \/ EncodePlain(j) \/ EncodeNull(j)
    \/ EncodeUnresolvable(j) \/ EncodeSchemaAware(j)

EncoderNext ==
    \/ \E j \in Jobs : EncodeField(j)
    \/ Evolve /\ UNCHANGED <<configured, job, wires, meta, state>>

EncoderSpec == EncoderInit /\ [][EncoderNext]_encoderVars

-----------------------------------------------------------------------------
\* The fields of job j that were encoded with a schema.
Framed(j) == {i \in DOMAIN wires[j] : wires[j][i].id # 0}

(***************************************************************************)
(* encodeSchemaAware and appendConfluentWireFormat: the id in front of a   *)
(* payload names the very schema it was encoded with, of that schema's     *)
(* type, and goes on naming it whatever is registered later, although the  *)
(* text comes from the caller when it is registered and from the service   *)
(* when it is looked up.                                                   *)
(***************************************************************************)
WiresNameTheirSchema ==
    \A j \in Jobs : \A i \in Framed(j) :
        LET wire == wires[j][i] IN
        /\ wire.id \in DOMAIN schemas
        /\ schemas[wire.id] = wire.text /\ wire.type = wire.text.kind
        /\ job[j].fields[i].data \in wire.text.fits

(***************************************************************************)
(* Resolve: a record is encoded with the schema its field asks for, by     *)
(* text, else by version, else by id, and with one of the subject's        *)
(* versions when it asks for none; never with one of another subject, if   *)
(* the subject has nothing to escape.  One that has is another subject to  *)
(* the service (see RequestedSubject), the same one for every record; and  *)
(* "." and ".." are none, so that only an id can be had with them.         *)
(***************************************************************************)
WiresAsAsked ==
    \A j \in Jobs : \A i \in Framed(j) :
        LET field == job[j].fields[i]
            wire == wires[j][i]
            asked == AskedSubject(field)
        IN
        /\ field.text # NoText => wire.text = field.text
        /\ field.text = NoText /\ field.version # 0 =>
              asked # NoSubject /\ wire.id = versions[asked][field.version]
        /\ field.text = NoText /\ field.version = 0 /\ field.id # 0 => wire.id = field.id
        /\ field.text # NoText \/ field.id = 0 => asked # NoSubject /\ wire.id \in IdsOf(asked)

(***************************************************************************)
(* decodeProduceRequestWithSchema: the schema id of a v2 response is the   *)
(* id in front of every payload of that side, whichever of the records are *)
(* null, when the request names its schema by text or id.                  *)
(***************************************************************************)
NamedSchemaIsReported ==
    \A j \in Jobs : state[j] = "encoded" /\ job[j].route = "v2" =>
        \A i \in Framed(j) :
            LET field == job[j].fields[i] IN
            field.text # NoText \/ field.id # 0 => meta[j][field.side] = wires[j][i].id

(***************************************************************************)
(* decodeProduceRequestWithSchema asks for the latest version once for each*)
(* record when the request leaves the schema to the registry, and others   *)
(* may register versions in between.  The id of the response is then that  *)
(* of the oldest version that a payload of its side was encoded with.      *)
(***************************************************************************)
ReportedIsOldest ==
    \A j \in Jobs : state[j] = "encoded" /\ job[j].route = "v2" =>
        \A i \in Framed(j) :
            LET field == job[j].fields[i]
                known == versions[AskedSubject(field)]
            IN field.text = NoText /\ field.id = 0 =>
                  \E u, v \in DOMAIN known :
                      u <= v /\ known[u] = meta[j][field.side] /\ known[v] = wires[j][i].id

(***************************************************************************)
(* appendConfluentWireFormat writes the message indexes "for the common    *)
(* first-message case": the index names the message that was encoded.  It  *)
(* does not hold of a schema whose first message declares a message inside.*)
(***************************************************************************)
IndexNamesMessage ==
    \A j \in Jobs : \A i \in Framed(j) : wires[j][i].index = wires[j][i].message

=============================================================================
