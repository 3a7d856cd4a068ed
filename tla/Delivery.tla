------------------------------ MODULE Delivery ------------------------------
(***************************************************************************)
(* One record from a request's path to its partition: the tests of Routing,*)
(* the decoders of Limits, the record object that acquireRecord fills from *)
(* the pool, and the partition that franz-go picks with the help of        *)
(* partitioner.go.  Topics have Partitions partitions, some of which may   *)
(* have no leader at the moment of the pick.  The body of a request is     *)
(* count equal records, and the JSON text of their value.                  *)
(***************************************************************************)
EXTENDS Limits, Ranks

CONSTANTS
    Instances,   \* what may meet: [env, allow, request]
    Tokens,
    ClusterId,   \* KAFKA_CLUSTER_ID, or its default
    Partitions   \* their number, in every topic

INSTANCE Routing
INSTANCE JsonText

(***************************************************************************)
(* README.md's paths: how a client writes the cluster, the topic and the   *)
(* partition it asks for.  Names may be escaped more than they need to be. *)
(***************************************************************************)
Writes(seg, name) == seg.valid /\ seg.text = name
RendersV2(path, asks) ==
    /\ asks.cluster = None
    /\ Len(path) = IF asks.partition = None THEN 2 ELSE 4
    /\ path[1] = Word("topics")
    /\ Writes(path[2], asks.topic)
    /\ asks.partition # None =>
          /\ path[3] = Word("partitions")
          /\ ~path[4].escaped
          /\ \E w \in DOMAIN IntOf : path[4].text = <<w>> /\ IntOf[w] = asks.partition
RendersV3(path, asks) ==
    /\ Len(path) = 6
    /\ path[1] = Word("v3") /\ path[2] = Word("clusters") /\ path[4] = Word("topics")
    /\ Writes(path[3], asks.cluster) /\ asks.cluster # <<>>
    /\ Writes(path[5], asks.topic) /\ asks.partition = None
    /\ path[6] \in {Word("records"), Word("records:batch")}
Renders(path, asks) ==
    /\ asks.topic # <<>>
    /\ asks.partition = None \/ asks.partition >= 0
    /\ RendersV2(path, asks) \/ RendersV3(path, asks)

\* A request asks for what its path renders, and for nothing if it renders nothing.
AsksFor(q) ==
    IF q.asks # None THEN Renders(q.path, q.asks)
    ELSE LET texts == {q.path[k].text : k \in DOMAIN q.path} IN
         \A cluster \in texts \cup {None}, topic \in texts,
            partition \in {None} \cup {IntOf[w] : w \in DOMAIN IntOf} :
            ~Renders(q.path, [cluster |-> cluster, topic |-> topic, partition |-> partition])

ASSUME InstanceAssumption ==
    /\ Partitions \in Nat \ {0} /\ None \notin Int
    /\ \A i \in Instances :
          /\ i.env \in [Settings -> Int \cup {Unset, Garbage}]
          /\ i.allow \subseteq Seq(STRING) \ {<<>>}
          /\ i.request.path \in Seq(Segments) /\ AsksFor(i.request)
          /\ i.request.body.record.key \in Nat \cup {None}
          /\ i.request.body.record.partition \in Int \cup {None}

VARIABLES
    allow,    \* TOPIC_ALLOWLIST
    http,     \* the request: see Routing, and its body: [record, count, text]
    status,   \* -1 before it came, then that of the first test it failed, 0 if none did
    value,    \* the JSON value of its records once they are decoded, <<>> before
    placed    \* where its first record went, <<>> before

deliveryVars == <<limitVars, allow, http, status, value, placed>>

DeliveryInit ==
    /\ \E i \in Instances : env = i.env /\ allow = i.allow /\ http = i.request
    /\ LimitsInit
    /\ status = -1
    /\ value = <<>>
    /\ placed = <<>>

Boot ==
    /\ LoadFromEnv \/ NewHandlerWithSchema
    /\ UNCHANGED <<allow, http, status, value, placed>>

\* handleHealth and handleReady; what Ping says of Kafka is not known here.
Probe ==
    /\ phase = "serving"
    /\ status = -1
    /\ Routes(http.path) \in {"health", "ready"}
    /\ status' \in IF http.method # "GET" THEN {405}
                  ELSE IF Routes(http.path) = "health" THEN {200} ELSE {200, 503}
    /\ UNCHANGED <<limitVars, allow, http, value, placed>>

Arrive ==
    /\ phase = "serving"
    /\ status = -1
    /\ Routes(http.path) \notin {"health", "ready"}
    /\ status' = GateStatus(http, allow)
    /\ UNCHANGED <<limitVars, allow, http, value, placed>>

target == TargetOf(http.path)

\* v2 and v3 have ways of their own from a JSON value to bytes.  Other formats
\* are those of SchemaEncoder.
IsJSON == target.route = "v2" => ParseContentType(http.contentType) = "json"
RecordValue(raw) == IF target.route = "v2" THEN DecodeJSONValue(raw) ELSE EncodeJSON(raw)

Read ==
    /\ status = 0
    /\ Decode([record |-> http.body.record, count |-> http.body.count, path |-> target.partition])
    /\ IF IsJSON THEN value' = RecordValue(http.body.text) ELSE UNCHANGED value
    /\ UNCHANGED <<allow, http, status, placed>>

-----------------------------------------------------------------------------
\* The partition of a decoded record: the path's, if it names one.
RecordPartition(p) == IF p.path # None THEN p.path ELSE p.record.partition

UnspecifiedPartition == -1

\* acquireRecord overwrites what the object from the pool held.
AcquireRecord(p) ==
    [partition |-> IF RecordPartition(p) = None THEN UnspecifiedPartition ELSE RecordPartition(p),
     key |-> p.record.key]

\* kgo.UniformBytesPartitioner with keys: a record with a key, which may be
\* empty, goes by its hash, here by its size; any other wherever the client likes.
FallbackPicks(rec, n) == IF rec.key # None THEN {rec.key % n} ELSE 0..(n - 1)

\* Mutant: only keys need to see every partition.
RequiresConsistencyOfKey(rec) == rec.key # None

RequiresConsistency(rec) == rec.partition >= 0 \/ rec.key # None

\* Partition and PartitionByBackup.
Picks(rec, n) == IF rec.partition >= 0 THEN {rec.partition} ELSE FallbackPicks(rec, n)

\* kgo offers the partitioner all partitions or those with a leader, in order,
\* and takes the answer as an index into what it offered.  A record for which
\* the index names nothing fails.
Offered(rec, writable) == IF RequiresConsistency(rec) THEN 0..(Partitions - 1) ELSE writable

Place ==
    /\ verdict # NoVerdict
    /\ placed = <<>>
    /\ IF target.route = "v2" THEN verdict.v2 ELSE verdict.v3
    /\ \E writable \in SUBSET (0..(Partitions - 1)) :
          LET rec == AcquireRecord(verdict.post[1])
              offered == Offered(rec, writable)
              n == Cardinality(offered)
          IN \E pick \in IF n = 0 THEN {0} ELSE Picks(rec, n) :
                placed' = <<[topic |-> target.topic, writable |-> writable,
                             partition |-> IF pick < n THEN Nth(offered, pick) ELSE None]>>
    /\ UNCHANGED <<limitVars, allow, http, status, value>>

DeliveryNext == Boot \/ Probe \/ Arrive \/ Read \/ Place

DeliverySpec == DeliveryInit /\ [][DeliveryNext]_deliveryVars

-----------------------------------------------------------------------------
\* README.md: a name, or a prefix followed by "*".
Listed(topic, entry) ==
    topic = entry \/ (Starred(entry) /\ HasPrefix(topic, Unstarred(entry)))

(***************************************************************************)
(* A record ends up where its client asked and nowhere else: only requests *)
(* that render a produce call get this far, in the topic they were rendered*)
(* from, which the allowlist covers; in the partition of the path, else of *)
(* the record, whether or not that partition has a leader; else in the one *)
(* of its key, even an empty one, whichever are reachable; one that leaves *)
(* the choice open goes where there is a leader.  It fails for want of a   *)
(* partition only if the one it asked for does not exist or, if it left    *)
(* the choice open, there is no leader at all.  The cluster has no part in *)
(* it: see ClusterMatches.                                                 *)
(***************************************************************************)
LandsWhereAsked ==
    placed # <<>> =>
        LET asks == http.asks
            record == verdict.post[1].record
            at == placed[1]
            wanted == IF asks.partition # None THEN asks.partition ELSE record.partition
        IN /\ asks # None
           /\ at.topic = asks.topic
           /\ allow = {} \/ (\E e \in allow : Listed(at.topic, e))
           /\ IF wanted # None THEN at.partition = IF wanted < Partitions THEN wanted ELSE None
              ELSE IF record.key # None THEN at.partition = record.key % Partitions
              ELSE IF at.writable = {} THEN at.partition = None
              ELSE at.partition \in at.writable

(***************************************************************************)
(* decodeJSONValue's shortcut is invisible: whether or not jsonRawIsCompact*)
(* lets a value through as it stands, and on the v3 routes, which have no  *)
(* shortcut, the record carries exactly the text without the space between *)
(* tokens, so equal JSON documents give equal bytes.                       *)
(***************************************************************************)
CompactIsReference ==
    verdict # NoVerdict /\ IsJSON => value = Compact(http.body.text)

(***************************************************************************)
(* docs/api-compatibility.md, "`cluster_id` must match `KAFKA_CLUSTER_ID`, *)
(* which defaults to `local`": a v3 record that is produced named the      *)
(* cluster of the proxy.  It does not hold: v3ProduceTargetFromPath wants a*)
(* name, and nothing compares it.                                          *)
(***************************************************************************)
ClusterMatches == placed # <<>> => http.asks.cluster \in {None, ClusterId}

=============================================================================
