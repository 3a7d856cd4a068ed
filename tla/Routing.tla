------------------------------- MODULE Routing -------------------------------
(***************************************************************************)
(* What the handlers make of a request before they read its body: the     *)
(* bearer token, the route, the topic and partition of the path, the       *)
(* allowlist, the media types.                                             *)
(*                                                                         *)
(* A name is a sequence of parts, "/" among them.  A path is its raw       *)
(* segments, between the slashes that EscapedPath leaves: each is the      *)
(* escaped text of a name, marked if escaping changed it, and marked if    *)
(* it does not unescape.  A request is [method, path, token, accept,       *)
(* contentType, asks]; asks is what its client meant, and is not read here.*)
(***************************************************************************)
EXTENDS Integers, Sequences, FiniteSets, Functions

CONSTANTS
    Tokens,   \* AUTH_BEARER_TOKENS
    None      \* no cluster, partition, token or target

Segments == [text : Seq(STRING), escaped : BOOLEAN, valid : BOOLEAN]
Segment(name) == [text |-> name, escaped |-> "/" \in Range(name), valid |-> TRUE]
Word(w) == Segment(<<w>>)
Malformed == [text |-> <<"%">>, escaped |-> TRUE, valid |-> FALSE]

\* strconv.ParseInt(_, 10, 32) on the texts that occur; the others do not parse.
IntOf == [w \in {"0", "1", "2", "7", "-1"} |->
            CASE w = "0" -> 0 [] w = "1" -> 1 [] w = "2" -> 2 [] w = "7" -> 7 [] w = "-1" -> -1]
ParsesAsInt(seg) == ~seg.escaped /\ Len(seg.text) = 1 /\ seg.text[1] \in DOMAIN IntOf

\* PathUnescape succeeds, and not with the empty name.
Named(seg) == seg.valid /\ seg.text # <<>>

Target(cluster, topic, partition, route) ==
    [cluster |-> cluster, topic |-> topic, partition |-> partition, route |-> route]

-----------------------------------------------------------------------------
ProduceTargetFromPath(path) ==
    IF /\ Len(path) \in {2, 4}
       /\ Named(path[2])
       /\ Len(path) = 4 => /\ path[3] = Word("partitions")
                           /\ ParsesAsInt(path[4])
                           /\ IntOf[path[4].text[1]] >= 0
      THEN Target(None, path[2].text,
                  IF Len(path) = 4 THEN IntOf[path[4].text[1]] ELSE None,
                  "v2")
      ELSE None

\* The cluster must be named; it is never compared with anything.
V3ProduceTargetFromPath(path) ==
    IF /\ Len(path) = 6
       /\ path[4] = Word("topics")
       /\ Named(path[3])
       /\ Named(path[5])
       /\ path[6] \in {Word("records"), Word("records:batch")}
      THEN Target(path[3].text, path[5].text, None,
                  IF path[6] = Word("records") THEN "stream" ELSE "batch")
      ELSE None

\* The patterns of Routes; metrics and profiles are left out.
Routes(path) ==
    IF path = <<Word("healthz")>> THEN "health"
    ELSE IF path = <<Word("readyz")>> THEN "ready"
    ELSE IF Len(path) >= 2 /\ path[1] = Word("topics") THEN "v2"
    ELSE IF Len(path) >= 3 /\ path[1] = Word("v3") /\ path[2] = Word("clusters") THEN "v3"
    ELSE "none"

TargetOf(path) ==
    IF Routes(path) = "v2" THEN ProduceTargetFromPath(path) ELSE V3ProduceTargetFromPath(path)

-----------------------------------------------------------------------------
\* strings.HasPrefix, and HasSuffix and TrimSuffix for "*".
HasPrefix(s, prefix) == Len(prefix) <= Len(s) /\ SubSeq(s, 1, Len(prefix)) = prefix
Starred(s) == s[Len(s)] = "*"
Unstarred(s) == SubSeq(s, 1, Len(s) - 1)

\* NewHandlerWithSchema sorts TOPIC_ALLOWLIST into names and prefixes.  An
\* entry that is "*" alone goes into neither.
AllowedTopics(allow) == {e \in allow : ~Starred(e)}
AllowedTopicPrefixes(allow) == {Unstarred(e) : e \in {f \in allow : Starred(f)}} \ {<<>>}

TopicAllowed(topic, allow) ==
    \/ AllowedTopics(allow) = {} /\ AllowedTopicPrefixes(allow) = {}
    \/ topic \in AllowedTopics(allow)
    \/ \E prefix \in AllowedTopicPrefixes(allow) : HasPrefix(topic, prefix)

\* Health and readiness pass; without tokens everything does.
AuthMiddleware(q) ==
    \/ Tokens = {}
    \/ Routes(q.path) \in {"health", "ready"}
    \/ q.token \in Tokens

\* A header is a sequence of media types, empty when absent.  The v2 handlers
\* parse it; the v3 ones look for a type anywhere in it.
FormatOf == [json |-> "json", v2 |-> "json", jsonV2 |-> "json", binary |-> "binary",
             avro |-> "avro", protobuf |-> "protobuf", jsonschema |-> "jsonschema"]
ParseContentType(header) ==
    IF header = <<>> THEN "json"
    ELSE IF Len(header) = 1 /\ header[1] \in DOMAIN FormatOf THEN FormatOf[header[1]]
    ELSE "unsupported"
AcceptsResponse(header) ==
    header = <<>> \/ \E i \in DOMAIN header : header[i] \in DOMAIN FormatOf \cup {"any", "application"}
IsJSONContentType(header) == header = <<>> \/ "json" \in Range(header)
AcceptsV3Response(header) == header = <<>> \/ Range(header) \cap {"json", "any"} # {}

\* The status of the first test that fails, or 0: authMiddleware, the mux, then
\* the head of handleTopicProduce or handleV3Produce.
GateStatus(q, allow) ==
    LET v2 == Routes(q.path) = "v2" IN
    IF ~AuthMiddleware(q) THEN 401
    ELSE IF Routes(q.path) = "none" THEN 404
    ELSE IF q.method # "POST" THEN 405
    ELSE IF TargetOf(q.path) = None THEN 404
    ELSE IF ~TopicAllowed(TargetOf(q.path).topic, allow) THEN 403
    ELSE IF ~(IF v2 THEN AcceptsResponse(q.accept) ELSE AcceptsV3Response(q.accept)) THEN 406
    ELSE IF v2 /\ ParseContentType(q.contentType) = "unsupported" THEN 415
    ELSE IF ~v2 /\ ~IsJSONContentType(q.contentType) THEN 415
    ELSE 0

=============================================================================
