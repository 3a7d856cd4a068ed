------------------------------- MODULE Limits -------------------------------
(***************************************************************************)
(* From an environment variable to the record that it turns away: a limit  *)
(* is parsed and validated by internal/config, defaulted once more when    *)
(* the handler is made and again when a request is decoded, and tested by  *)
(* two decoders, one for v2 and one for v3.                                *)
(*                                                                         *)
(* A setting is an integer, Unset, or Garbage that does not parse.  Rates  *)
(* are whole numbers here.  A record is its sizes: [key, value, headers,   *)
(* partition], with headers a sequence of [name, value] sizes; None is a   *)
(* nil key, which an empty one is not, and a header that lacks a value,    *)
(* which one whose value is null does not.                                 *)
(***************************************************************************)
EXTENDS Integers, Sequences, FiniteSets, Folds

CONSTANTS
    Unset,
    Garbage,
    None            \* no partition, key or header value

VARIABLES
    env,      \* env[setting]
    phase,    \* "boot", "refused", "loaded" or "serving"
    cfg,      \* the limits as config.Config, then as the handler's api.Config
    burst,    \* burst[kind] of the limiters; 0 without one
    verdict   \* the last request, and what each decoder said of it

limitVars == <<env, phase, cfg, burst, verdict>>

\* The settings with a default, which is also the one of README.md.
Default == [bytes |-> 8 * 1024 * 1024, records |-> 1000, recordBytes |-> 1024 * 1024,
            keyBytes |-> 1024 * 1024, headers |-> 64, headerBytes |-> 64 * 1024,
            requestRate |-> 0, requestBurst |-> 0, byteRate |-> 0, byteBurst |-> 0,
            bufferedRecords |-> 100000, bufferedBytes |-> 128 * 1024 * 1024]
Settings == DOMAIN Default
Positive == {"bytes", "records", "recordBytes", "keyBytes", "headerBytes",
             "bufferedRecords", "bufferedBytes"}

NoVerdict == [post |-> <<>>, v2 |-> FALSE, v3 |-> FALSE]

LimitsInit ==
    /\ phase = "boot"
    /\ cfg = Default
    /\ burst = [requests |-> 0, bytes |-> 0]
    /\ verdict = NoVerdict

-----------------------------------------------------------------------------
\* envInt, envInt64, envFloat: what does not parse is as good as unset.
EnvInt(setting) == IF env[setting] \in {Unset, Garbage} THEN Default[setting] ELSE env[setting]

\* The checks at the end of LoadFromEnv.
Valid(c) == \A s \in Settings : IF s \in Positive THEN c[s] > 0 ELSE c[s] >= 0

LoadFromEnv ==
    LET loaded == [s \in Settings |-> EnvInt(s)] IN
    /\ phase = "boot"
    /\ IF Valid(loaded)
         THEN phase' = "loaded" /\ cfg' = loaded
         ELSE phase' = "refused" /\ UNCHANGED cfg
    /\ UNCHANGED <<env, burst, verdict>>

\* api.Config.withDefaults.
WithDefaults(c) ==
    [s \in Settings |->
        IF s \in {"bytes", "records", "recordBytes", "keyBytes", "headers", "headerBytes"} /\ c[s] <= 0
          THEN CASE s = "bytes" -> 8 * 1024 * 1024
                 [] s = "records" -> 1000
                 [] s = "headers" -> 64
                 [] s = "headerBytes" -> 64 * 1024
                 [] OTHER -> 1024 * 1024
          ELSE c[s]]

\* Mutant: the default burst is a second's worth of tokens.
ByteBurstOfRate(c) == IF c.byteBurst <= 0 THEN c.byteRate ELSE c.byteBurst

ByteBurst(c) ==
    IF c.byteBurst > 0 THEN c.byteBurst
    ELSE IF c.byteRate > c.bytes THEN c.byteRate ELSE c.bytes
RequestBurst(c) == IF c.requestBurst > 0 THEN c.requestBurst ELSE c.requestRate

NewHandlerWithSchema ==
    LET c == WithDefaults(cfg) IN
    /\ phase = "loaded"
    /\ phase' = "serving"
    /\ cfg' = c
    /\ burst' = [requests |-> IF c.requestRate > 0 THEN RequestBurst(c) ELSE 0,
                 bytes |-> IF c.byteRate > 0 THEN ByteBurst(c) ELSE 0]
    /\ UNCHANGED <<env, verdict>>

-----------------------------------------------------------------------------
Bytes(size) == IF size = None THEN 0 ELSE size

HeaderSize(h) == h.name + Bytes(h.value)

SizeBytes(r) ==
    Bytes(r.key) + r.value + MapThenFoldSet(+, 0, LAMBDA i : HeaderSize(r.headers[i]),
                                     LAMBDA S : CHOOSE i \in S : TRUE, DOMAIN r.headers)

DecodeHeaders(headers, lim) ==
    /\ Len(headers) <= lim.headers
    /\ \A i \in DOMAIN headers :
          /\ headers[i].name > 0
          /\ headers[i].value # None
          /\ HeaderSize(headers[i]) <= lim.headerBytes

\* On the v3 routes a header may do without a value.
DecodeV3Headers(headers, lim) ==
    /\ Len(headers) <= lim.headers
    /\ \A i \in DOMAIN headers : headers[i].name > 0 /\ HeaderSize(headers[i]) <= lim.headerBytes

\* Mutant: the headers do not count towards the size of the record.
DecodeV2WithoutHeaders(p, lim) ==
    /\ p.count <= lim.records
    /\ DecodeHeaders(p.record.headers, lim)
    /\ Bytes(p.record.key) <= lim.keyBytes
    /\ ~(p.path = None /\ p.record.partition # None /\ p.record.partition < 0)
    /\ Bytes(p.record.key) + p.record.value <= lim.recordBytes

\* decodeProduceRequestWithSchema accepts every record; a partition in the
\* path replaces the record's own, which is then not looked at.
DecodeV2(p, lim) ==
    /\ p.count <= lim.records
    /\ DecodeHeaders(p.record.headers, lim)
    /\ Bytes(p.record.key) <= lim.keyBytes
    /\ p.path = None => p.record.partition = None \/ p.record.partition >= 0
    /\ SizeBytes(p.record) <= lim.recordBytes

\* Mutant: a negative partition_id is let through.
DecodeV3AnyPartition(p, lim) ==
    /\ p.count <= lim.records
    /\ Bytes(p.record.key) <= lim.keyBytes
    /\ DecodeV3Headers(p.record.headers, lim)
    /\ SizeBytes(p.record) <= lim.recordBytes

\* v3EnvelopeFromRecord, for every record of a stream or entry of a batch, and
\* the test of their number.
DecodeV3(p, lim) ==
    /\ p.count <= lim.records
    /\ Bytes(p.record.key) <= lim.keyBytes
    /\ p.record.partition = None \/ p.record.partition >= 0
    /\ DecodeV3Headers(p.record.headers, lim)
    /\ SizeBytes(p.record) <= lim.recordBytes

\* decodeLimits.withDefaults, in the v2 decoder only.
V2Limits == WithDefaults(cfg)

\* The same records are posted on the v2 and on a v3 route.  One request is
\* enough: decoding keeps no state.
Decode(p) ==
    /\ phase = "serving"
    /\ verdict = NoVerdict
    /\ verdict' = [post |-> <<p>>, v2 |-> DecodeV2(p, V2Limits), v3 |-> DecodeV3(p, cfg)]
    /\ UNCHANGED <<env, phase, cfg, burst>>

-----------------------------------------------------------------------------
\* What the operator asked for: README.md's default where nothing legible is set.
Asked(s) == IF env[s] \in {Unset, Garbage} THEN Default[s] ELSE env[s]

(***************************************************************************)
(* No record gets past either decoder that exceeds a limit the operator    *)
(* set: the layers of defaults never widen one, except that of REQUEST_MAX_*)
(* HEADERS=0, which validation lets through and withDefaults makes 64.     *)
(***************************************************************************)
AcceptedWithinAsked ==
    verdict.post # <<>> /\ (verdict.v2 \/ verdict.v3) =>
        LET p == verdict.post[1] IN
        /\ p.count <= Asked("records")
        /\ Bytes(p.record.key) <= Asked("keyBytes")
        /\ SizeBytes(p.record) <= Asked("recordBytes")
        /\ Len(p.record.headers) <= IF Asked("headers") = 0 THEN 64 ELSE Asked("headers")
        /\ \A i \in DOMAIN p.record.headers : HeaderSize(p.record.headers[i]) <= Asked("headerBytes")

\* A header of the record lacks a value.
Bare(r) == \E i \in DOMAIN r.headers : r.headers[i].value = None

(***************************************************************************)
(* The v2 and the v3 decoders differ in two things and no other, whatever  *)
(* the configuration: v2 wants a value in every header, and a partition in *)
(* the v2 path makes it overlook the record's own, so that it accepts what *)
(* v3 does and perhaps more.                                               *)
(***************************************************************************)
RoutesAgree ==
    verdict.post # <<>> =>
        LET p == verdict.post[1] IN
        /\ verdict.v2 => ~Bare(p.record)
        /\ verdict.v3 /\ ~Bare(p.record) => verdict.v2
        /\ verdict.v2 /\ p.path = None => verdict.v3

(***************************************************************************)
(* With RATE_LIMIT_BYTES_BURST left at 0, the byte limiter's bucket holds  *)
(* enough for every body that readRequestBody lets in, so no such body is  *)
(* refused for ever.                                                       *)
(***************************************************************************)
DefaultBurstPays ==
    phase = "serving" /\ Asked("byteRate") > 0 /\ Asked("byteBurst") = 0 =>
        burst.bytes >= cfg.bytes /\ burst.bytes >= Asked("byteRate")

=============================================================================
