# A TLA+ model of kafka-rest-proxy-go

This directory specifies the proxy in TLA+, checks small instances of it with
TLC, and proves most of its safety properties for instances of any size with TLAPS.
Paths below are relative to the repository's root. `PROJECT.json` holds the
machine-readable side: the source lines behind every definition, the runs, the
hazards, the findings, the theorems.

## The system and its parts

A request arrives over HTTP on one of three produce routes, passes the
bearer-token middleware and a series of tests, is decoded into records, and is
handed in one or more `Produce` calls to a producer that all requests share. The
producer reserves capacity, submits the records to franz-go, and waits for the
callbacks or the deadline. The handler turns results into a response and moves
counters. `run()` serves until a signal, drains, closes the producer, exits.

| Part | Source | Module | State and actions |
|---|---|---|---|
| Admission | `internal/limits` | `Admission` | two counters; acquire, refuse, release (with the clamp) |
| Producer | `internal/producer/franz/producer.go` | `FranzProducer` | each call's goroutine, `requestState`, the record pool, every callback, `Close` |
| Its promise | `internal/producer/producer.go` | `ProduceContract`, `FranzRefinement` | admit, settle, hand back, answer, give up |
| Token bucket | `internal/ratelimit` | `RateLimiter` | `Allow`: grant, refuse, free |
| Its use | `internal/api/handler.go`, `v3.go` | `Throttle` | requests that pay for bodies and for streamed records |
| Handlers | `internal/api/handler.go`, `v3.go`, `errors.go` | `Api`, `V2Produce`, `V3Stream`, `V3Batch` | a goroutine per request from the middleware to the deferred metrics |
| Metrics | `internal/metrics` | `Metrics` | the counters and the gauge |
| Server | `cmd/kafka-rest-proxy-go` | `Proxy` | `run()`, composed with the requests |
| Limits | `internal/config`, `internal/api/types.go`, `v3.go` | `Limits` | environment, validation, defaults, the two decoders |
| Routes | `internal/api/handler.go`, `media.go`, `v3.go` | `Routing` | tokens, mux, path parsers, allowlist, media types |
| JSON values | `internal/api/types.go`, `internal/schema/encoder.go` | `JsonText` | the scanner of `jsonRawIsCompact`, compaction |
| A record's way | the four above, `producer.go`, `partitioner.go` | `Delivery` | start, health and readiness, arrival, decoding, placement |
| Schemas | `internal/schema`, `internal/api/types.go` | `SchemaRegistry`, `SchemaEncoder` | the registry service, `Resolve`, `Encode`, the loops that call it |
| Load tools | `cmd/soak-produce`, `cmd/bench-produce` | `LoadRun`, `SoakReport`, `SoakTool`, `BenchReport`, `LoadTools` | options, runs (timer, workers, channel, collector), percentiles, thresholds, comparisons, exit code |
| License bundle | `cmd/license-bundle` | `LicenseBundle` | list, remove, copy, write |

`Commands` puts the programs beside the proxy into one specification: a command
line selects one. `MC*` modules give constants small values. `Claims` holds statements of the docs
that the handlers do not meet. `Weights` defines sums over finite sets and `Ranks` the
order of finite sets of integers, both by cardinality, so that theorems about finite
sets apply to them. `FranzInvariant` and `ProxyInvariant` define the inductive
invariants of `FranzProducer` and `Proxy`.

| Proofs | About |
|---|---|
| `CountingTheorems` | sums and ordered lists, for the modules below |
| `FranzProofs` | `FranzProducer` and `FranzRefinement` |
| `RecordProofs` | `RateLimiter` and `Throttle`, then `Limits`, `Routing` and `Delivery` |
| `CommandProofs` | `LoadRun`, `SoakReport` and `SoakTool`, then `LicenseBundle` |
| `SchemaProofs` | `SchemaRegistry` and `SchemaEncoder` |
| `ProxyEntryProofs`, `ProxyCallProofs`, `ProxyProofs` | the handlers and `Proxy`: up to decoding, calls of `Produce` and their answers, the stream's loop and the server with the theorems |

Operators whose comment begins with "Mutant:" are plausible bugs; no
specification uses them. They exist to show that each property can fail.

### How the modules correspond to the code

*FranzProducer.* One action per access to memory that goroutines share:
`CheckClosed`, `TryAcquire` (with `newRequestState`), `SubmitRecord`
(`acquireRecord` and `TryProduce`), the two arms of the `select`, the
compare-and-swap of `released`, `Admission.Release`; in a callback the write of
`results[index]`, `remaining.Add(-1)`, the same swap, `close(done)`,
`releaseRecord`. franz-go is external: it settles a buffered record with an
offset or an error at any time, or never, and refuses records when its buffer is
full or it is closed. Records are pointers into a heap, so that reuse by the pool
is visible.

*Api, V2Produce, V3Stream, V3Batch.* A step runs from one point where a goroutine
may wait or touches shared state to the next. A request is what the handlers can
tell apart: the tests it would fail, how its body ends, and for each record
whether it decodes, is malformed, or too large. The rate limiters may give either
verdict. `Produce` is taken at the level of the contract that `FranzRefinement`
shows the real one to implement. Records of a call that gave up may still be
acknowledged (`AcknowledgedLate`), which no handler hears of.

*Proxy.* `srv.Shutdown` returns when no request is active or its timeout fires;
`prod.Close` and exit follow, with whatever is still running.

*SchemaRegistry, SchemaEncoder.* The registry service is external: schemas get
consecutive ids, a subject's versions only grow, others may register at any time,
and any call may fail before or after it took effect. A v2 request ends at its
first error; a v3 record is refused by itself. A subject is a sequence of parts and is
asked for as its escaped form: the client escapes it into the path, `url.URL` escapes
the path's `%` once more, and the service undoes one of the two.

*Limits.* A setting goes through `LoadFromEnv`, `Config.withDefaults` and
`decodeLimits.withDefaults` before a decoder tests it. Records are their sizes; a
header may lack a value, which only the v3 decoder lets pass.

*Throttle.* A body is its length and the offsets where its records end. A v2 or
batch request pays once; a stream pays after each `Decode` for what
`countingReader` has seen meanwhile, which is any number of bytes from the end of
the record on. The other tests of a request may end it at any time.

*Routing, JsonText, Delivery.* A name is a sequence of parts with `/` among them; a
path is the raw segments that `EscapedPath` leaves, so an escaped slash stays in its
segment. JSON text is a sequence of byte classes: quote, escape, space, other.
`json.Compact` and `bytes.TrimSpace` are external and given by their definition over
positions, without a scanner. `Delivery` takes one request through the handler's
tests, the decoders, `acquireRecord`, and the partition that franz-go picks. franz-go
is external there: it offers the partitioner all partitions or those with a leader,
as `RequiresConsistency` says, and takes the answer as an index into them.

*LoadRun, SoakTool, LoadTools.* Both tools share one structure of a run; the
scenario says which head of the worker's loop and which accounting it uses. A post is
how it ended, with how many errors among its offsets, and how long it took. `SoakTool` has soak's `main`: `parseOptions`, the
warm-up, the measured run, the exit code. `LoadTools` adds bench's: `buildOptions`, the
matrix of scenarios and targets, the comparison. `SoakReport` and `BenchReport` have
what the two make of finished runs. Rates are fractions of integers and thresholds are
whole numbers. Durations bound the number of posts.

*LicenseBundle.* The bundle's files are sets of names that survive a run; each step of
a run may fail or be the last.

## What the runs check

| Run | Shows | Distinct states |
|---|---|---|
| `FranzProducer` | reservations exact and bounded, results complete and in order, no shared record, `done` closed once, returned results stable; the inductive invariant; the producer implements `ProduceContract` | 615,341 |
| `FranzProducerLive` | every call returns, every reservation comes back, even if franz-go is silent | 131,146 |
| `RateLimiter` | over every window at most burst plus rate; no unjustified refusal; requests that stream with read-ahead or send whole bodies pay for every record before it is produced, and never for more than they sent | 690,989 |
| `Proxy` | one status line, truthful and complete per-record answers, metrics that match, errors after which a request may be sent again, unique batch ids, clean exit; a shutdown ends, a request whose body is in is answered | 322,804 |
| `SchemaEncoder` | payloads carry the id of the schema they were encoded with and that was asked for; the response reports it, or the oldest one if the registry changed under a v2 request | 15,546 |
| `Limits` | no limit is widened, the decoders differ in two ways only, the default byte burst pays for every body; a record lands in the topic and partition its client asked for, on an allowed topic, whichever partitions have leaders; the compaction shortcut is invisible | 714,141 |
| `LoadRun` | no send after close, every post counted once, documented failure semantics, the request limit exact, the programs end; the exit code of soak and the comparisons of bench follow from the posts; the license bundle is exact after a success | 136,163 |

Five runs each exhibit a disagreement between the code and what the repository
says of it:

| Run | What happens |
|---|---|
| `FranzProducerOutstanding` | a timed-out call gives its reservation back while franz-go still holds its records |
| `ClaimRejections` | a v3 batch refused by admission is not counted as rejected |
| `ClaimProduced` | a record that Kafka acknowledges after its call gave up is not counted as acknowledged |
| `ClaimFirstMessage` | a nested Protobuf message is encoded and framed with the index of the first one |
| `ClaimClusterId` | a v3 record is produced whatever cluster its path names |

The model also has these behaviours, which the properties are worded around:

- A v3 batch that times out is answered 503, where v2 and the stream answer 504
  (`OnlyTimeoutIsAmbiguous`, with `TimeoutStatus`). So a batch client cannot tell a
  timeout from a producer that is closed.
- A stream that fails after its first report ends with one error line and status
  200; records behind it get no report (`AnswersComplete` asks for reports of
  submitted records).
- The record over a stream's limit is included in `recordCount`.
- A v2 request that leaves the schema to the subject looks up `latest` for every
  record; its records can carry two ids, and the response names the first, which is
  the oldest (`ReportedIsOldest`).
- A subject with a character to escape is another subject to the registry: `a b` is
  registered and looked up as `a%20b`. The subjects `.` and `..` are none, so only an
  id can be had with them (`RequestedSubject`, `WiresAsAsked`).
- A v2 header needs a value, a v3 header does not; a partition in the v2 path makes the
  decoder overlook the record's own, which v3 tests (`RoutesAgree`).
- `REQUEST_MAX_HEADERS=0` passes the validation and then becomes 64
  (`AcceptedWithinAsked` says so).
- `kafka_rest_records_failed`, described as "Records failed by Kafka/client callbacks."
  (`internal/metrics/metrics.go:113`), also counts stream records that were refused
  before they went to Kafka.
- `TOPIC_ALLOWLIST` entries end in `*` for a prefix (`docs/security/README.md:17`). An
  entry that is `*` alone is skipped; if it is the only one, every topic is allowed,
  and beside other entries it allows nothing.
- The v3 routes accept a media type that occurs anywhere in the header.
- A request without a partition or key goes to a partition with a leader; one with
  either, even an empty key, waits for its own (`LandsWhereAsked`).
- The p99's index is rounded down, so any run of more than one post is forgiven one
  slow post, and the p99 of 2 to 101 posts is the second slowest one. `SoakVerdict`
  says it as a share: one slower post aside, less than 1% of the others is slower.
  Above `-max-latency-samples` only the first posts count.
- `formatBytes` cuts mebibytes off, so scenarios of 1 MiB and 1.5 MiB have one
  label and share a comparison row. No instance has sizes that large.

### Bounds, and why they are enough

- `FranzProducer`: two calls of at most two records, room for two records and
  three bytes, three record objects. The workloads contain a pair that fits
  together, pairs that do not by record and by byte, and an empty call. Two
  callbacks of one call race each other, the timeout and the other call; a
  returned object is reused. The liveness and `Outstanding` runs use two records
  in all. Record objects are symmetric; symmetry is not used for liveness.
- `RateLimiter`: rate 2, burst 5, clock up to 4, two requests out of five bodies of
  up to three records, so the bucket empties, refills past its cap, and meets costs
  of zero, at the burst and above it; reads end at, between and after records.
- `Proxy`: two clients, one request each, at most three items with a limit of
  two. Any kind of request runs beside one that competes for admission.
- `SchemaEncoder`: two jobs, at most three schemas. Jobs meet only in the
  registry, so each runs beside one that registers. Two records of a v2 request see
  the latest version change between them. One subject has a character to escape and
  its escaped form is a subject too; two are dropped from the path.
- `Limits`: one or two settings off their defaults; each size below, at and above
  its limit; keys and header values that are absent, empty or not; topics that contain
  a slash or spell out a partition; the proxy's cluster and another; six allowlists;
  three partitions with any of them without a leader; all well-formed texts of up
  to eight bytes, so that runs of escapes of both parities end at a quote. One
  request, since decoding keeps no state.
- `LoadRun`: two workers and four posts race for a request limit of three, with one
  channel slot per worker (four in the code) so that the channel does fill. One
  worker runs a warm-up and a measured run with each threshold on both sides of what
  it may see; a post of two records loses none, one or both; the clock may not have
  moved. Three targets, given out of order, compete for two places in one scenario, and
  two meet in two scenarios. Three modules have none, one and two license files.

### Fairness

`FranzProducer` and `Proxy`: goroutines that can run do run, every produce context
has a deadline (`context.WithTimeout` in all three handlers), the shutdown timer
fires. Nothing is assumed of Kafka, franz-go, or clients: no timeout covers the
reading of a body, so liveness of a request starts once its body is in.
`LoadRun`: the timer fires, a post ends by its client's timeout, and `main` goes on
when a run has been summed up.

## What is proved

Every theorem has the form "the safety part of the specification implies always P",
or is an action property or a refinement, for all values of the constants that meet
the named assumptions. TLC evaluates each assumption in the runs that use it.

**The producer** (`FranzProofs`), for any finite set of calls, any batches, limits and
pool (`WorkloadAssumption`, `NilAssumption`, `LimitsAssumption`):

- `InvariantHolds`: the inductive invariant; `TypeCorrect`
- `AdmissionCorrect`, `AdmissionWithinLimits`: admission counts exactly the
  reservations held, within limits
- `ResultsCorrect`, `ResultsStable`: results are the records' own, and stay
- `RecordsNotShared`: no pooled record is in two hands
- `DoneClosed`: `done` is closed at most once, after the last result
- `ProducerImplementsContract`: the refinement of `ProduceContract`

None of these is inductive alone. That `done` means "all results are in" needs
`remaining` to equal the number of promises that have not decremented it
(`RemainingInv`), which needs the loop to have submitted a prefix (`LoopInv`). That
a reservation comes back once needs the winner of the swap to be unique
(`ReleaseInv`), and that one promise alone follows the path to `close`
(`CloserInv`). That a result is the record's own needs each live object to carry
its slot's payload (`PoolInv`, `ResultInv`). Distinct payloads give distinct
objects, which is `NoSharedRecord`. Admission needs sums over the set of holders:
`CountingTheorems` proves that a sum grows and shrinks by the member that joins or
leaves. TLC checks `InductiveInvariant` in run `FranzProducer`.

For the refinement each action has a lemma that it maps to a step of the contract or
a stutter. A call's reservation is held until the swap's winner has released it; a
record settles when franz-go answers for it. The step that admits a call needs the
counters to be exact (`RoomIsFits`), and the one that gives up needs its context to
have ended (`ContextInv`). So what the handlers are modelled against is what the
producer does, for any calls.

**The handlers and the server** (`ProxyProofs`), for any finite set of clients, any
traffic and any record limit (`TrafficAssumption`): `ProxyCorrect`,
`CountersTellWhatWasSent`, `CounterTellsWhatWasAcknowledged`, `OneStatusLine`,
`ResponsesTruthful`, `ResponsesComplete`, `ErrorsUnambiguous`, `BatchIdsOnce`,
`CleanExit`. The invariant `ProxyInv` follows a request through its handler:

- `PhaseInv`: until decoding nothing has happened that a client or Kafka could see,
  and the status that the deferred calls read is the one that was sent. That is what
  the request counter needs.
- `CallInv`: a call passes each item at most once, in the order of its route, and has
  a result for each when it returns. A refused call has submitted nothing. With the
  order of `Envelopes` (`InOrderLists`) this makes the pairing by index right.
- `WholeInv` and `StreamInv`: what the answer covers. On a stream it is one report for
  each record consumed, so a failure leaves no submitted record out.
- `MainInv`: the producer is closed only after the drain, so no request that a clean
  exit waited for can have met a closed one.

The two counters are cardinalities; a step moves one client into or out of a set, or
counts the records of one call, which were not counted before (`ProducedIsReported`).
Reports are truthful and complete, so the records reported as produced are those that
Kafka acknowledged, less those of calls that gave up (`GivenUp`). TLC checks `ProxyInv` on the
instance of run `Proxy`.

**The byte limiter** (`RecordProofs`), for every rate, burst, cost and horizon
(`RateAssumption`): `RateInvariantHolds` and `RateExact`. Grants stay within every
sliding window, and a refused call would have broken one. The invariant is that the
bucket equals the tightest window: a call lowers all windows alike, a tick raises
them alike and opens a full one, which is the cap. With requests on top, for any
finite set of clients and any bodies (`ThrottleAssumption`): `ThrottleInvariantHolds`,
`RecordsPaid`, `BytesWithinRate`, `BytesRefusedJustly`. The invariant adds that a
request that goes on has paid for exactly what it has read (`Settled`). So a record
that is complete in the buffer lies within what was paid, although its own `Decode`
costs nothing. It also adds that the limiter's total is the sum over requests.

**A record's way** (`RecordProofs`), for any environments, allowlists, paths and
records, and any number of partitions (`InstanceAssumption`): `DeliveryCorrect`,
`LimitsHold`, `DecodersAgree`, `DefaultBurstSuffices`, `RecordsLand`. The assumption
also says that the path of a request is one that writes down what its client asks
for (`AsksFor`), with as much escaping as the names need. The
invariant `DeliveryInv` says that settings went through validation and both layers of
defaults, that a request which came this far passed every test, and that its record
was placed by the topic and partition of its path or body. The lemmas show that the path
parsers undo the rendering, that a partition's index among those offered leads back
to it (`Rank` and `Nth` are inverse), and that a key keeps its partition because all
partitions are offered for it. `DecodersAgree` is about the decoders as they are, with
the two differences stated.

**Schemas** (`SchemaProofs`), for any subjects and escaping, schemas and requests
(`RegistryAssumption`, `TextAssumption`, `WorkAssumption`): `EncoderCorrect`,
`WiresNamed`, `WiresAsked`, `ReportedSchema`, `OldestReported`. `SchemaInv` says that a schema has one id
and a subject's versions are ids (`RegistryInv`), that a framed payload suits what its
record asked for (`WireInv`), and that the id in the response is that of some payload of
its side (`MetaInv`). The service only grows, so what was true at the time of framing stays
true. Two payloads of a request that names its schema then carry one id. For
`OldestReported` the invariant `OldestInv` is added: for each payload of a side that left
the schema open, the id kept for the response stands at or before the payload's id in the
subject's versions. A
lookup of the latest version yields the last position, so the id that was kept first
stays the oldest, and what others register is appended behind.

**The tools** (`CommandProofs`). For any workers, latencies, channel size and scenario
(`LoadAssumption`): `RunInvariantHolds`, `ChannelSafe`, `EveryPostCounted`,
`LimitExact`, `SoakFailuresMeant`. The invariant says where each post is:
with a worker, in the channel, or counted (`CountInv`). For the limit it says that
every number drawn up to the limit was used or is about to be, unless the timer has
fired, and that a worker leaves early only when all are drawn (`LimitInv`). `TallyInv`
is about the posts that the collector has received, `Received`: those that ended, less
those in the channel or still with a worker. The records lost are the ones that these
posts lost, whatever number each (`SoakInv`), and up to the cap the samples no slower than any `l` are as many
as these posts (`SampleInv`). When a run is summed up, all posts have been received.

For any command lines and elapsed times (`SoakLineAssumption`: a flag is a whole number,
workers or answers): `SoakToolInvariant`, `SoakVerdictRight`. They are about
`SoakSafetySpec`, the actions of soak's `main` that `LoadTools` composes with those of
bench. `SoakToolInv` says that the run under way and all runs still planned use the
options of the command line, and that the last report is what the last run left. Since
a run starts with locals of its own (`RunStartsAgain`), its invariant holds again after
the warm-up. `PercentileAbove` turns the p99 into a count of posts: it exceeds a
threshold just when the posts no slower than the threshold do not reach its index.

For any finite set of modules (`BundleAssumption`): `BundleCorrect`, `BundleIsExact`.
`BundleInv` says that while a run copies, the files on disk are those of the rows it
has, and that a run which fails leaves `succeeded` false until a later one has
removed what it left.

### Only model-checked

- Liveness: `EveryCallReturns`, `ReservationsReturned`, `ShutdownCompletes`,
  `BodyInIsAnswered`, `ToolEnds`. Liveness under fairness is out of the prover's reach.
- `CompactIsReference`: what the scanner of `JsonText` computes on every text needs
  induction over the text, which the prover cannot do. TLC tries all well-formed texts
  of up to eight bytes.
- `ComparisonsSound`: the sorting and folds of `BenchReport` are recursive over the
  results of a row.

## What is not modelled

- Parsing and text: JSON and base64, wording of errors, percent-decoding itself. A
  body is well-formed or not; a segment unescapes or not.
- `/metrics` and pprof; what `Ping` finds out; histograms and the byte counter.
- TLS, SASL and the options of the Kafka client, `KAFKA_BATCH_MAX_BYTES` among them,
  which is cut to 32 bits.
- What Avro, JSON Schema and Protobuf libraries do beyond whether a value fits.
- float64: rounding in the token bucket and in rates, and NaN as
  `-max-failure-rate`, which no rate exceeds.
- Payload builders, the HTML report and the sentences of bench's summary, the names
  of failure reasons.
- `safeModuleDir` and `sanitizeFileName`: the names they make are taken to be distinct.
- `MemoryRegistry`, a test double.
- `cmd/capture-compatibility`: eight fixed requests in a row whose responses are written
  to a file. No step depends on an earlier one.

## Plan

What is left of the code is text and numbers rather than control: the payload formats
of the schema libraries and float64. The safety properties that only TLC checks,
`CompactIsReference` and `ComparisonsSound`, need induction over data.
