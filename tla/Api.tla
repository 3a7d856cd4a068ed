-------------------------------- MODULE Api --------------------------------
(***************************************************************************)
(* What the three produce handlers of internal/api have in common: the     *)
(* bearer-token middleware, the tests before the body is read, the body,   *)
(* the deferred metrics, and the call of the shared producer.              *)
(*                                                                         *)
(* Each request runs on its own goroutine; a step goes from one point      *)
(* where a goroutine may wait, or touches state that others share, to the  *)
(* next.  The producer is taken at the level of ProduceContract.  A rate   *)
(* limiter may give either verdict; which one is the subject of            *)
(* RateLimiter.                                                            *)
(***************************************************************************)
EXTENDS Admission, Metrics, Sequences, FiniteSetsExt

CONSTANTS
    Clients,            \* one request each
    Traffic,            \* what they may send: a request for each client
    RequestMaxRecords   \* cfg.MaxRecords

VARIABLES
    req,        \* req[c]: the request of c
    pc,         \* where its goroutine is
    status,     \* the handler's status variable
    sent,       \* the status line the client got; 0 before
    answer,     \* the per-record part of the response, in order
    count,      \* the handler's recordCount
    arg,        \* the items passed to Produce, by index
    ret,        \* what Produce returned
    outcome,    \* history: outcome[c][i] is what Kafka said of item i
    submitted,  \* history: the items handed to franz-go
    closeFlag,  \* the producer's closeFlag
    metrics

apiVars == <<admissionVars, req, pc, status, sent, answer, count,
             arg, ret, outcome, submitted, closeFlag, metrics>>

Routes == {"v2", "stream", "batch"}
Bodies == {"ok", "tooLarge", "broken", "malformed"}
Forms == {"good", "bad", "malformed", "tooLarge"}
Verdicts == {"ok", "failed", "invalid", "error"}

\* A request: the tests that it fails, and the items of its body.
Requests == [route : Routes, faults : SUBSET STRING, body : Bodies,
             items : Seq([form : Forms, id : STRING])]

ASSUME TrafficAssumption ==
    /\ IsFiniteSet(Clients)
    /\ Traffic \subseteq [Clients -> Requests]
    /\ RequestMaxRecords \in Nat

\* The tests before the body is read, in the handlers' order, with the status
\* each one ends in.
Gates == << <<"method", 405>>, <<"path", 404>>, <<"topic", 403>>,
            <<"accept", 406>>, <<"contentType", 415>> >>

NoReturn == [err |-> "none", results |-> <<>>]

ApiInit ==
    /\ AdmissionInit
    /\ req \in Traffic
    /\ pc = [c \in Clients |-> "idle"]
    /\ status = [c \in Clients |-> 200]
    /\ sent = [c \in Clients |-> 0]
    /\ answer = [c \in Clients |-> <<>>]
    /\ count = [c \in Clients |-> 0]
    /\ arg = [c \in Clients |-> <<>>]
    /\ ret = [c \in Clients |-> NoReturn]
    /\ outcome = [c \in Clients |-> [i \in DOMAIN req[c].items |-> "none"]]
    /\ submitted = [c \in Clients |-> {}]
    /\ closeFlag = FALSE
    /\ metrics = NoMetrics

Goto(c, label) == pc' = [pc EXCEPT ![c] = label]

\* writeAPIError and return: the status variable and the status line agree.
WriteAPIError(c, st) ==
    /\ status' = [status EXCEPT ![c] = st]
    /\ sent' = [sent EXCEPT ![c] = st]
    /\ Goto(c, "finish")

producerVars == <<admissionVars, arg, ret, outcome, submitted, closeFlag>>

-----------------------------------------------------------------------------
\* authMiddleware turns the request away before any handler runs.
Unauthorized(c) ==
    /\ pc[c] = "idle"
    /\ "auth" \in req[c].faults
    /\ sent' = [sent EXCEPT ![c] = 401]
    /\ Goto(c, "done")
    /\ UNCHANGED <<producerVars, req, status, answer, count, metrics>>

Enter(c) ==
    /\ pc[c] = "idle"
    /\ "auth" \notin req[c].faults
    /\ metrics' = IncOutstanding(metrics)
    /\ Goto(c, "gate")
    /\ UNCHANGED <<producerVars, req, status, sent, answer, count>>

Gate(c) ==
    LET failed == {i \in DOMAIN Gates : Gates[i][1] \in req[c].faults} IN
    /\ pc[c] = "gate"
    /\ IF failed # {}
         THEN WriteAPIError(c, Gates[Min(failed)][2])
         ELSE Goto(c, "requestRate") /\ UNCHANGED <<status, sent>>
    /\ UNCHANGED <<producerVars, req, answer, count, metrics>>

RequestRate(c) ==
    /\ pc[c] = "requestRate"
    /\ \/ /\ WriteAPIError(c, 429)
          /\ metrics' = ObserveRateLimitRejected(metrics)
       \/ /\ Goto(c, IF req[c].route = "stream" THEN "read" ELSE "body")
          /\ UNCHANGED <<status, sent, metrics>>
    /\ UNCHANGED <<producerVars, req, answer, count>>

\* readRequestBody returns; the stream reads as it goes instead.
ReadBody(c) ==
    /\ pc[c] = "body"
    /\ CASE req[c].body = "tooLarge" -> WriteAPIError(c, 413)
         [] req[c].body = "broken" -> WriteAPIError(c, 400)
         [] OTHER -> Goto(c, "byteRate") /\ UNCHANGED <<status, sent>>
    /\ UNCHANGED <<producerVars, req, answer, count, metrics>>

ByteRate(c) ==
    /\ pc[c] = "byteRate"
    /\ \/ /\ WriteAPIError(c, 429)
          /\ metrics' = ObserveRateLimitRejected(metrics)
       \/ /\ Goto(c, "decode")
          /\ UNCHANGED <<status, sent, metrics>>
    /\ UNCHANGED <<producerVars, req, answer, count>>

\* The deferred calls, last one first.
Finish(c) ==
    /\ pc[c] = "finish"
    /\ metrics' = DecOutstanding(ObserveRequest(metrics, status[c], count[c]))
    /\ Goto(c, "done")
    /\ UNCHANGED <<producerVars, req, status, sent, answer, count>>

-----------------------------------------------------------------------------
(***************************************************************************)
(* h.producer.Produce, as FranzProducer implements it: refused, or admitted *)
(* and then answered for every record, or given up when the context ends.  *)
(***************************************************************************)
handlerVars == <<req, status, sent, answer, count, metrics>>

Return(c, err, results) ==
    /\ ret' = [ret EXCEPT ![c] = [err |-> err, results |-> results]]
    /\ Goto(c, "returned")

CheckClosed(c) ==
    /\ pc[c] = "produce"
    /\ IF closeFlag THEN Return(c, "closed", <<>>) ELSE Goto(c, "admit") /\ UNCHANGED ret
    /\ UNCHANGED <<admissionVars, handlerVars, arg, outcome, submitted, closeFlag>>

ProduceOverloaded(c) ==
    /\ pc[c] = "admit"
    /\ ~Fits(Len(arg[c]), Len(arg[c]))
    /\ Return(c, "overloaded", <<>>)
    /\ UNCHANGED <<admissionVars, handlerVars, arg, outcome, submitted, closeFlag>>

ProduceAdmitted(c) ==
    /\ pc[c] = "admit"
    /\ Acquire(Len(arg[c]), Len(arg[c]))
    /\ submitted' = [submitted EXCEPT ![c] = @ \cup {arg[c][i] : i \in DOMAIN arg[c]}]
    /\ Goto(c, "waiting")
    /\ UNCHANGED <<handlerVars, arg, ret, outcome, closeFlag>>

ProduceResults(c) ==
    /\ pc[c] = "waiting"
    /\ Release(Len(arg[c]), Len(arg[c]))
    /\ \E results \in [DOMAIN arg[c] -> {"ok", "failed"}] :
          /\ Return(c, "nil", results)
          /\ outcome' = [outcome EXCEPT ![c] =
                [i \in DOMAIN @ |-> IF \E k \in DOMAIN arg[c] : arg[c][k] = i
                                      THEN results[CHOOSE k \in DOMAIN arg[c] : arg[c][k] = i]
                                      ELSE @[i]]]
    /\ UNCHANGED <<handlerVars, arg, submitted, closeFlag>>

\* Mutant: the context passed on has no deadline.
ProduceNeverExpires(c) == pc[c] = "waiting" /\ closeFlag /\ UNCHANGED apiVars

\* The deadline of context.WithTimeout, or the client has gone.
ProduceExpired(c) ==
    /\ pc[c] = "waiting"
    /\ Release(Len(arg[c]), Len(arg[c]))
    /\ Return(c, "ctxErr", <<>>)
    /\ UNCHANGED <<handlerVars, arg, outcome, submitted, closeFlag>>

\* The items of a call that gave up: Produce has no result for any of them.
GivenUp(c) == IF ret[c].err = "ctxErr" THEN {arg[c][k] : k \in DOMAIN arg[c]} ELSE {}

\* Kafka acknowledges one of them all the same; its callback has nobody to tell.
AcknowledgedLate(c) ==
    /\ \E i \in GivenUp(c) :
          /\ outcome[c][i] = "none"
          /\ outcome' = [outcome EXCEPT ![c][i] = "ok"]
    /\ UNCHANGED <<admissionVars, handlerVars, pc, arg, ret, submitted, closeFlag>>

\* classifyProduceError.
ClassifyProduceError(err) ==
    CASE err = "overloaded" -> 429
      [] err = "timeout" -> 504
      [] OTHER -> 503

\* Mutant: context errors are not recognised.
AsTimeoutNever(err) == err

\* errors.Is(err, context.Canceled or DeadlineExceeded) becomes errContextCanceled.
AsTimeout(err) == IF err = "ctxErr" THEN "timeout" ELSE err

CountOf(results, verdict) == Cardinality({k \in DOMAIN results : results[k] = verdict})

\* Mutant: a failed result counts as a success.
ObserveResultsAll(m, results) == ObserveProduceResult(m, Len(results), 0)

\* countResultStatus and ObserveProduceResult.
ObserveResults(m, results) ==
    ObserveProduceResult(m, CountOf(results, "ok"), CountOf(results, "failed"))

Entry(index, verdict) == [index |-> index, verdict |-> verdict]
Entries(indexes, results) == [k \in DOMAIN results |-> Entry(indexes[k], results[k])]

Arrive(c) == Unauthorized(c) \/ Enter(c)

\* What waits neither for the client nor for Kafka.
CommonStep(c) ==
    \/ Gate(c) \/ RequestRate(c) \/ ByteRate(c) \/ Finish(c)
    \/ CheckClosed(c) \/ ProduceOverloaded(c) \/ ProduceAdmitted(c) \/ ProduceExpired(c)

=============================================================================
