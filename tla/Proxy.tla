------------------------------- MODULE Proxy -------------------------------
(***************************************************************************)
(* The server: concurrent requests on the three produce routes, the        *)
(* producer they share, and run() of cmd/kafka-rest-proxy-go, which serves *)
(* until a signal or a listener error, drains, closes the producer, exits. *)
(***************************************************************************)
EXTENDS V2Produce, V3Stream, V3Batch

VARIABLE main   \* where run() is

proxyVars == <<apiVars, streamVars, main>>

Exited == main \in {"exitOk", "exitErr"}
Active(c) == pc[c] \notin {"idle", "done"}

ProxyInit == ApiInit /\ StreamInit /\ main = "serving"

-----------------------------------------------------------------------------
\* The steps of a request that wait for others: it arrives, while the
\* listener is open, its body comes in, and Kafka settles its records.
OutsideStep(c) ==
    \/ main = "serving" /\ Arrive(c) /\ UNCHANGED <<streamVars, main>>
    \/ ~Exited /\ ReadBody(c) /\ UNCHANGED <<streamVars, main>>
    \/ ~Exited /\ StreamRead(c) /\ UNCHANGED main
    \/ ~Exited /\ (ProduceResults(c) \/ AcknowledgedLate(c)) /\ UNCHANGED <<streamVars, main>>

\* The steps that the server takes by itself.
ServerStep(c) ==
    /\ ~Exited
    /\ UNCHANGED main
    /\ \/ (CommonStep(c) \/ V2Step(c) \/ BatchStep(c)) /\ UNCHANGED streamVars
       \/ StreamStep(c)

\* The signal ends the select, and srv.Shutdown closes the listener.
Signal ==
    /\ main = "serving"
    /\ main' = "draining"
    /\ UNCHANGED <<apiVars, streamVars>>

\* ListenAndServe fails: run returns its error, and the deferred calls run.
ListenerError ==
    /\ main = "serving"
    /\ main' = "failing"
    /\ UNCHANGED <<apiVars, streamVars>>

\* Mutant: Shutdown is not waited for.
DrainedAtOnce ==
    /\ main = "draining"
    /\ main' = "closing"
    /\ UNCHANGED <<apiVars, streamVars>>

\* srv.Shutdown returns nil once no request is being served.
Drained ==
    /\ main = "draining"
    /\ \A c \in Clients : ~Active(c)
    /\ main' = "closing"
    /\ UNCHANGED <<apiVars, streamVars>>

\* Mutant: the drain has no deadline.
DrainWithoutTimeout == Drained

\* cfg.ShutdownTimeout: Shutdown returns its context's error, and so does run.
DrainTimeout ==
    /\ main = "draining"
    /\ main' = "failing"
    /\ UNCHANGED <<apiVars, streamVars>>

\* prod.Close(), called at the end or deferred; the second call does nothing.
CloseProducer ==
    /\ main \in {"closing", "failing"}
    /\ closeFlag' = TRUE
    /\ main' = IF main = "closing" THEN "closedOk" ELSE "closedErr"
    /\ UNCHANGED <<admissionVars, req, pc, status, sent, answer, count, arg, ret,
                   outcome, submitted, metrics, streamVars>>

\* run returns and the process ends, with whatever is still in progress.
Exit ==
    /\ main \in {"closedOk", "closedErr"}
    /\ main' = IF main = "closedOk" THEN "exitOk" ELSE "exitErr"
    /\ UNCHANGED <<apiVars, streamVars>>

MainStep == Drained \/ DrainTimeout \/ CloseProducer \/ Exit

ProxyNext ==
    \/ \E c \in Clients : OutsideStep(c) \/ ServerStep(c)
    \/ Signal \/ ListenerError \/ MainStep

(***************************************************************************)
(* Goroutines that can run do run, Produce returns by its deadline, and    *)
(* the shutdown timer fires.  Nothing is assumed of Kafka, nor of clients: *)
(* no timeout covers the reading of a body (ReadHeaderTimeout does not).   *)
(***************************************************************************)
ProxyFairness ==
    /\ \A c \in Clients : WF_proxyVars(ServerStep(c))
    /\ WF_proxyVars(MainStep)

ProxySafety == ProxyInit /\ [][ProxyNext]_proxyVars
ProxySpec == ProxySafety /\ ProxyFairness

-----------------------------------------------------------------------------
(***************************************************************************)
(* The request counter and the gauge tell what clients saw: for every      *)
(* status class, as many requests as were answered with it by a handler,   *)
(* whichever of its many returns the handler took; and the gauge counts    *)
(* the handlers still running.                                             *)
(***************************************************************************)
ObservedWhatWasSent ==
    /\ \A class \in 2..5 :
          metrics.requests[class] =
              Cardinality({c \in Clients : /\ pc[c] = "done" /\ sent[c] # 401
                                           /\ StatusClass(sent[c]) = class})
    /\ metrics.outstanding = Cardinality({c \in Clients : Active(c)})

(***************************************************************************)
(* A request is answered with one status line, and a streamed one is not   *)
(* given another when it fails half-way.                                   *)
(***************************************************************************)
StatusSentOnce ==
    [][\A c \in Clients : sent[c] # 0 => sent'[c] = sent[c]]_sent

\* The status of a request whose call gave up: handleV3BatchBody does not tell
\* it from that of a closed producer.
TimeoutStatus(route) == IF route = "batch" THEN 503 ELSE 504

(***************************************************************************)
(* A client that gets any error other than the one for a call that gave up,*)
(* 504 or on the batch route 503, knows that nothing of its request went to*)
(* Kafka, and may send it again.                                           *)
(***************************************************************************)
OnlyTimeoutIsAmbiguous ==
    \A c \in Clients :
        sent[c] >= 400 /\ sent[c] # TimeoutStatus(req[c].route) => submitted[c] = {}

(***************************************************************************)
(* What the response says of a record is what Kafka said of that record,   *)
(* and a record reported as invalid never went to Kafka.                   *)
(***************************************************************************)
AnswersTruthful ==
    \A c \in Clients : \A k \in DOMAIN answer[c] :
        LET e == answer[c][k] IN
        /\ e.verdict \in {"ok", "failed"} => outcome[c][e.index] = e.verdict
        /\ e.verdict = "invalid" => e.index \notin submitted[c]

(***************************************************************************)
(* A successful response covers the records: v2 all of them in order, a    *)
(* batch each entry exactly once, a stream one report after the other from *)
(* the first record, with no submitted record left out.                    *)
(***************************************************************************)
AnswersComplete ==
    \A c \in Clients : pc[c] \in {"finish", "done"} /\ sent[c] \in {200, 207} =>
        LET items == DOMAIN req[c].items
            indexes == [k \in DOMAIN answer[c] |-> answer[c][k].index]
            covered == {indexes[k] : k \in DOMAIN indexes}
        IN  CASE req[c].route = "v2" -> indexes = [i \in items |-> i]
              [] req[c].route = "batch" -> covered = items /\ Len(indexes) = Len(req[c].items)
              [] OTHER -> /\ indexes = [k \in DOMAIN indexes |-> k]
                          /\ submitted[c] \subseteq covered

(***************************************************************************)
(* No two entries of a batch that share an id both reach Kafka, so the ids *)
(* of the successes identify them.                                         *)
(***************************************************************************)
BatchIdsProducedOnce ==
    \A c \in Clients : req[c].route = "batch" =>
        \A i, j \in submitted[c] : i # j => req[c].items[i].id # req[c].items[j].id

\* The records that Kafka has acknowledged.
Acknowledged ==
    {r \in Clients \X (1..(RequestMaxRecords + 1)) :
        r[2] \in DOMAIN outcome[r[1]] /\ outcome[r[1]][r[2]] = "ok"}

(***************************************************************************)
(* The counter of acknowledged records misses those of calls that gave up, *)
(* which may be acknowledged all the same (see AcknowledgedIsCounted), and *)
(* nothing else: once no handler has results at hand, every other record   *)
(* that Kafka acknowledged is counted, and is counted once, whatever route *)
(* it came by and whatever became of the others of its request.            *)
(***************************************************************************)
AcknowledgementsCounted ==
    (\A c \in Clients : pc[c] # "returned") =>
        metrics.produced = Cardinality({r \in Acknowledged : r[2] \notin GivenUp(r[1])})

(***************************************************************************)
(* A clean exit has answered every request that came in, and refused none  *)
(* because the producer was already closed.                                *)
(***************************************************************************)
CleanExitAnswersAll ==
    main = "exitOk" => \A c \in Clients : ~Active(c) /\ ret[c].err # "closed"

(***************************************************************************)
(* After a signal or a listener error the process ends, even when clients  *)
(* never send their bodies.                                                *)
(***************************************************************************)
ShutdownCompletes == main # "serving" ~> Exited

(***************************************************************************)
(* A request whose body is in is answered, unless the process ends first.  *)
(***************************************************************************)
BodyInIsAnswered ==
    \A c \in Clients : pc[c] = "byteRate" ~> pc[c] = "done" \/ Exited

=============================================================================
