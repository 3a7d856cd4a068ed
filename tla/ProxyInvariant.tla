--------------------------- MODULE ProxyInvariant ---------------------------
(***************************************************************************)
(* The inductive invariant behind the safety properties of Proxy: where a  *)
(* request is in its handler, and what follows for its status line, its    *)
(* answer, its call of Produce and the records it gave to franz-go.        *)
(***************************************************************************)
EXTENDS Proxy

BeforeDecoding == {"idle", "gate", "requestRate", "body", "byteRate", "decode"}
Streaming == {"read", "streamRate"}
Calling == {"produce", "admit", "waiting", "returned"}
Over == {"finish", "done"}

Stages == BeforeDecoding \cup Streaming \cup Calling \cup Over
Errors == {"closed", "overloaded", "ctxErr", "nil"}
Refusals == {400, 403, 404, 405, 406, 413, 415, 422, 429, 503, 504}
MainStages == {"serving", "draining", "closing", "failing",
               "closedOk", "closedErr", "exitOk", "exitErr"}

AnswerEntries == [index : Nat, verdict : Verdicts]
Results == {"ok", "failed"}
Outcomes == {"none"} \cup Results
Returns == [err : Errors \cup {"none"}, results : Seq(Results)]
Counters == [outstanding : Int, requests : [2..5 -> Nat], accepted : Nat,
             produced : Nat, failed : Nat, rejections : Nat, rateRejections : Nat]

Items(c) == DOMAIN req[c].items

ProxyTypeOK ==
    /\ req \in [Clients -> Requests]
    /\ pc \in [Clients -> Stages]
    /\ status \in [Clients -> Nat]
    /\ sent \in [Clients -> Nat]
    /\ answer \in [Clients -> Seq(AnswerEntries)]
    /\ count \in [Clients -> Nat]
    /\ arg \in [Clients -> Seq(Nat)]
    /\ ret \in [Clients -> Returns]
    /\ outcome \in [Clients -> Seq(Outcomes)]
    /\ submitted \in [Clients -> SUBSET Nat]
    /\ closeFlag \in BOOLEAN
    /\ metrics \in Counters
    /\ pos \in [Clients -> Nat]
    /\ wrote \in [Clients -> BOOLEAN]
    /\ main \in MainStages

-----------------------------------------------------------------------------
\* Nothing has happened yet that a client or Kafka could see.
Untouched(c) ==
    /\ status[c] = 200 /\ sent[c] = 0 /\ answer[c] = <<>> /\ count[c] = 0
    /\ submitted[c] = {} /\ pos[c] = 0 /\ ~wrote[c]

\* The route decides which points of the handlers a request passes.
PhaseInv(c) ==
    /\ pc[c] \in BeforeDecoding => Untouched(c)
    /\ pc[c] \in {"body", "byteRate", "decode"} => req[c].route # "stream"
    /\ pc[c] \in Streaming => req[c].route = "stream"
    /\ pc[c] = "finish" => status[c] = sent[c] /\ sent[c] \in {200, 207} \cup Refusals
    /\ pc[c] = "done" => sent[c] \in {200, 207, 401} \cup Refusals

\* What was submitted by earlier calls of Produce.
Earlier(c) == IF req[c].route = "stream" THEN 1..(pos[c] - 1) ELSE {}
Passed(c) == {arg[c][k] : k \in DOMAIN arg[c]}

\* A call of Produce passes each item at most once, hands over all of them or
\* none, and returns a result for each.
CallInv(c) ==
    /\ arg[c] # <<>>
    /\ \A k \in DOMAIN arg[c] : arg[c][k] \in Items(c) /\ arg[c][k] <= RequestMaxRecords
    /\ \A j, k \in DOMAIN arg[c] : arg[c][j] = arg[c][k] => j = k
    /\ req[c].route = "v2" => arg[c] = [i \in Items(c) |-> i]
    /\ req[c].route = "batch" => arg[c] = Envelopes(req[c].items)
    /\ req[c].route = "stream" => arg[c] = <<pos[c]>>
    /\ submitted[c] \subseteq Earlier(c) \cup Passed(c)
    /\ pc[c] \in {"produce", "admit"} => submitted[c] \subseteq Earlier(c)
    /\ pc[c] = "returned" =>
          /\ ret[c].err \in Errors
          /\ ret[c].err \in {"closed", "overloaded"} => submitted[c] \subseteq Earlier(c)
          /\ ret[c].err = "nil" =>
                /\ Len(ret[c].results) = Len(arg[c])
                /\ \A k \in DOMAIN arg[c] : outcome[c][arg[c][k]] = ret[c].results[k]

\* The routes that decode the body as a whole.
WholeInv(c) ==
    /\ pc[c] \in Calling => status[c] = 200 /\ sent[c] = 0 /\ answer[c] = <<>>
    /\ pc[c] \in Over /\ sent[c] >= 400 /\ sent[c] # TimeoutStatus(req[c].route) =>
          submitted[c] = {}
    /\ pc[c] \in Over /\ sent[c] < 400 =>
          /\ req[c].route = "v2" =>
                /\ Len(answer[c]) = Len(req[c].items)
                /\ \A k \in DOMAIN answer[c] : answer[c][k].index = k
          /\ req[c].route = "batch" =>
                /\ Len(answer[c]) = Len(req[c].items)
                /\ \A k \in DOMAIN answer[c] : answer[c][k].index \in Items(c)
                /\ \A i \in Items(c) : \E k \in DOMAIN answer[c] : answer[c][k].index = i
    /\ req[c].route = "batch" => \A i \in submitted[c] : i \in Items(c) /\ ~Invalid(req[c].items, i)

\* The stream: one report for each record consumed, the first with the status.
StreamInv(c) ==
    /\ wrote[c] <=> answer[c] # <<>>
    /\ wrote[c] => status[c] = 200 /\ sent[c] = 200
    /\ ~wrote[c] /\ pc[c] \notin Over => status[c] = 200 /\ sent[c] = 0
    /\ ~wrote[c] /\ pc[c] \in Over => sent[c] >= 400
    /\ \A k \in DOMAIN answer[c] : answer[c][k].index = k
    /\ pos[c] <= Len(req[c].items)
    /\ pc[c] = "read" => count[c] = pos[c] /\ Len(answer[c]) = pos[c]
    /\ pc[c] = "streamRate" => pos[c] > 0 /\ count[c] = pos[c] - 1 /\ Len(answer[c]) = pos[c] - 1
    /\ pc[c] \in Calling => pos[c] > 0 /\ count[c] = pos[c] /\ Len(answer[c]) = pos[c] - 1
    /\ pc[c] \in Streaming => submitted[c] \subseteq 1..Len(answer[c])
    /\ pc[c] \in Over /\ wrote[c] => submitted[c] \subseteq 1..Len(answer[c])
    /\ pc[c] \in Over /\ ~wrote[c] /\ sent[c] # 504 => submitted[c] = {}

TruthInv(c) ==
    \A k \in DOMAIN answer[c] :
        /\ answer[c][k].verdict \in {"ok", "failed"} =>
              outcome[c][answer[c][k].index] = answer[c][k].verdict
        /\ answer[c][k].verdict = "invalid" => answer[c][k].index \notin submitted[c]

RequestInv(c) ==
    /\ PhaseInv(c)
    /\ DOMAIN outcome[c] = Items(c)
    /\ pc[c] \in Calling => CallInv(c)
    /\ req[c].route # "stream" => WholeInv(c)
    /\ req[c].route = "stream" => StreamInv(c)
    /\ TruthInv(c)
    /\ ret[c].err = "closed" => closeFlag

\* The producer is closed at the end, and a clean end has drained before.
MainInv ==
    /\ closeFlag <=> main \in {"closedOk", "closedErr", "exitOk", "exitErr"}
    /\ main \in {"closing", "closedOk", "exitOk"} =>
          \A c \in Clients : ~Active(c) /\ ret[c].err # "closed"

\* The counter of acknowledged records is the number of records that clients
\* were told had been acknowledged.
ProducedIsReported ==
    metrics.produced =
        Cardinality({r \in Clients \X (1..(RequestMaxRecords + 1)) :
                        \E k \in DOMAIN answer[r[1]] : answer[r[1]][k] = Entry(r[2], "ok")})

ProxyInv ==
    /\ ProxyTypeOK
    /\ \A c \in Clients : RequestInv(c)
    /\ MainInv
    /\ ObservedWhatWasSent
    /\ ProducedIsReported

\* The handler was told that item i is acknowledged, and is yet to report it.
AtHand(c, i) == pc[c] = "returned" /\ ret[c].err = "nil" /\ i \in Passed(c)

Reported(c, i) == \E k \in DOMAIN answer[c] : answer[c][k] = Entry(i, "ok")

\* What Kafka acknowledged is reported, or about to be, or given up.
AckInv(c) ==
    /\ \A i \in Items(c) : outcome[c][i] = "ok" =>
          Reported(c, i) \/ AtHand(c, i) \/ i \in GivenUp(c)
    /\ \A k \in DOMAIN answer[c] : answer[c][k].verdict = "ok" =>
          answer[c][k].index \in Items(c) /\ answer[c][k].index \notin GivenUp(c)
    /\ ret[c].err = "ctxErr" => pc[c] \in {"returned"} \cup Over

=============================================================================
