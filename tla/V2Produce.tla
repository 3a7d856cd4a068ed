----------------------------- MODULE V2Produce -----------------------------
(***************************************************************************)
(* handleTopicProduce: the body is decoded as a whole, every record of it  *)
(* goes to the producer in one call, and the results come back in order.   *)
(***************************************************************************)
EXTENDS Api

\* The status decodeProduceRequestWithSchema ends in; 200 if it succeeds.
V2DecodeStatus(c) ==
    LET items == req[c].items IN
    CASE req[c].body = "malformed" -> 400
      [] items = <<>> -> 422
      [] Len(items) > RequestMaxRecords -> 400
      [] \E i \in DOMAIN items : items[i].form # "good" -> 400
      [] OTHER -> 200

V2Decode(c) ==
    /\ pc[c] = "decode" /\ req[c].route = "v2"
    /\ IF V2DecodeStatus(c) # 200
         THEN /\ WriteAPIError(c, V2DecodeStatus(c))
              /\ UNCHANGED <<arg, count>>
         ELSE /\ arg' = [arg EXCEPT ![c] = [i \in DOMAIN req[c].items |-> i]]
              /\ count' = [count EXCEPT ![c] = Len(req[c].items)]
              /\ Goto(c, "produce")
              /\ UNCHANGED <<status, sent>>
    /\ UNCHANGED <<admissionVars, req, answer, ret, outcome, submitted, closeFlag, metrics>>

V2ProduceError(c) ==
    /\ pc[c] = "returned" /\ req[c].route = "v2"
    /\ ret[c].err # "nil"
    /\ WriteAPIError(c, ClassifyProduceError(AsTimeout(ret[c].err)))
    /\ metrics' = IF ret[c].err = "overloaded"
                    THEN ObserveAdmissionRejected(metrics) ELSE metrics
    /\ UNCHANGED <<producerVars, req, answer, count>>

V2Respond(c) ==
    /\ pc[c] = "returned" /\ req[c].route = "v2"
    /\ ret[c].err = "nil"
    /\ metrics' = ObserveResults(metrics, ret[c].results)
    /\ sent' = [sent EXCEPT ![c] = status[c]]
    /\ answer' = [answer EXCEPT ![c] = Entries(arg[c], ret[c].results)]
    /\ Goto(c, "finish")
    /\ UNCHANGED <<producerVars, req, status, count>>

V2Step(c) == V2Decode(c) \/ V2ProduceError(c) \/ V2Respond(c)

=============================================================================
