------------------------------ MODULE V3Batch ------------------------------
(***************************************************************************)
(* handleV3BatchBody: entries that fail validation are set aside as        *)
(* failures, the others go to the producer in one call, and the response   *)
(* splits all of them into successes and failures.                         *)
(***************************************************************************)
EXTENDS Api, Ranks

\* Mutant: the entry just before is not looked at.
BadIdForgetful(items, i) ==
    \/ items[i].id \in {"", "long"}
    \/ \E j \in 1..(i - 2) : items[j].id = items[i].id

\* validateBatchID, with every id met so far in seen: required, at most 80
\* characters, not used before (even by an entry that could not be encoded).
BadId(items, i) ==
    \/ items[i].id \in {"", "long"}
    \/ \E j \in 1..(i - 1) : items[j].id = items[i].id

Invalid(items, i) == BadId(items, i) \/ items[i].form # "good"

\* The loop over req.Entries: what is refused, and what is left to produce.
Refused(items) == InOrder({i \in DOMAIN items : Invalid(items, i)})
Envelopes(items) == InOrder({i \in DOMAIN items : ~Invalid(items, i)})

RespondMultiStatus(c, entries) ==
    /\ status' = [status EXCEPT ![c] = 207]
    /\ sent' = [sent EXCEPT ![c] = 207]
    /\ answer' = [answer EXCEPT ![c] = entries]
    /\ Goto(c, "finish")

\* Mutant: entries that fail validation are forgotten.
InvalidEntriesDropped(items) == <<>>

InvalidEntries(items) ==
    [k \in DOMAIN Refused(items) |-> Entry(Refused(items)[k], "invalid")]

BatchDecode(c) ==
    LET items == req[c].items IN
    /\ pc[c] = "decode" /\ req[c].route = "batch"
    /\ CASE \/ req[c].body = "malformed"
            \/ items = <<>>
            \/ Len(items) > RequestMaxRecords ->
              /\ WriteAPIError(c, 400)
              /\ UNCHANGED <<answer, arg, count>>
         [] OTHER ->
              /\ count' = [count EXCEPT ![c] = Len(Envelopes(items))]
              /\ arg' = [arg EXCEPT ![c] = Envelopes(items)]
              /\ IF Envelopes(items) = <<>>
                   THEN RespondMultiStatus(c, InvalidEntries(items))
                   ELSE Goto(c, "produce") /\ UNCHANGED <<status, sent, answer>>
    /\ UNCHANGED <<admissionVars, req, ret, outcome, submitted, closeFlag, metrics>>

\* Neither a context error nor an overload is treated apart here.
BatchProduceError(c) ==
    /\ pc[c] = "returned" /\ req[c].route = "batch"
    /\ ret[c].err # "nil"
    /\ WriteAPIError(c, ClassifyProduceError(ret[c].err))
    /\ UNCHANGED <<producerVars, req, answer, count, metrics>>

\* Mutant: results are paired with the entries and not with the envelopes.
BatchRespondMispaired(c) ==
    LET items == req[c].items IN
    /\ pc[c] = "returned" /\ req[c].route = "batch"
    /\ ret[c].err = "nil"
    /\ metrics' = ObserveResults(metrics, ret[c].results)
    /\ RespondMultiStatus(c, InvalidEntries(items)
                             \o Entries([i \in DOMAIN items |-> i], ret[c].results))
    /\ UNCHANGED <<producerVars, req, count>>

BatchRespond(c) ==
    /\ pc[c] = "returned" /\ req[c].route = "batch"
    /\ ret[c].err = "nil"
    /\ metrics' = ObserveResults(metrics, ret[c].results)
    /\ RespondMultiStatus(c, InvalidEntries(req[c].items)
                             \o Entries(arg[c], ret[c].results))
    /\ UNCHANGED <<producerVars, req, count>>

BatchStep(c) == BatchDecode(c) \/ BatchProduceError(c) \/ BatchRespond(c)

=============================================================================
