------------------------------ MODULE V3Stream ------------------------------
(***************************************************************************)
(* handleV3RecordStream: records are decoded, produced and reported one at *)
(* a time.  The first report sends the status line; from then on an error  *)
(* can only be one more line of the body.  A record that cannot be encoded *)
(* gets its report and the stream goes on; any other error ends it.        *)
(***************************************************************************)
EXTENDS Api

VARIABLES
    pos,    \* how many items the decoder has consumed
    wrote   \* the handler's wrote variable

streamVars == <<pos, wrote>>

StreamInit ==
    /\ pos = [c \in Clients |-> 0]
    /\ wrote = [c \in Clients |-> FALSE]

Append1(c, entry) == answer' = [answer EXCEPT ![c] = Append(@, entry)]

\* writeRecordResponse, and on to the next record.
WriteRecordResponse(c, entry) ==
    /\ Append1(c, entry)
    /\ wrote' = [wrote EXCEPT ![c] = TRUE]
    /\ IF wrote[c]
         THEN UNCHANGED <<status, sent>>
         ELSE /\ status' = [status EXCEPT ![c] = 200]
              /\ sent' = [sent EXCEPT ![c] = 200]
    /\ Goto(c, "read")

\* Mutant: the status variable follows the error although the line is out.
StreamFailureRestated(c, st) ==
    /\ status' = [status EXCEPT ![c] = st]
    /\ IF wrote[c]
         THEN Append1(c, Entry(pos'[c], "error")) /\ UNCHANGED sent
         ELSE sent' = [sent EXCEPT ![c] = st] /\ UNCHANGED answer
    /\ Goto(c, "finish")
    /\ UNCHANGED wrote

\* Mutant: the error goes out as a status line, even after the first report.
StreamFailureResent(c, st) ==
    /\ WriteAPIError(c, st)
    /\ UNCHANGED <<answer, wrote>>

\* writeStreamError or writeAPIError, whichever is still possible, and return.
StreamFailure(c, st) ==
    /\ IF wrote[c]
         THEN /\ Append1(c, Entry(pos'[c], "error"))
              /\ Goto(c, "finish")
              /\ UNCHANGED <<status, sent>>
         ELSE WriteAPIError(c, st) /\ UNCHANGED answer
    /\ UNCHANGED wrote

-----------------------------------------------------------------------------
\* dec.Decode returns: the next item, or an error.
StreamDecode(c) ==
    /\ pc[c] = "read"
    /\ pos[c] < Len(req[c].items)
    /\ pos' = [pos EXCEPT ![c] = @ + 1]
    /\ LET form == req[c].items[pos[c] + 1].form IN
       CASE form = "tooLarge" -> StreamFailure(c, 413)
         [] form = "malformed" -> StreamFailure(c, 400)
         [] OTHER -> Goto(c, "streamRate") /\ UNCHANGED <<status, sent, answer, wrote>>
    /\ UNCHANGED <<producerVars, req, count, metrics>>

\* The end of the body.
StreamEOF(c) ==
    /\ pc[c] = "read"
    /\ pos[c] = Len(req[c].items)
    /\ IF count[c] = 0
         THEN WriteAPIError(c, 400)
         ELSE Goto(c, "finish") /\ UNCHANGED <<status, sent>>
    /\ UNCHANGED <<producerVars, req, answer, count, metrics, streamVars>>

StreamRateRefused(c) ==
    /\ pc[c] = "streamRate"
    /\ metrics' = ObserveProduceResult(ObserveRateLimitRejected(metrics), 0, 1)
    /\ pos' = pos
    /\ StreamFailure(c, 429)
    /\ UNCHANGED <<producerVars, req, count>>

\* The record is paid for: it is counted, encoded, and handed to Produce.
StreamRecord(c) ==
    LET item == req[c].items[pos[c]] IN
    /\ pc[c] = "streamRate"
    /\ pos' = pos
    /\ count' = [count EXCEPT ![c] = @ + 1]
    /\ CASE count[c] + 1 > RequestMaxRecords ->
              /\ metrics' = ObserveProduceResult(metrics, 0, 1)
              /\ StreamFailure(c, 400)
              /\ UNCHANGED arg
         [] count[c] + 1 <= RequestMaxRecords /\ item.form = "bad" ->
              /\ metrics' = ObserveProduceResult(metrics, 0, 1)
              /\ WriteRecordResponse(c, Entry(pos[c], "invalid"))
              /\ UNCHANGED arg
         [] OTHER ->
              /\ arg' = [arg EXCEPT ![c] = <<pos[c]>>]
              /\ Goto(c, "produce")
              /\ UNCHANGED <<status, sent, answer, wrote, metrics>>
    /\ UNCHANGED <<admissionVars, req, ret, outcome, submitted, closeFlag>>

StreamProduceError(c) ==
    LET failed == ObserveProduceResult(metrics, 0, 1) IN
    /\ pc[c] = "returned" /\ req[c].route = "stream"
    /\ ret[c].err # "nil"
    /\ metrics' = IF ret[c].err = "overloaded"
                    THEN ObserveAdmissionRejected(failed) ELSE failed
    /\ pos' = pos
    /\ StreamFailure(c, ClassifyProduceError(AsTimeout(ret[c].err)))
    /\ UNCHANGED <<producerVars, req, count>>

StreamReport(c) ==
    /\ pc[c] = "returned" /\ req[c].route = "stream"
    /\ ret[c].err = "nil"
    /\ metrics' = ObserveResults(metrics, ret[c].results)
    /\ pos' = pos
    /\ WriteRecordResponse(c, Entry(pos[c], ret[c].results[1]))
    /\ UNCHANGED <<producerVars, req, count>>

\* What waits for the client's next bytes, and what does not.
StreamRead(c) == StreamDecode(c) \/ StreamEOF(c)
StreamStep(c) ==
    \/ StreamRateRefused(c) \/ StreamRecord(c)
    \/ StreamProduceError(c) \/ StreamReport(c)

=============================================================================
