-------------------------- MODULE ProxyCallProofs ---------------------------
(***************************************************************************)
(* The entries of a batch, the call of Produce, and what the handlers make *)
(* of its results.                                                         *)
(***************************************************************************)
EXTENDS ProxyEntryProofs

-----------------------------------------------------------------------------
(* The batch goes on with the entries that are in order. *)

LEMMA BatchDecodeStep ==
    ASSUME ProxyInv, NEW c \in Clients, BatchDecode(c), UNCHANGED streamVars, UNCHANGED main
    PROVE  Preserved(c)
<1> DEFINE items == req[c].items
           env == Envelopes(items)
           refuses == req[c].body = "malformed" \/ items = <<>> \/ Len(items) > RequestMaxRecords
<1>1. /\ Uncounted /\ pc[c] \in BeforeDecoding \ {"idle"} /\ pc[c] = "decode"
      /\ req[c].route = "batch" /\ metrics' = metrics
  BY RateLimitUncounted, Zenon DEF BatchDecode, BeforeDecoding
<1>2. CASE refuses
  <2>1. WriteAPIError(c, 400) /\ UNCHANGED <<producerVars, req, answer, count>>
    BY <1>2 DEF BatchDecode, producerVars
  <2> QED
    BY <1>1, <2>1, RefusalStep DEF Refusals
<1>3. CASE ~refuses
  <2>0. ProxyTypeOK /\ RequestInv(c) /\ Untouched(c)
    BY <1>1 DEF ProxyInv, RequestInv, PhaseInv
  <2>1. /\ Len(items) \in Nat /\ DOMAIN items = 1..Len(items)
        /\ Items(c) = DOMAIN items /\ Len(items) <= RequestMaxRecords /\ items \in ItemLists
    <3>1. items \in ItemLists /\ Len(items) \in Nat /\ DOMAIN items = 1..Len(items) /\ Items(c) = DOMAIN items
      BY <2>0, RequestFacts, Zenon DEF Items
    <3> QED
      BY <1>3, <3>1, TrafficAssumption
  <2>2. /\ env \in Seq(DOMAIN items) /\ Refused(items) \in Seq(DOMAIN items)
        /\ \A k \in DOMAIN env : ~Invalid(items, env[k])
        /\ \A k \in DOMAIN Refused(items) : Invalid(items, Refused(items)[k])
        /\ \A j, k \in DOMAIN env : env[j] = env[k] => j = k
        /\ \A i \in DOMAIN items : ~Invalid(items, i) => \E k \in DOMAIN env : env[k] = i
        /\ \A i \in DOMAIN items : Invalid(items, i) =>
              \E k \in DOMAIN Refused(items) : Refused(items)[k] = i
        /\ Len(Refused(items)) + Len(env) = Len(items)
    BY <2>1, BatchSplit, Zenon
  <2>3. env \in Seq(Nat) /\ Len(env) \in Nat
        /\ \A k \in DOMAIN env : env[k] \in Items(c) /\ env[k] <= RequestMaxRecords
    <3>1. /\ env \in Seq(Items(c)) /\ Items(c) = 1..Len(items) /\ Len(items) \in Nat
          /\ Len(items) <= RequestMaxRecords /\ RequestMaxRecords \in Nat
      BY <2>1, <2>2, TrafficAssumption, Zenon
    <3> HIDE DEF env, items
    <3> QED
      BY <3>1
  <2>4. /\ count' = [count EXCEPT ![c] = Len(env)] /\ arg' = [arg EXCEPT ![c] = env]
        /\ UNCHANGED <<req, ret, outcome, submitted, closeFlag, metrics, pos, wrote, main>>
    BY <1>3, Zenon DEF BatchDecode, streamVars
  <2>5. CASE env # <<>>
    <3>1. pc' = [pc EXCEPT ![c] = "produce"] /\ UNCHANGED <<status, sent, answer>>
      BY <1>3, <2>5, Zenon DEF BatchDecode, Goto
    <3> HIDE DEF env, items
    <3>2. ProxyTypeOK'
      BY <2>0, <2>3, <2>4, <3>1, Zenon DEF ProxyTypeOK, Stages, Calling
    <3>3. /\ Others(c) /\ pc'[c] = "produce" /\ arg'[c] = env /\ status'[c] = status[c]
          /\ sent'[c] = sent[c] /\ answer'[c] = answer[c] /\ count'[c] = Len(env)
          /\ ret'[c] = ret[c] /\ outcome'[c] = outcome[c] /\ submitted'[c] = submitted[c]
          /\ pos'[c] = pos[c] /\ wrote'[c] = wrote[c] /\ req' = req /\ closeFlag' = closeFlag
      BY <2>0, <2>4, <3>1, Zenon DEF ProxyTypeOK, Others, Same
    <3>4. RequestInv(c)'
      <4>1. pc'[c] \notin BeforeDecoding \cup Streaming \cup Over
        BY <3>3, Zenon DEF BeforeDecoding, Streaming, Over
      <4>2. PhaseInv(c)'
        BY <3>3, <4>1, Zenon DEF PhaseInv, BeforeDecoding, Over
      <4>3. (DOMAIN outcome[c] = Items(c))' /\ (ret[c].err = "closed" => closeFlag)'
        BY <2>0, <3>3, Zenon DEF RequestInv, Items
      <4>4. env = Envelopes(req[c].items)
        BY Zenon DEF env, items
      <4>5. CallInv(c)'
        <5>1. submitted'[c] = {} /\ (Items(c))' = Items(c) /\ req'[c].route = "batch"
          BY <1>1, <2>0, <3>3, Zenon DEF Untouched, Items
        <5>2. arg'[c] = Envelopes(req'[c].items) /\ pc'[c] # "returned"
          BY <3>3, <4>4, Zenon
        <5> QED
          BY <2>2, <2>3, <2>5, <3>3, <5>1, <5>2 DEF CallInv
      <4>6. WholeInv(c)'
        BY <1>1, <2>0, <3>3, <4>1, Zenon DEF WholeInv, Untouched
      <4>7. TruthInv(c)'
        BY <2>0, <3>3 DEF TruthInv, Untouched
      <4> QED
        BY <1>1, <3>3, <4>2, <4>3, <4>5, <4>6, <4>7, Zenon DEF RequestInv
    <3>5. ObservedWhatWasSent' /\ ProducedIsReported'
      BY <1>1, <3>3, CountersKept, Zenon DEF Uncounted, ProxyInv
    <3> QED
      BY <3>2, <3>3, <3>4, <3>5, Zenon DEF Preserved
  <2>6. CASE env = <<>>
    <3> DEFINE ans == InvalidEntries(items)
    <3>1. /\ status' = [status EXCEPT ![c] = 207] /\ sent' = [sent EXCEPT ![c] = 207]
          /\ answer' = [answer EXCEPT ![c] = ans] /\ pc' = [pc EXCEPT ![c] = "finish"]
      BY <1>3, <2>6, Zenon DEF BatchDecode, RespondMultiStatus, Goto
    <3>2. /\ ans \in Seq(AnswerEntries) /\ Len(ans) = Len(items)
          /\ \A k \in DOMAIN ans : ans[k].index \in DOMAIN items
          /\ \A i \in DOMAIN items : \E k \in DOMAIN ans : ans[k].index = i
          /\ \A k \in DOMAIN ans : ans[k].verdict = "invalid"
      <4>1. /\ ans \in Seq(AnswerEntries) /\ Len(ans) = Len(Refused(items))
            /\ \A k \in DOMAIN ans : ans[k] = Entry(Refused(items)[k], "invalid")
        BY <2>1, InvalidEntriesFacts, Zenon
      <4>2. /\ DOMAIN ans = 1..Len(Refused(items)) /\ DOMAIN Refused(items) = 1..Len(Refused(items))
            /\ Len(Refused(items)) = Len(items)
        BY <2>1, <2>2, <2>6, <4>1, SMTT(30)
      <4>3. ASSUME NEW i \in DOMAIN items PROVE \E k \in DOMAIN ans : ans[k].index = i
        <5>0. DOMAIN env = {}
          BY <2>6
        <5> HIDE DEF ans, env, items
        <5>1. Invalid(items, i)
          BY <2>2, <5>0, Zenon
        <5>2. PICK k \in DOMAIN Refused(items) : Refused(items)[k] = i
          BY <2>2, <5>1, Zenon
        <5>3. k \in DOMAIN ans /\ ans[k] = Entry(i, "invalid")
          BY <4>1, <4>2, <5>2, Zenon
        <5> QED
          BY <5>3 DEF Entry
      <4>4. ASSUME NEW k \in DOMAIN ans
            PROVE  ans[k].index \in DOMAIN items /\ ans[k].verdict = "invalid"
        <5>1. Refused(items)[k] \in DOMAIN items /\ ans[k] = Entry(Refused(items)[k], "invalid")
          BY <2>2, <4>1, <4>2, SMTT(30)
        <5> QED
          BY <5>1, SMTT(30) DEF Entry
      <4> QED
        BY <4>1, <4>2, <4>3, <4>4, Zenon
    <3> HIDE DEF ans, env, items
    <3>3. ProxyTypeOK'
      BY <2>0, <2>3, <2>4, <3>1, <3>2, ZenonT(60) DEF ProxyTypeOK, Stages, Over
    <3>4. /\ Others(c) /\ pc'[c] = "finish" /\ arg'[c] = env /\ status'[c] = 207
          /\ sent'[c] = 207 /\ answer'[c] = ans /\ count'[c] = Len(env)
          /\ ret'[c] = ret[c] /\ outcome'[c] = outcome[c] /\ submitted'[c] = submitted[c]
          /\ pos'[c] = pos[c] /\ wrote'[c] = wrote[c] /\ req' = req /\ closeFlag' = closeFlag
      BY <2>0, <2>4, <3>1, SMTT(30), ZenonT(60) DEF ProxyTypeOK, Others, Same
    <3>5. RequestInv(c)'
      <4>1. pc'[c] \notin BeforeDecoding \cup Streaming \cup Calling
        BY <3>4, Zenon DEF BeforeDecoding, Streaming, Calling
      <4>2. PhaseInv(c)'
        BY <3>4, <4>1, ZenonT(30) DEF PhaseInv, BeforeDecoding
      <4>3. (DOMAIN outcome[c] = Items(c))' /\ (ret[c].err = "closed" => closeFlag)'
        BY <2>0, <3>4, Zenon DEF RequestInv, Items
      <4>4. items = req[c].items /\ DOMAIN items = Items(c) /\ (Items(c))' = Items(c)
        BY <2>1, <3>4, ZenonT(60) DEF items, Items
      <4>5. WholeInv(c)'
        BY <1>1, <2>0, <3>2, <3>4, <4>1, <4>4 DEF WholeInv, Untouched
      <4>6. TruthInv(c)'
        BY <2>0, <3>2, <3>4, Zenon DEF TruthInv, Untouched
      <4> QED
        BY <1>1, <3>4, <4>1, <4>2, <4>3, <4>5, <4>6, Zenon DEF RequestInv
    <3>6. ObservedWhatWasSent' /\ ProducedIsReported'
      <4>1. \A i \in Nat : Reported(c, i)' <=> Reported(c, i)
        BY <2>0, <3>2, <3>4 DEF Reported, Untouched, Entry
      <4> QED
        BY <1>1, <3>4, <4>1, ObservedKept, ReportedKept, Zenon DEF Uncounted, ProxyInv
    <3> QED
      BY <3>3, <3>4, <3>5, <3>6, Zenon DEF Preserved
  <2> QED
    BY <2>5, <2>6, Zenon
<1> QED
  BY <1>2, <1>3, Zenon

-----------------------------------------------------------------------------
(* The call of Produce. *)

(***************************************************************************)
(* A step inside of a call: what it submits is among the items passed, and *)
(* it changes what is known of these only.                                 *)
(***************************************************************************)
LEMMA CallKeeps ==
    ASSUME NEW c \in Clients, ProxyTypeOK, RequestInv(c), req' = req, closeFlag' = closeFlag,
           pc[c] \in Calling, pc'[c] \in Calling,
           status'[c] = status[c], sent'[c] = sent[c], answer'[c] = answer[c],
           count'[c] = count[c], arg'[c] = arg[c], pos'[c] = pos[c], wrote'[c] = wrote[c],
           DOMAIN outcome'[c] = DOMAIN outcome[c],
           \A i \in DOMAIN outcome[c] \ Passed(c) : outcome'[c][i] = outcome[c][i],
           submitted'[c] \subseteq submitted[c] \cup Passed(c),
           pc'[c] \in {"produce", "admit"} => submitted'[c] \subseteq Earlier(c),
           ret'[c].err = "closed" => closeFlag,
           pc'[c] = "returned" =>
              /\ ret'[c].err \in Errors
              /\ ret'[c].err \in {"closed", "overloaded"} => submitted'[c] \subseteq Earlier(c)
              /\ ret'[c].err = "nil" =>
                    /\ Len(ret'[c].results) = Len(arg[c])
                    /\ \A k \in DOMAIN arg[c] : outcome'[c][arg[c][k]] = ret'[c].results[k]
    PROVE  RequestInv(c)'
<1>1. pc[c] \notin Over \cup Streaming /\ pc'[c] \notin BeforeDecoding \cup Over \cup Streaming
  BY Zenon DEF Over, Streaming, BeforeDecoding, Calling
<1>2. PhaseInv(c)'
  BY <1>1, Zenon DEF PhaseInv, BeforeDecoding, Over
<1>3. (DOMAIN outcome[c] = Items(c))' /\ (ret[c].err = "closed" => closeFlag)'
  BY Zenon DEF RequestInv, Items
<1>4. CallInv(c)
  BY Zenon DEF RequestInv
<1>5. Passed(c)' = Passed(c) /\ Earlier(c)' = Earlier(c) /\ Items(c)' = Items(c)
  BY SMTT(30) DEF Passed, Earlier, Items
<1>6. CallInv(c)'
  <2>1. submitted'[c] \subseteq Earlier(c) \cup Passed(c)
    BY <1>4, Zenon DEF CallInv
  <2> QED
    BY <1>4, <1>5, <2>1, SMTT(30) DEF CallInv
<1>7. req[c].route # "stream" => answer[c] = <<>> /\ status[c] = 200 /\ sent[c] = 0
  BY Zenon DEF RequestInv, WholeInv
<1>8. (req[c].route # "stream" => WholeInv(c))'
  <2>1. ASSUME req[c].route = "batch", NEW i \in submitted'[c]
        PROVE  i \in Items(c) /\ ~Invalid(req[c].items, i)
    <3>1. CASE i \in submitted[c]
      BY <2>1, <3>1, Zenon DEF RequestInv, WholeInv
    <3>2. CASE i \in Passed(c)
      <4>1. Len(req[c].items) \in Nat /\ DOMAIN req[c].items = 1..Len(req[c].items)
        BY RequestFacts, Zenon DEF Items
      <4>2. \A k \in DOMAIN arg[c] : arg[c][k] \in Items(c) /\ ~Invalid(req[c].items, arg[c][k])
        BY <1>4, <2>1, <4>1, BatchSplit, Zenon DEF CallInv
      <4> QED
        BY <3>2, <4>2, Zenon DEF Passed
    <3> QED
      BY <3>1, <3>2, Zenon
  <2> QED
    BY <1>1, <1>5, <1>7, <2>1, ZenonT(60) DEF WholeInv
<1>9. (req[c].route = "stream" => StreamInv(c))'
  BY <1>1, SMTT(30), ZenonT(60) DEF RequestInv, StreamInv, Streaming
<1>10. TruthInv(c)'
  <2>1. CASE req[c].route # "stream"
    BY <1>7, <2>1, SMTT(30) DEF TruthInv
  <2>2. CASE req[c].route = "stream"
    <3>1. /\ Passed(c) = {pos[c]} /\ pos[c] \in Nat /\ pos[c] > 0
          /\ Len(answer[c]) = pos[c] - 1 /\ pos[c] <= Len(req[c].items)
          /\ \A k \in DOMAIN answer[c] : answer[c][k].index = k
      <4>1. arg[c] = <<pos[c]>> /\ pos[c] \in Nat
        BY <1>4, <2>2, RequestFacts, Zenon DEF CallInv
      <4>2. Passed(c) = {pos[c]}
        BY <4>1, SMTT(30) DEF Passed
      <4> QED
        BY <2>2, <4>1, <4>2, Zenon DEF RequestInv, StreamInv
    <3>2. \A k \in DOMAIN answer[c] : k \in DOMAIN outcome[c] \ Passed(c)
      <4>1. /\ DOMAIN answer[c] = 1..Len(answer[c]) /\ DOMAIN outcome[c] = 1..Len(req[c].items)
            /\ Len(req[c].items) \in Nat
        <5>1. answer[c] \in Seq(AnswerEntries)
          BY Zenon DEF ProxyTypeOK
        <5>2. DOMAIN outcome[c] = Items(c)
          BY Zenon DEF RequestInv
        <5> QED
          BY <5>1, <5>2, RequestFacts
      <4> QED
        BY <3>1, <4>1, SMTT(30)
    <3>3. TruthInv(c)
      BY Zenon DEF RequestInv
    <3> QED
      BY <3>1, <3>2, <3>3, SMTT(30) DEF TruthInv
  <2> QED
    BY <2>1, <2>2, ZenonT(30)
<1> QED
  BY <1>2, <1>3, <1>6, <1>8, <1>9, <1>10, Zenon DEF RequestInv

LEMMA CheckClosedStep ==
    ASSUME ProxyInv, NEW c \in Clients, CheckClosed(c), UNCHANGED streamVars, UNCHANGED main
    PROVE  Preserved(c)
<1> USE DEF Goto, Return, streamVars, handlerVars
<1>0. ProxyTypeOK /\ RequestInv(c) /\ pc[c] = "produce" /\ CallInv(c)
  BY Zenon DEF ProxyInv, RequestInv, CheckClosed, Calling
<1>1. UNCHANGED <<req, status, sent, answer, count, metrics, arg, outcome, submitted, closeFlag,
                  pos, wrote, main>>
  BY Zenon DEF CheckClosed
<1>2. /\ pc'[c] \in {"returned", "admit"} /\ Others(c) /\ ProxyTypeOK'
      /\ pc'[c] = "returned" => ret'[c].err = "closed" /\ closeFlag
      /\ pc'[c] = "admit" => ret'[c] = ret[c]
  <2>1. CASE closeFlag
    <3>1. /\ pc' = [pc EXCEPT ![c] = "returned"]
          /\ ret' = [ret EXCEPT ![c] = [err |-> "closed", results |-> <<>>]]
      BY <2>1, Zenon DEF CheckClosed
    <3>2. [err |-> "closed", results |-> <<>>] \in Returns
      BY DEF Returns, Errors
    <3>3. ProxyTypeOK'
      BY <1>0, <1>1, <3>1, <3>2, Zenon DEF ProxyTypeOK, Stages, Calling
    <3> QED
      BY <1>0, <1>1, <2>1, <3>1, <3>3, Zenon DEF ProxyTypeOK, Others, Same
  <2>2. CASE ~closeFlag
    <3>1. pc' = [pc EXCEPT ![c] = "admit"] /\ ret' = ret
      BY <2>2, Zenon DEF CheckClosed
    <3>2. ProxyTypeOK'
      BY <1>0, <1>1, <3>1, Zenon DEF ProxyTypeOK, Stages, Calling
    <3> QED
      BY <1>0, <1>1, <3>1, <3>2, Zenon DEF ProxyTypeOK, Others, Same
  <2> QED
    BY <2>1, <2>2, Zenon
<1>3. RequestInv(c)'
  <2>1. submitted'[c] \subseteq Earlier(c) /\ submitted'[c] \subseteq submitted[c] \cup Passed(c)
    BY <1>0, <1>1, Zenon DEF CallInv
  <2>2. ret'[c].err = "closed" => closeFlag
    BY <1>0, <1>2, Zenon DEF RequestInv
  <2>3. pc[c] \in Calling /\ pc'[c] \in Calling
    BY <1>0, <1>2, Zenon DEF Calling
  <2> QED
    BY <1>0, <1>1, <1>2, <2>1, <2>2, <2>3, CallKeeps, Zenon DEF Errors
<1>4. ObservedWhatWasSent' /\ ProducedIsReported'
  BY <1>0, <1>1, <1>2, CountersKept, Zenon DEF ProxyInv
<1> QED
  BY <1>2, <1>3, <1>4, Zenon DEF Preserved

\* A call that ends with an error, and one that has nothing to show for it.
LEMMA ErrorStep ==
    ASSUME ProxyInv, NEW c \in Clients, NEW err \in {"overloaded", "ctxErr"},
           pc[c] \in Calling, Return(c, err, <<>>),
           err = "overloaded" => pc[c] = "admit",
           UNCHANGED <<handlerVars, arg, outcome, submitted, closeFlag, streamVars, main>>
    PROVE  Preserved(c)
<1> USE DEF Goto, Return, streamVars, handlerVars
<1>0. ProxyTypeOK /\ RequestInv(c) /\ CallInv(c)
  BY Zenon DEF ProxyInv, RequestInv
<1>1. UNCHANGED <<req, status, sent, answer, count, metrics, arg, outcome, submitted, closeFlag,
                  pos, wrote, main>>
  BY Zenon
<1>2. [err |-> err, results |-> <<>>] \in Returns
  BY DEF Returns, Errors
<1>3. ProxyTypeOK'
  BY <1>0, <1>1, <1>2, Zenon DEF ProxyTypeOK, Stages, Calling
<1>4. Others(c) /\ pc'[c] = "returned" /\ ret'[c].err = err
  BY <1>0, <1>1, Zenon DEF ProxyTypeOK, Others, Same
<1>5. RequestInv(c)'
  <2>1. submitted'[c] \subseteq submitted[c] \cup Passed(c)
    BY <1>1, Zenon
  <2>2. err = "overloaded" => submitted'[c] \subseteq Earlier(c)
    BY <1>0, <1>1, Zenon DEF CallInv
  <2>3. pc'[c] \in Calling
    BY <1>4, Zenon DEF Calling
  <2> QED
    BY <1>0, <1>1, <1>4, <2>1, <2>2, <2>3, CallKeeps, Zenon DEF Errors
<1>6. pc[c] \notin {"idle", "done"}
  BY Zenon DEF Calling
<1>7. ObservedWhatWasSent' /\ ProducedIsReported'
  BY <1>1, <1>4, <1>6, CountersKept, Zenon DEF ProxyInv
<1> QED
  BY <1>3, <1>4, <1>5, <1>7, Zenon DEF Preserved

LEMMA ProduceAdmittedStep ==
    ASSUME ProxyInv, NEW c \in Clients, ProduceAdmitted(c), UNCHANGED streamVars, UNCHANGED main
    PROVE  Preserved(c)
<1>0. ProxyTypeOK /\ RequestInv(c) /\ CallInv(c) /\ pc[c] = "admit" /\ pc[c] \in Calling
  BY Zenon DEF ProxyInv, RequestInv, ProduceAdmitted, Calling
<1>1. /\ UNCHANGED <<req, status, sent, answer, count, metrics, arg, outcome, ret, closeFlag,
                     pos, wrote, main>>
      /\ pc' = [pc EXCEPT ![c] = "waiting"]
      /\ submitted' = [submitted EXCEPT ![c] = submitted[c] \cup Passed(c)]
  BY <1>0, Zenon DEF ProduceAdmitted, Goto, streamVars, handlerVars, Passed, ProxyTypeOK
<1>2. Passed(c) \in SUBSET Nat
  BY <1>0 DEF Passed, ProxyTypeOK
<1>3. ProxyTypeOK'
  BY <1>0, <1>1, <1>2, Zenon DEF ProxyTypeOK, Stages, Calling
<1>4. Others(c) /\ pc'[c] = "waiting" /\ submitted'[c] = submitted[c] \cup Passed(c)
  BY <1>0, <1>1, Zenon DEF ProxyTypeOK, Others, Same
<1>5. RequestInv(c)'
  <2>1. pc'[c] \in Calling /\ (ret'[c].err = "closed" => closeFlag)
    BY <1>0, <1>1, <1>4, Zenon DEF Calling, RequestInv
  <2> QED
    BY <1>0, <1>1, <1>4, <2>1, CallKeeps, Zenon
<1>6. ObservedWhatWasSent' /\ ProducedIsReported'
  BY <1>0, <1>1, <1>4, CountersKept, Zenon DEF ProxyInv
<1> QED
  BY <1>3, <1>4, <1>5, <1>6, Zenon DEF Preserved

LEMMA ProduceResultsStep ==
    ASSUME ProxyInv, NEW c \in Clients, ProduceResults(c), UNCHANGED streamVars, UNCHANGED main
    PROVE  Preserved(c)
<1>0. ProxyTypeOK /\ RequestInv(c) /\ CallInv(c) /\ pc[c] = "waiting" /\ pc[c] \in Calling
  BY Zenon DEF ProxyInv, RequestInv, ProduceResults, Calling
<1>1. PICK results \in [DOMAIN arg[c] -> {"ok", "failed"}] :
        /\ Return(c, "nil", results)
        /\ outcome' = [outcome EXCEPT ![c] =
              [i \in DOMAIN outcome[c] |-> IF \E k \in DOMAIN arg[c] : arg[c][k] = i
                            THEN results[CHOOSE k \in DOMAIN arg[c] : arg[c][k] = i]
                            ELSE outcome[c][i]]]
  BY <1>0, Zenon DEF ProduceResults, ProxyTypeOK
<1> DEFINE ends == [i \in DOMAIN outcome[c] |-> IF \E k \in DOMAIN arg[c] : arg[c][k] = i
                            THEN results[CHOOSE k \in DOMAIN arg[c] : arg[c][k] = i]
                            ELSE outcome[c][i]]
<1>2. /\ UNCHANGED <<req, status, sent, answer, count, metrics, arg, submitted, closeFlag,
                     pos, wrote, main>>
      /\ pc' = [pc EXCEPT ![c] = "returned"] /\ outcome' = [outcome EXCEPT ![c] = ends]
      /\ ret' = [ret EXCEPT ![c] = [err |-> "nil", results |-> results]]
  BY <1>1, Zenon DEF ProduceResults, Goto, Return, streamVars, handlerVars
<1>3. results \in Seq(Results) /\ Len(results) = Len(arg[c]) /\ arg[c] \in Seq(Nat)
  <2>1. arg[c] \in Seq(Nat)
    BY <1>0, Zenon DEF ProxyTypeOK
  <2> QED
    BY <2>1 DEF Results
<1>4. outcome[c] \in Seq(Outcomes) /\ DOMAIN outcome[c] = Items(c)
  BY <1>0, Zenon DEF ProxyTypeOK, RequestInv
<1>5. /\ DOMAIN ends = DOMAIN outcome[c] /\ ends \in Seq(Outcomes)
      /\ \A i \in DOMAIN outcome[c] \ Passed(c) : ends[i] = outcome[c][i]
      /\ \A k \in DOMAIN arg[c] : ends[arg[c][k]] = results[k]
  <2>1. \A i \in DOMAIN outcome[c] : ends[i] \in Outcomes
    BY <1>3, <1>4, SMTT(30), ZenonT(60) DEF Outcomes, Results
  <2>2. ends \in Seq(Outcomes)
    BY <1>4, <2>1
  <2>3. \A i \in DOMAIN outcome[c] \ Passed(c) : ends[i] = outcome[c][i]
    BY Zenon DEF Passed
  <2>4. ASSUME NEW k \in DOMAIN arg[c] PROVE ends[arg[c][k]] = results[k]
    <3>1. arg[c][k] \in DOMAIN outcome[c]
      BY <1>0, <1>4, Zenon DEF CallInv
    <3>2. (CHOOSE j \in DOMAIN arg[c] : arg[c][j] = arg[c][k]) = k
      BY <1>0, Zenon DEF CallInv
    <3> QED
      BY <3>1, <3>2, Zenon
  <2> QED
    BY <2>2, <2>3, <2>4, Zenon
<1> HIDE DEF ends
<1>6. [err |-> "nil", results |-> results] \in Returns
  BY <1>3, Zenon DEF Returns, Errors
<1>7. ProxyTypeOK'
  BY <1>0, <1>2, <1>5, <1>6, Zenon DEF ProxyTypeOK, Stages, Calling
<1>8. /\ Others(c) /\ pc'[c] = "returned" /\ outcome'[c] = ends
      /\ ret'[c].err = "nil" /\ ret'[c].results = results
  BY <1>0, <1>2, Zenon DEF ProxyTypeOK, Others, Same
<1>9. RequestInv(c)'
  <2>1. pc'[c] \in Calling /\ submitted'[c] \subseteq submitted[c] \cup Passed(c)
    BY <1>2, <1>8, Zenon DEF Calling
  <2> QED
    BY <1>0, <1>2, <1>3, <1>5, <1>8, <2>1, CallKeeps, Zenon DEF Errors
<1>10. ObservedWhatWasSent' /\ ProducedIsReported'
  BY <1>0, <1>2, <1>8, CountersKept, Zenon DEF ProxyInv
<1> QED
  BY <1>7, <1>8, <1>9, <1>10, Zenon DEF Preserved

-----------------------------------------------------------------------------
(* The responses of the routes that read the body as a whole. *)

\* Results that are reported, each for its item, are counted as they are.
LEMMA ResultsReported ==
    ASSUME ProxyInv, NEW c \in Clients, CallInv(c), Others(c),
           pc[c] = "returned", pc'[c] \notin {"idle", "done"}, ret[c].err = "nil",
           metrics' = ObserveResults(metrics, ret[c].results),
           \A i \in Nat : Reported(c, i)' <=>
              \/ Reported(c, i)
              \/ \E k \in DOMAIN arg[c] : arg[c][k] = i /\ ret[c].results[k] = "ok",
           \A k \in DOMAIN arg[c] : ~Reported(c, arg[c][k])
    PROVE  metrics' \in Counters /\ ObservedWhatWasSent' /\ ProducedIsReported'
<1> DEFINE results == ret[c].results
           K == {k \in DOMAIN results : results[k] = "ok"}
           B == {k \in DOMAIN results : results[k] = "failed"}
           f == [k \in K |-> arg[c][k]]
<1>1. ProxyTypeOK /\ ProducedIsReported /\ ObservedWhatWasSent
  BY Zenon DEF ProxyInv
<1>2. /\ results \in Seq(Results) /\ arg[c] \in Seq(Nat) /\ Len(results) = Len(arg[c])
  <2>1. ret[c] \in Returns /\ arg[c] \in Seq(Nat)
    BY <1>1, Zenon DEF ProxyTypeOK
  <2> QED
    BY <2>1, Zenon DEF Returns, CallInv
<1>3. DOMAIN results = DOMAIN arg[c] /\ DOMAIN results = 1..Len(results) /\ Len(results) \in Nat
  BY <1>2
<1>4. /\ IsFiniteSet(K) /\ IsFiniteSet(B) /\ Cardinality(K) \in Nat /\ Cardinality(B) \in Nat
  <2>1. IsFiniteSet(1..Len(results))
    <3> HIDE DEF results
    <3>1. 1 \in Int /\ Len(results) \in Int
      BY <1>3
    <3> QED
      BY <3>1, FS_Interval, Zenon
  <2>2. K \in SUBSET (1..Len(results)) /\ B \in SUBSET (1..Len(results))
    BY <1>3, Zenon
  <2> HIDE DEF K, B
  <2> QED
    BY <2>1, <2>2, FS_Subset, FS_CardinalityType, Zenon
<1>5. metrics' = ObserveProduceResult(metrics, Cardinality(K), Cardinality(B))
  BY Zenon DEF ObserveResults, CountOf
<1>6. /\ metrics' \in Counters /\ metrics'.requests = metrics.requests
      /\ metrics'.outstanding = metrics.outstanding
      /\ metrics'.produced = metrics.produced + Cardinality(K)
  <2>1. metrics \in Counters
    BY <1>1, Zenon DEF ProxyTypeOK
  <2> HIDE DEF K, B
  <2>2. LET n == ObserveProduceResult(metrics, Cardinality(K), Cardinality(B)) IN
        /\ n \in Counters /\ n.requests = metrics.requests /\ n.outstanding = metrics.outstanding
        /\ n.produced = metrics.produced + Cardinality(K)
    BY <1>4, <2>1, MetricsFacts, ZenonT(60)
  <2> QED
    BY <1>5, <2>2, Zenon
<1>7. \A k \in K : k \in DOMAIN arg[c]
  BY <1>3, Zenon
<1>8. f \in [K -> 1..(RequestMaxRecords + 1)]
  <2>1. \A k \in DOMAIN arg[c] : arg[c][k] \in Items(c) /\ arg[c][k] <= RequestMaxRecords
    BY Zenon DEF CallInv
  <2>2. Items(c) = 1..Len(req[c].items) /\ Len(req[c].items) \in Nat
    BY <1>1, RequestFacts, Zenon
  <2>3. \A k \in DOMAIN arg[c] : arg[c][k] \in 1..(RequestMaxRecords + 1)
    BY <2>1, <2>2, TrafficAssumption, SMTT(30)
  <2> QED
    BY <1>7, <2>3, Zenon
<1>9. \A j, k \in K : f[j] = f[k] => j = k
  BY <1>7, ZenonT(30) DEF CallInv
<1>10. \A k \in K : ~Reported(c, f[k])
  BY <1>7, Zenon
<1>11. \A i \in Nat : Reported(c, i)' <=> (Reported(c, i) \/ \E k \in K : f[k] = i)
  BY <1>3, Zenon
<1> HIDE DEF K, f
<1>12. ProducedIsReported'
  BY <1>1, <1>4, <1>6, <1>8, <1>9, <1>10, <1>11, ReportedGrows, Zenon
<1>13. ObservedWhatWasSent'
  BY <1>1, <1>6, ObservedKept, Zenon
<1> QED
  BY <1>6, <1>12, <1>13, Zenon

\* An acknowledgement that comes too late for its call is of a record about
\* which nothing has been said, nor will be.
LEMMA AcknowledgedLateStep ==
    ASSUME ProxyInv, NEW c \in Clients, AcknowledgedLate(c), UNCHANGED streamVars, UNCHANGED main
    PROVE  Preserved(c)
<1>0. ProxyTypeOK /\ RequestInv(c) /\ outcome[c] \in Seq(Outcomes)
  BY Zenon DEF ProxyInv, ProxyTypeOK
<1>1. /\ ret[c].err = "ctxErr"
      /\ UNCHANGED <<handlerVars, pc, arg, ret, submitted, closeFlag>> /\ UNCHANGED <<pos, wrote, main>>
  BY Zenon DEF AcknowledgedLate, GivenUp, streamVars
<1>2. PICK i : outcome[c][i] = "none" /\ outcome' = [outcome EXCEPT ![c][i] = "ok"]
  BY Zenon DEF AcknowledgedLate
<1>3. /\ outcome' \in [Clients -> Seq(Outcomes)] /\ DOMAIN outcome'[c] = DOMAIN outcome[c]
      /\ \A j \in DOMAIN outcome[c] : outcome[c][j] # "none" => outcome'[c][j] = outcome[c][j]
      /\ \A d \in Clients \ {c} : outcome'[d] = outcome[d]
  <2>1. outcome \in [Clients -> Seq(Outcomes)]
    BY <1>0, Zenon DEF ProxyTypeOK
  <2>2. /\ outcome'[c] = [outcome[c] EXCEPT ![i] = "ok"]
        /\ outcome' = [outcome EXCEPT ![c] = [outcome[c] EXCEPT ![i] = "ok"]]
    BY <1>2, <2>1
  <2>3. [outcome[c] EXCEPT ![i] = "ok"] \in Seq(Outcomes)
    <3>1. outcome[c] \in [1..Len(outcome[c]) -> Outcomes] /\ Len(outcome[c]) \in Nat
      BY <1>0
    <3>2. "ok" \in Outcomes
      BY Zenon DEF Outcomes, Results
    <3>3. [outcome[c] EXCEPT ![i] = "ok"] \in [1..Len(outcome[c]) -> Outcomes]
      BY <3>1, <3>2, Zenon
    <3>4. ASSUME NEW s \in [1..Len(outcome[c]) -> Outcomes] PROVE s \in Seq(Outcomes)
      BY <3>1
    <3> QED
      BY <3>3, <3>4, Zenon
  <2> QED
    BY <1>2, <2>1, <2>2, <2>3, Zenon
<1>4. ProxyTypeOK'
  BY <1>0, <1>1, <1>3, Zenon DEF ProxyTypeOK, handlerVars
<1>5. Others(c)
  BY <1>1, <1>3, Zenon DEF Others, Same, handlerVars
<1>6. RequestInv(c)'
  <2> USE DEF handlerVars
  <2>1. PhaseInv(c)' /\ (ret[c].err = "closed" => closeFlag)'
    <3>1. Untouched(c)' <=> Untouched(c)
      BY <1>1, Zenon DEF Untouched
    <3>2. PhaseInv(c)' <=> PhaseInv(c)
      BY <1>1, <3>1 DEF PhaseInv
    <3>3. PhaseInv(c)
      BY <1>0, Zenon DEF RequestInv
    <3>4. (ret[c].err = "closed" => closeFlag)'
      BY <1>0, <1>1, Zenon DEF RequestInv
    <3> QED
      BY <3>2, <3>3, <3>4, Zenon
  <2>2. (DOMAIN outcome[c] = Items(c))'
    BY <1>0, <1>1, <1>3, Zenon DEF RequestInv, Items
  <2>3. (pc[c] \in Calling => CallInv(c))'
    <3>1. Items(c)' = Items(c) /\ Earlier(c)' = Earlier(c) /\ Passed(c)' = Passed(c)
      BY <1>1, Zenon DEF Items, Earlier, Passed
    <3>2. pc[c] \in Calling => CallInv(c)
      BY <1>0, Zenon DEF RequestInv
    <3> QED
      BY <1>1, <3>1, <3>2, ZenonT(60) DEF CallInv
  <2>4. (req[c].route # "stream" => WholeInv(c))' /\ (req[c].route = "stream" => StreamInv(c))'
    <3>1. Items(c)' = Items(c)
      BY <1>1, Zenon DEF Items
    <3>2. /\ req[c].route # "stream" => WholeInv(c)
          /\ req[c].route = "stream" => StreamInv(c)
      BY <1>0, Zenon DEF RequestInv
    <3>3. WholeInv(c)' <=> WholeInv(c)
      BY <1>1, <3>1 DEF WholeInv
    <3>4. StreamInv(c)' <=> StreamInv(c)
      BY <1>1, <3>1 DEF StreamInv
    <3> QED
      BY <1>1, <3>2, <3>3, <3>4, Zenon
  <2>5. TruthInv(c)'
    <3>1. TruthInv(c)
      BY <1>0, Zenon DEF RequestInv
    <3>2. \A k \in DOMAIN answer[c] : answer[c][k].verdict \in {"ok", "failed"} =>
             outcome'[c][answer[c][k].index] = outcome[c][answer[c][k].index]
      <4>1. SUFFICES ASSUME NEW k \in DOMAIN answer[c], answer[c][k].verdict \in {"ok", "failed"}
                     PROVE  outcome'[c][answer[c][k].index] = outcome[c][answer[c][k].index]
        BY Zenon
      <4>2. outcome[c][answer[c][k].index] # "none"
        BY <3>1, <4>1 DEF TruthInv
      <4>3. answer[c][k].index # i
        BY <1>2, <4>2, Zenon
      <4> QED
        BY <1>0, <1>2, <4>3 DEF ProxyTypeOK
    <3> QED
      BY <1>1, <3>1, <3>2, Zenon DEF TruthInv
  <2> QED
    BY <2>1, <2>2, <2>3, <2>4, <2>5, Zenon DEF RequestInv
<1>7. ObservedWhatWasSent' /\ ProducedIsReported'
  <2>1. ObservedWhatWasSent' <=> ObservedWhatWasSent
    BY <1>1 DEF handlerVars, ObservedWhatWasSent, Active
  <2>2. ProducedIsReported' <=> ProducedIsReported
    BY <1>1 DEF handlerVars, ProducedIsReported
  <2> QED
    BY <2>1, <2>2, Zenon DEF ProxyInv
<1> QED
  BY <1>4, <1>5, <1>6, <1>7, Zenon DEF Preserved

\* A refusal covers no record, whatever was submitted.
LEMMA WholeRefused ==
    ASSUME NEW c \in Clients, WholeInv(c), req' = req, pc'[c] \notin Calling,
           sent'[c] \in Nat, sent'[c] >= 400, submitted'[c] = submitted[c],
           sent'[c] # TimeoutStatus(req[c].route) => submitted[c] = {}
    PROVE  WholeInv(c)'
BY DEF WholeInv, Items

LEMMA WholeErrorStep ==
    ASSUME ProxyInv, NEW c \in Clients, pc[c] = "returned", req[c].route # "stream",
           NEW st \in Refusals, WriteAPIError(c, st), Uncounted,
           st # TimeoutStatus(req[c].route) => ret[c].err \in {"closed", "overloaded"},
           UNCHANGED <<producerVars, req, answer, count>>, UNCHANGED streamVars, UNCHANGED main
    PROVE  Preserved(c)
<1> USE DEF WriteAPIError, Goto, producerVars, streamVars
<1>0. ProxyTypeOK /\ RequestInv(c) /\ CallInv(c) /\ pc[c] \in Calling
  BY Zenon DEF ProxyInv, RequestInv, Calling
<1>1. st \in Nat /\ st >= 400
  BY DEF Refusals
<1>2. ProxyTypeOK'
  BY <1>0, <1>1, Zenon DEF ProxyTypeOK, Stages, Over, Uncounted
<1>3. /\ Others(c) /\ Unmoved(c) /\ pc'[c] = "finish" /\ status'[c] = st /\ sent'[c] = st
      /\ answer'[c] = answer[c] /\ closeFlag' = closeFlag /\ req' = req
  BY <1>0, Zenon DEF ProxyTypeOK, Others, Same, Unmoved
<1>4. RequestInv(c)'
  <2> USE DEF Unmoved
  <2>1. pc'[c] \notin BeforeDecoding \cup Streaming \cup Calling
    BY <1>3, Zenon DEF BeforeDecoding, Streaming, Calling
  <2>2. PhaseInv(c)'
    BY <1>3, <2>1, Zenon DEF PhaseInv, BeforeDecoding
  <2>3. (DOMAIN outcome[c] = Items(c))' /\ (ret[c].err = "closed" => closeFlag)'
    BY <1>0, <1>3 DEF RequestInv, Items
  <2>4. st # TimeoutStatus(req[c].route) => submitted[c] = {}
    BY <1>0, ZenonT(30) DEF CallInv, Earlier
  <2>5. WholeInv(c)'
    <3>1. WholeInv(c)
      BY <1>0, Zenon DEF RequestInv
    <3>2. /\ sent'[c] \in Nat /\ sent'[c] >= 400 /\ submitted'[c] = submitted[c]
          /\ sent'[c] # TimeoutStatus(req[c].route) => submitted[c] = {}
      <4>1. sent'[c] = st /\ submitted'[c] = submitted[c]
        BY <1>3, Zenon
      <4> QED
        BY <1>1, <2>4, <4>1
    <3> QED
      BY <1>3, <2>1, <3>1, <3>2, WholeRefused, ZenonT(30)
  <2>6. TruthInv(c)'
    BY <1>0, <1>3, Zenon DEF RequestInv, TruthInv
  <2> QED
    BY <1>3, <2>1, <2>2, <2>3, <2>5, <2>6, Zenon DEF RequestInv
<1>5. ObservedWhatWasSent' /\ ProducedIsReported'
  BY <1>3, CountersKept, Zenon DEF Uncounted, ProxyInv
<1> QED
  BY <1>2, <1>3, <1>4, <1>5, Zenon DEF Preserved

\* The errors of Produce, as statuses.
LEMMA ErrorStatuses ==
    ASSUME NEW err \in Errors, err # "nil"
    PROVE  /\ ClassifyProduceError(err) \in Refusals
           /\ ClassifyProduceError(AsTimeout(err)) \in Refusals
           /\ ClassifyProduceError(err) # 503 => err = "overloaded"
           /\ ClassifyProduceError(AsTimeout(err)) # 504 => err \in {"closed", "overloaded"}
BY DEF Errors, ClassifyProduceError, AsTimeout, Refusals

LEMMA V2ProduceErrorStep ==
    ASSUME ProxyInv, NEW c \in Clients, V2ProduceError(c), UNCHANGED streamVars, UNCHANGED main
    PROVE  Preserved(c)
<1>1. /\ pc[c] = "returned" /\ req[c].route = "v2" /\ ret[c].err \in Errors /\ ret[c].err # "nil"
      /\ metrics \in Counters
  BY Zenon DEF ProxyInv, ProxyTypeOK, RequestInv, CallInv, Calling, V2ProduceError
<1>2. Uncounted
  BY <1>1, MetricsFacts DEF V2ProduceError, Uncounted
<1>3. /\ WriteAPIError(c, ClassifyProduceError(AsTimeout(ret[c].err)))
      /\ UNCHANGED <<producerVars, req, answer, count>>
  BY Zenon DEF V2ProduceError
<1> DEFINE st == ClassifyProduceError(AsTimeout(ret[c].err))
<1>4. st \in Refusals /\ (st # 504 => ret[c].err \in {"closed", "overloaded"})
  BY <1>1, ErrorStatuses, Zenon
<1>5. TimeoutStatus(req[c].route) = 504 /\ req[c].route # "stream"
  BY <1>1 DEF TimeoutStatus
<1>6. WriteAPIError(c, st)
  BY <1>3, Zenon
<1> HIDE DEF st
<1>7. st # TimeoutStatus(req[c].route) => ret[c].err \in {"closed", "overloaded"}
  BY <1>4, <1>5, Zenon
<1>8. UNCHANGED <<producerVars, req, answer, count>> /\ pc[c] = "returned" /\ st \in Refusals
  BY <1>1, <1>3, <1>4, Zenon
<1> QED
  BY <1>2, <1>5, <1>6, <1>7, <1>8, WholeErrorStep, SMTT(30), ZenonT(60)

LEMMA BatchProduceErrorStep ==
    ASSUME ProxyInv, NEW c \in Clients, BatchProduceError(c), UNCHANGED streamVars, UNCHANGED main
    PROVE  Preserved(c)
<1>1. /\ pc[c] = "returned" /\ req[c].route = "batch" /\ ret[c].err \in Errors /\ ret[c].err # "nil"
  BY Zenon DEF ProxyInv, RequestInv, CallInv, Calling, BatchProduceError
<1>2. Uncounted
  BY RateLimitUncounted, Zenon DEF BatchProduceError
<1>3. /\ WriteAPIError(c, ClassifyProduceError(ret[c].err))
      /\ UNCHANGED <<producerVars, req, answer, count>>
  BY Zenon DEF BatchProduceError
<1> DEFINE st == ClassifyProduceError(ret[c].err)
<1>4. st \in Refusals /\ (st # 503 => ret[c].err \in {"closed", "overloaded"})
  BY <1>1, ErrorStatuses, Zenon
<1>5. TimeoutStatus(req[c].route) = 503 /\ req[c].route # "stream"
  BY <1>1 DEF TimeoutStatus
<1>6. WriteAPIError(c, st)
  BY <1>3, Zenon
<1> HIDE DEF st
<1>7. st # TimeoutStatus(req[c].route) => ret[c].err \in {"closed", "overloaded"}
  BY <1>4, <1>5, Zenon
<1>8. UNCHANGED <<producerVars, req, answer, count>> /\ pc[c] = "returned" /\ st \in Refusals
  BY <1>1, <1>3, <1>4, Zenon
<1> QED
  BY <1>2, <1>5, <1>6, <1>7, <1>8, WholeErrorStep, SMTT(30), ZenonT(60)

\* The answer has a result for each item passed, and refuses the others.
Covers(c, ans) ==
    /\ Len(ans) = Len(req[c].items)
    /\ req[c].route = "v2" => \A k \in DOMAIN ans : ans[k].index = k
    /\ \A k \in DOMAIN ans : ans[k].index \in Items(c)
    /\ \A i \in Items(c) : \E k \in DOMAIN ans : ans[k].index = i
    /\ \A k \in DOMAIN ans :
          \/ /\ ans[k].verdict = "invalid" /\ req[c].route = "batch"
             /\ Invalid(req[c].items, ans[k].index)
          \/ \E j \in DOMAIN arg[c] : ans[k] = Entry(arg[c][j], ret[c].results[j])
    /\ \A j \in DOMAIN arg[c] : \E k \in DOMAIN ans :
          ans[k] = Entry(arg[c][j], ret[c].results[j])

\* What writing it changes.
Responds(c, ans, st) ==
    /\ status' = [status EXCEPT ![c] = st] /\ sent' = [sent EXCEPT ![c] = st]
    /\ answer' = [answer EXCEPT ![c] = ans] /\ pc' = [pc EXCEPT ![c] = "finish"]
    /\ metrics' = ObserveResults(metrics, ret[c].results)
    /\ UNCHANGED <<producerVars, req, count>> /\ UNCHANGED streamVars /\ UNCHANGED main

\* It reports the results of the call, and nothing else, as acknowledged.
Tells(c) ==
    \A i \in Nat : Reported(c, i)' <=>
        \/ Reported(c, i)
        \/ \E k \in DOMAIN arg[c] : arg[c][k] = i /\ ret[c].results[k] = "ok"

LEMMA WholeCovered ==
    ASSUME NEW c \in Clients, NEW ans, WholeInv(c), Covers(c, ans), req' = req,
           pc'[c] \notin Calling, sent'[c] \in {200, 207}, answer'[c] = ans,
           submitted'[c] = submitted[c]
    PROVE  WholeInv(c)'
<1>1. ~(sent'[c] >= 400)
  OBVIOUS
<1>2. Items(c)' = Items(c)
  BY Zenon DEF Items
<1>3. /\ Len(ans) = Len(req[c].items)
      /\ req[c].route = "v2" => \A k \in DOMAIN ans : ans[k].index = k
      /\ \A k \in DOMAIN ans : ans[k].index \in Items(c)
      /\ \A i \in Items(c) : \E k \in DOMAIN ans : ans[k].index = i
  BY Zenon DEF Covers
<1>4. req[c].route = "batch" =>
         \A i \in submitted[c] : i \in Items(c) /\ ~Invalid(req[c].items, i)
  BY Zenon DEF WholeInv
<1>5. /\ Len(answer'[c]) = Len(req'[c].items)
      /\ req'[c].route = "v2" => \A k \in DOMAIN answer'[c] : answer'[c][k].index = k
      /\ \A k \in DOMAIN answer'[c] : answer'[c][k].index \in Items(c)'
      /\ \A i \in Items(c)' : \E k \in DOMAIN answer'[c] : answer'[c][k].index = i
  BY <1>2, <1>3
<1>6. req'[c].route = "batch" =>
         \A i \in submitted'[c] : i \in Items(c)' /\ ~Invalid(req'[c].items, i)
  BY <1>2, <1>4
<1> QED
  BY <1>1, <1>5, <1>6, ZenonT(30) DEF WholeInv

LEMMA CoversEach ==
    ASSUME NEW c \in Clients, NEW ans, Covers(c, ans)
    PROVE  \A k \in DOMAIN ans :
              \/ /\ ans[k].verdict = "invalid" /\ req[c].route = "batch"
                 /\ Invalid(req[c].items, ans[k].index)
              \/ \E j \in DOMAIN arg[c] : ans[k] = Entry(arg[c][j], ret[c].results[j])
BY Zenon DEF Covers

LEMMA WholeRespondStep ==
    ASSUME ProxyInv, NEW c \in Clients, pc[c] = "returned", req[c].route # "stream",
           ret[c].err = "nil", NEW st \in {200, 207}, NEW ans \in Seq(AnswerEntries),
           Responds(c, ans, st), Covers(c, ans)
    PROVE  Preserved(c) /\ Tells(c)
<1>0. ProxyTypeOK /\ RequestInv(c) /\ CallInv(c) /\ pc[c] \in Calling /\ WholeInv(c)
  BY ZenonT(30) DEF ProxyInv, RequestInv, Calling
<1>1. /\ answer[c] = <<>> /\ DOMAIN answer[c] = {}
  BY <1>0, SMTT(30) DEF WholeInv
<1>3. /\ Others(c) /\ pc'[c] = "finish" /\ status'[c] = st /\ sent'[c] = st /\ answer'[c] = ans
      /\ count'[c] = count[c] /\ arg'[c] = arg[c] /\ ret'[c] = ret[c]
      /\ outcome'[c] = outcome[c] /\ submitted'[c] = submitted[c] /\ pos'[c] = pos[c]
      /\ wrote'[c] = wrote[c] /\ req' = req /\ closeFlag' = closeFlag
  BY <1>0, SMTT(30) DEF Responds, ProxyTypeOK, Others, Same, producerVars, streamVars
<1>4. /\ ret[c].results \in Seq(Results) /\ Len(ret[c].results) = Len(arg[c])
      /\ arg[c] \in Seq(Nat)
      /\ \A j \in DOMAIN arg[c] : /\ ret[c].results[j] \in Results /\ arg[c][j] \in Nat
                                  /\ outcome[c][arg[c][j]] = ret[c].results[j]
  <2>1. ret[c] \in Returns /\ arg[c] \in Seq(Nat)
    BY <1>0, SMTT(30), ZenonT(60) DEF ProxyTypeOK
  <2>2. ret[c].results \in Seq(Results) /\ Len(ret[c].results) = Len(arg[c])
    BY <1>0, <2>1, Zenon DEF Returns, CallInv
  <2>3. DOMAIN arg[c] = 1..Len(arg[c]) /\ DOMAIN ret[c].results = DOMAIN arg[c]
    BY <2>1, <2>2
  <2>4. ASSUME NEW j \in DOMAIN arg[c]
        PROVE  /\ ret[c].results[j] \in Results /\ arg[c][j] \in Nat
               /\ outcome[c][arg[c][j]] = ret[c].results[j]
    <3>1. ret[c].results[j] \in Results /\ arg[c][j] \in Nat
      BY <2>1, <2>2, <2>3, SMTT(30)
    <3> QED
      BY <1>0, <3>1, Zenon DEF CallInv
  <2> QED
    BY <2>1, <2>2, <2>4, Zenon
<1>5. ASSUME NEW i \in Nat
      PROVE  Reported(c, i)' <=>
                 \/ Reported(c, i)
                 \/ \E k \in DOMAIN arg[c] : arg[c][k] = i /\ ret[c].results[k] = "ok"
  <2>1. ASSUME NEW k \in DOMAIN ans, ans[k] = Entry(i, "ok")
        PROVE  \E j \in DOMAIN arg[c] : arg[c][j] = i /\ ret[c].results[j] = "ok"
    <3>1. ans[k].verdict # "invalid"
      BY <2>1, SMTT(30), ZenonT(60) DEF Entry
    <3>2. PICK j \in DOMAIN arg[c] : ans[k] = Entry(arg[c][j], ret[c].results[j])
      BY <3>1, SMTT(30) DEF Covers
    <3>3. arg[c][j] = i /\ ret[c].results[j] = "ok"
      BY <2>1, <3>2, SMTT(30), ZenonT(60) DEF Entry
    <3> QED
      BY <3>3, Zenon
  <2>2. ASSUME NEW j \in DOMAIN arg[c], arg[c][j] = i, ret[c].results[j] = "ok"
        PROVE  \E k \in DOMAIN ans : ans[k] = Entry(i, "ok")
    BY <2>2 DEF Covers
  <2> QED
    BY <1>1, <1>3, <2>1, <2>2, ZenonT(30) DEF Reported
<1>6. metrics' \in Counters /\ ObservedWhatWasSent' /\ ProducedIsReported'
  <2>1. \A k \in DOMAIN arg[c] : ~Reported(c, arg[c][k])
    BY <1>1, Zenon DEF Reported
  <2> QED
    BY <1>0, <1>3, <1>5, <2>1, ResultsReported, Zenon DEF Responds
<1>7. ProxyTypeOK'
  BY <1>0, <1>6, SMTT(30) DEF Responds, ProxyTypeOK, Stages, Over, producerVars, streamVars
<1>8. RequestInv(c)'
  <2>1. pc'[c] \notin BeforeDecoding \cup Streaming \cup Calling
    BY <1>3, ZenonT(30) DEF BeforeDecoding, Streaming, Calling
  <2>2. PhaseInv(c)'
    BY <1>3, <2>1, SMTT(30), ZenonT(60) DEF PhaseInv, BeforeDecoding
  <2>3. (DOMAIN outcome[c] = Items(c))' /\ (ret[c].err = "closed" => closeFlag)'
    BY <1>0, <1>3, Zenon DEF RequestInv, Items
  <2>4. (Items(c))' = Items(c)
    BY <1>3, ZenonT(30) DEF Items
  <2>5. WholeInv(c)'
    BY <1>0, <1>3, <2>1, WholeCovered, Zenon
  <2>6. ASSUME NEW k \in DOMAIN ans
        PROVE  /\ ans[k].verdict \in {"ok", "failed"} => outcome[c][ans[k].index] = ans[k].verdict
               /\ ans[k].verdict = "invalid" => ans[k].index \notin submitted[c]
    <3> DEFINE Rejected == /\ ans[k].verdict = "invalid" /\ req[c].route = "batch"
                           /\ Invalid(req[c].items, ans[k].index)
               Answered == \E j \in DOMAIN arg[c] : ans[k] = Entry(arg[c][j], ret[c].results[j])
    <3>0. Rejected \/ Answered
      BY CoversEach
    <3>1. CASE Rejected
      BY <1>0, <3>1, Zenon DEF WholeInv
    <3>2. CASE Answered
      <4>1. PICK j \in DOMAIN arg[c] : ans[k] = Entry(arg[c][j], ret[c].results[j])
        BY <3>2, Zenon
      <4>2. ans[k].index = arg[c][j] /\ ans[k].verdict = ret[c].results[j]
        BY <4>1 DEF Entry
      <4>3. ret[c].results[j] \in Results /\ outcome[c][arg[c][j]] = ret[c].results[j]
        BY <1>4, ZenonT(30)
      <4>4. ret[c].results[j] # "invalid"
        BY <4>3, Zenon DEF Results
      <4> QED
        BY <4>2, <4>3, <4>4, Zenon
    <3> HIDE DEF Rejected, Answered
    <3> QED
      BY <3>0, <3>1, <3>2, Zenon
  <2>7. TruthInv(c)'
    BY <1>3, <2>6, SMTT(30), ZenonT(60) DEF TruthInv
  <2> QED
    BY <1>3, <2>1, <2>2, <2>3, <2>5, <2>7, Zenon DEF RequestInv
<1> QED
  BY <1>3, <1>5, <1>6, <1>7, <1>8, Zenon DEF Preserved, Tells

LEMMA V2RespondStep ==
    ASSUME ProxyInv, NEW c \in Clients, V2Respond(c), UNCHANGED streamVars, UNCHANGED main
    PROVE  Preserved(c) /\ Tells(c)
<1> DEFINE ans == Entries(arg[c], ret[c].results)
<1>0. /\ ProxyTypeOK /\ pc[c] = "returned" /\ req[c].route = "v2" /\ ret[c].err = "nil"
      /\ CallInv(c) /\ WholeInv(c) /\ status[c] = 200
  <2>1. pc[c] = "returned" /\ req[c].route = "v2" /\ ret[c].err = "nil"
    BY Zenon DEF V2Respond
  <2>2. ProxyTypeOK /\ RequestInv(c) /\ pc[c] \in Calling /\ req[c].route # "stream"
    BY <2>1, Zenon DEF ProxyInv, Calling
  <2>3. CallInv(c) /\ WholeInv(c)
    BY <2>2, Zenon DEF RequestInv
  <2> QED
    BY <2>1, <2>2, <2>3, Zenon DEF WholeInv
<1>1. /\ ret[c].results \in Seq(Results) /\ arg[c] \in Seq(Nat)
      /\ Len(ret[c].results) = Len(arg[c])
  <2>1. ret[c] \in Returns /\ arg[c] \in Seq(Nat)
    BY <1>0 DEF ProxyTypeOK
  <2> QED
    BY <1>0, <2>1, Zenon DEF Returns, CallInv
<1>2. /\ ans \in Seq(AnswerEntries) /\ Len(ans) = Len(arg[c])
      /\ \A k \in DOMAIN arg[c] : ans[k] = Entry(arg[c][k], ret[c].results[k])
  BY <1>1, EntriesFacts, Zenon
<1>3. /\ Len(req[c].items) \in Nat /\ Items(c) = 1..Len(req[c].items)
  BY <1>0, RequestFacts, Zenon
<1>4. arg[c] = [i \in Items(c) |-> i]
  BY <1>0, Zenon DEF CallInv
<1>5. /\ DOMAIN arg[c] = Items(c) /\ Len(arg[c]) = Len(req[c].items)
      /\ \A k \in Items(c) : arg[c][k] = k
  <2>1. DOMAIN arg[c] = Items(c) /\ \A k \in Items(c) : arg[c][k] = k
    BY <1>4, Zenon
  <2>2. DOMAIN arg[c] = 1..Len(arg[c]) /\ Len(arg[c]) \in Nat
    BY <1>1, SMTT(30)
  <2> QED
    BY <1>3, <2>1, <2>2, SMTT(30)
<1>6. /\ answer' = [answer EXCEPT ![c] = ans] /\ pc' = [pc EXCEPT ![c] = "finish"]
      /\ sent' = [sent EXCEPT ![c] = 200] /\ status' = status
      /\ metrics' = ObserveResults(metrics, ret[c].results)
      /\ UNCHANGED <<producerVars, req, count>>
  BY <1>0, Zenon DEF V2Respond, Goto
<1>7. status' = [status EXCEPT ![c] = 200]
  <2>1. status \in [Clients -> Nat] /\ status[c] = 200 /\ status' = status
    BY <1>0, <1>6, Zenon DEF ProxyTypeOK
  <2> QED
    BY <2>1
<1> HIDE DEF ans
<1>8. /\ DOMAIN ans = Items(c) /\ Len(ans) = Len(req[c].items)
      /\ \A k \in Items(c) : ans[k] = Entry(arg[c][k], ret[c].results[k]) /\ ans[k].index = k
  <2>1. DOMAIN ans = Items(c)
    BY <1>2, <1>3, <1>5
  <2> QED
    BY <1>2, <1>5, <2>1, SMTT(30) DEF Entry
<1>9. /\ \A k \in DOMAIN ans : ans[k].index = k /\ ans[k].index \in Items(c)
      /\ \A i \in Items(c) : \E k \in DOMAIN ans : ans[k].index = i
      /\ \A k \in DOMAIN ans :
            \E j \in DOMAIN arg[c] : ans[k] = Entry(arg[c][j], ret[c].results[j])
      /\ \A j \in DOMAIN arg[c] : \E k \in DOMAIN ans :
            ans[k] = Entry(arg[c][j], ret[c].results[j])
  BY <1>5, <1>8, Zenon
<1>10. 200 \in {200, 207} /\ req[c].route # "stream" /\ ans \in Seq(AnswerEntries)
  BY <1>0, <1>2, Zenon
<1>11. Len(ans) = Len(req[c].items)
  BY <1>8, Zenon
<1>12. \A k \in DOMAIN ans :
          \/ /\ ans[k].verdict = "invalid" /\ req[c].route = "batch"
             /\ Invalid(req[c].items, ans[k].index)
          \/ \E j \in DOMAIN arg[c] : ans[k] = Entry(arg[c][j], ret[c].results[j])
  BY <1>9, Zenon
<1>13. \A k \in DOMAIN ans : ans[k].index \in Items(c)
  BY <1>9, Zenon
<1>14. \A k \in DOMAIN ans : ans[k].index = k
  BY <1>9, Zenon
<1>15. Covers(c, ans)
  BY <1>9, <1>11, <1>12, <1>13, <1>14, Zenon DEF Covers
<1>16. Responds(c, ans, 200)
  BY <1>6, <1>7, Zenon DEF Responds
<1> QED
  BY <1>0, <1>10, <1>15, <1>16, WholeRespondStep, Zenon

LEMMA BatchRespondStep ==
    ASSUME ProxyInv, NEW c \in Clients, BatchRespond(c), UNCHANGED streamVars, UNCHANGED main
    PROVE  Preserved(c) /\ Tells(c)
<1> DEFINE items == req[c].items
           results == ret[c].results
           ans == Joined(items, results)
<1>0. /\ ProxyTypeOK /\ pc[c] = "returned" /\ req[c].route = "batch" /\ ret[c].err = "nil"
      /\ CallInv(c) /\ WholeInv(c)
  BY ZenonT(30) DEF ProxyInv, RequestInv, BatchRespond, Calling, WholeInv
<1>1. /\ results \in Seq(Results) /\ arg[c] \in Seq(Nat) /\ Len(results) = Len(arg[c])
      /\ arg[c] = Envelopes(items)
  <2>1. ret[c] \in Returns /\ arg[c] \in Seq(Nat)
    BY <1>0, Zenon DEF ProxyTypeOK
  <2> QED
    BY <1>0, <2>1, Zenon DEF Returns, CallInv
<1>2. items \in ItemLists /\ DOMAIN items = Items(c)
  BY <1>0, RequestFacts, Zenon DEF Items
<1>3. /\ status' = [status EXCEPT ![c] = 207] /\ sent' = [sent EXCEPT ![c] = 207]
      /\ answer' = [answer EXCEPT ![c] = ans] /\ pc' = [pc EXCEPT ![c] = "finish"]
      /\ metrics' = ObserveResults(metrics, results)
      /\ UNCHANGED <<producerVars, req, count>>
  BY <1>1, Zenon DEF BatchRespond, RespondMultiStatus, Goto, Joined
<1>4. Len(results) = Len(Envelopes(items)) /\ DOMAIN results = DOMAIN arg[c]
  BY <1>1
<1>5. /\ ans \in Seq(AnswerEntries) /\ Len(ans) = Len(items)
      /\ \A k \in DOMAIN ans : ans[k].index \in DOMAIN items
      /\ \A i \in DOMAIN items : \E k \in DOMAIN ans : ans[k].index = i
      /\ \A k \in DOMAIN ans :
            \/ ans[k].verdict = "invalid" /\ Invalid(items, ans[k].index)
            \/ \E j \in DOMAIN results : ans[k] = Entry(Envelopes(items)[j], results[j])
      /\ \A j \in DOMAIN results : \E k \in DOMAIN ans :
            ans[k] = Entry(Envelopes(items)[j], results[j])
  <2> HIDE DEF items, results
  <2> QED
    BY <1>1, <1>2, <1>4, BatchAnswer, ZenonT(30)
<1> HIDE DEF ans
<1>6. /\ ans \in Seq(AnswerEntries) /\ Len(ans) = Len(req[c].items)
      /\ \A k \in DOMAIN ans : ans[k].index \in Items(c)
      /\ \A i \in Items(c) : \E k \in DOMAIN ans : ans[k].index = i
      /\ \A k \in DOMAIN ans :
            \/ ans[k].verdict = "invalid" /\ Invalid(req[c].items, ans[k].index)
            \/ \E j \in DOMAIN arg[c] : ans[k] = Entry(arg[c][j], ret[c].results[j])
      /\ \A j \in DOMAIN arg[c] : \E k \in DOMAIN ans :
            ans[k] = Entry(arg[c][j], ret[c].results[j])
  BY <1>1, <1>2, <1>4, <1>5
<1>7. Covers(c, ans)
  BY <1>0, <1>6, Zenon DEF Covers
<1>8. Responds(c, ans, 207)
  BY <1>3, Zenon DEF Responds
<1>9. 207 \in {200, 207} /\ req[c].route # "stream"
  BY <1>0, Zenon
<1> QED
  BY <1>0, <1>6, <1>7, <1>8, <1>9, WholeRespondStep, SMTT(30), ZenonT(60)

-----------------------------------------------------------------------------
(* The streaming route: each record read leads to one more report. *)

LEMMA AppendFacts ==
    ASSUME NEW a \in Seq(AnswerEntries), NEW e \in AnswerEntries
    PROVE  /\ Append(a, e) \in Seq(AnswerEntries) /\ Len(Append(a, e)) = Len(a) + 1
           /\ Append(a, e) # <<>>
           /\ \A k \in DOMAIN Append(a, e) :
                 \/ k \in DOMAIN a /\ Append(a, e)[k] = a[k]
                 \/ k = Len(a) + 1 /\ Append(a, e)[k] = e
           /\ \A k \in DOMAIN a : k \in DOMAIN Append(a, e) /\ Append(a, e)[k] = a[k]
           /\ Len(a) + 1 \in DOMAIN Append(a, e) /\ Append(a, e)[Len(a) + 1] = e
<1>1. /\ Len(a) \in Nat /\ DOMAIN a = 1..Len(a) /\ Append(a, e) \in Seq(AnswerEntries)
      /\ Len(Append(a, e)) = Len(a) + 1
      /\ \A i \in 1..Len(a) : Append(a, e)[i] = a[i]
      /\ Append(a, e)[Len(a) + 1] = e
  OBVIOUS
<1>2. DOMAIN Append(a, e) = 1..(Len(a) + 1)
  BY <1>1
<1> DEFINE b == Append(a, e)
<1> HIDE DEF b
<1>3. /\ b \in Seq(AnswerEntries) /\ Len(b) = Len(a) + 1 /\ DOMAIN b = 1..(Len(a) + 1)
      /\ \A i \in 1..Len(a) : b[i] = a[i]
      /\ b[Len(a) + 1] = e
  BY <1>1, <1>2, Zenon DEF b
<1>4. b # <<>>
  BY <1>1, <1>3
<1>5. \A k \in DOMAIN b : \/ k \in DOMAIN a /\ b[k] = a[k]
                          \/ k = Len(a) + 1 /\ b[k] = e
  BY <1>1, <1>3
<1>6. /\ \A k \in DOMAIN a : k \in DOMAIN b /\ b[k] = a[k]
      /\ Len(a) + 1 \in DOMAIN b
  BY <1>1, <1>3
<1> QED
  BY <1>3, <1>4, <1>5, <1>6, Zenon DEF b

\* The stream ends with an error, which is the status if none is out yet.
LEMMA StreamFailureStep ==
    ASSUME ProxyInv, NEW c \in Clients, req[c].route = "stream",
           pc[c] \in Streaming \cup Calling, NEW st \in Refusals, StreamFailure(c, st),
           pos' \in [Clients -> Nat], count' \in [Clients -> Nat], Uncounted,
           \A d \in Clients \ {c} : pos'[d] = pos[d] /\ count'[d] = count[d],
           pos'[c] = Len(answer[c]) + 1, pos'[c] <= Len(req[c].items),
           wrote[c] => submitted[c] \subseteq 1..(Len(answer[c]) + 1),
           ~wrote[c] /\ st # 504 => submitted[c] = {},
           UNCHANGED <<req, arg, ret, outcome, submitted, closeFlag, main>>
    PROVE  Preserved(c)
<1>0. ProxyTypeOK /\ RequestInv(c) /\ StreamInv(c) /\ answer[c] \in Seq(AnswerEntries)
  BY Zenon DEF ProxyInv, RequestInv, ProxyTypeOK
<1>1. st \in Nat /\ st >= 400 /\ Len(answer[c]) \in Nat /\ pc[c] \notin {"idle", "done"}
  BY <1>0 DEF Refusals, Streaming, Calling
<1> DEFINE e == Entry(pos'[c], "error")
           ans == IF wrote[c] THEN Append(answer[c], e) ELSE answer[c]
           line == IF wrote[c] THEN 200 ELSE st
<1>2. e \in AnswerEntries /\ e.index = Len(answer[c]) + 1 /\ e.verdict = "error"
  BY <1>1, Zenon DEF Entry, AnswerEntries, Verdicts
<1>3. /\ ans \in Seq(AnswerEntries) /\ DOMAIN ans = 1..Len(ans) /\ Len(ans) \in Nat
      /\ wrote[c] => Len(ans) = Len(answer[c]) + 1 /\ ans # <<>>
      /\ ~wrote[c] => ans = answer[c]
      /\ \A k \in DOMAIN ans : \/ k \in DOMAIN answer[c] /\ ans[k] = answer[c][k]
                               \/ ans[k].index = k /\ ans[k].verdict = "error"
      /\ \A k \in DOMAIN answer[c] : k \in DOMAIN ans /\ ans[k] = answer[c][k]
  <2> HIDE DEF e
  <2>1. CASE wrote[c]
    <3>1. ans = Append(answer[c], e)
      BY <2>1, Zenon
    <3>2. /\ ans \in Seq(AnswerEntries) /\ Len(ans) = Len(answer[c]) + 1 /\ ans # <<>>
          /\ \A k \in DOMAIN ans :
                \/ k \in DOMAIN answer[c] /\ ans[k] = answer[c][k]
                \/ k = Len(answer[c]) + 1 /\ ans[k] = e
          /\ \A k \in DOMAIN answer[c] : k \in DOMAIN ans /\ ans[k] = answer[c][k]
      <4>1. LET a == answer[c] IN
            /\ Append(a, e) \in Seq(AnswerEntries) /\ Len(Append(a, e)) = Len(a) + 1
            /\ Append(a, e) # <<>>
            /\ \A k \in DOMAIN Append(a, e) :
                  \/ k \in DOMAIN a /\ Append(a, e)[k] = a[k]
                  \/ k = Len(a) + 1 /\ Append(a, e)[k] = e
            /\ \A k \in DOMAIN a : k \in DOMAIN Append(a, e) /\ Append(a, e)[k] = a[k]
        BY <1>0, <1>2, AppendFacts, SMTT(30)
      <4> HIDE DEF ans
      <4> QED
        BY <3>1, <4>1, Zenon
    <3> HIDE DEF ans
    <3> QED
      BY <1>2, <2>1, <3>2
  <2>2. CASE ~wrote[c]
    BY <1>0, <2>2
  <2> QED
    BY <2>1, <2>2, Zenon
<1>4. /\ answer' = [answer EXCEPT ![c] = ans] /\ pc' = [pc EXCEPT ![c] = "finish"]
      /\ status' = [status EXCEPT ![c] = line] /\ sent' = [sent EXCEPT ![c] = line]
      /\ wrote' = wrote
  <2>1. CASE wrote[c]
    <3>1. status' = status /\ sent' = sent /\ status[c] = 200 /\ sent[c] = 200
      BY <1>0, <2>1, Zenon DEF StreamFailure, StreamInv
    <3> QED
      BY <1>0, <2>1, <3>1 DEF StreamFailure, Append1, Goto, ProxyTypeOK
  <2>2. CASE ~wrote[c]
    BY <1>0, <2>2, Zenon DEF StreamFailure, WriteAPIError, Goto, ProxyTypeOK
  <2> QED
    BY <2>1, <2>2, Zenon
<1> HIDE DEF ans
<1>5. line \in Nat /\ line \in {200} \cup Refusals /\ (wrote[c] => line = 200) /\ (~wrote[c] => line = st)
  BY <1>1, ZenonT(30)
<1> HIDE DEF line
<1>6. ProxyTypeOK'
  BY <1>0, <1>3, <1>4, <1>5, Zenon DEF ProxyTypeOK, Stages, Over, Uncounted
<1>7. /\ Others(c) /\ pc'[c] = "finish" /\ status'[c] = line /\ sent'[c] = line
      /\ answer'[c] = ans /\ ret'[c] = ret[c] /\ outcome'[c] = outcome[c]
      /\ submitted'[c] = submitted[c] /\ wrote'[c] = wrote[c] /\ req' = req
  BY <1>0, <1>4, Zenon DEF ProxyTypeOK, Others, Same
<1>8. RequestInv(c)'
  <2>1. pc'[c] \notin BeforeDecoding \cup Streaming \cup Calling /\ pc'[c] \in Over
    BY <1>7, Zenon DEF BeforeDecoding, Streaming, Calling, Over
  <2>2. PhaseInv(c)'
    BY <1>5, <1>7, <2>1, SMTT(30), ZenonT(60) DEF PhaseInv, BeforeDecoding
  <2>3. (DOMAIN outcome[c] = Items(c))' /\ (ret[c].err = "closed" => closeFlag)'
    BY <1>0, <1>7, Zenon DEF RequestInv, Items
  <2>4. \A k \in DOMAIN ans : ans[k].index = k
    BY <1>0, <1>3, Zenon DEF StreamInv
  <2>5. wrote[c] <=> ans # <<>>
    BY <1>0, <1>3, Zenon DEF StreamInv
  <2>6. /\ wrote[c] => submitted[c] \subseteq 1..Len(ans)
        /\ ~wrote[c] => line >= 400
        /\ ~wrote[c] /\ line # 504 => submitted[c] = {}
    <3>1. wrote[c] => submitted[c] \subseteq 1..Len(ans)
      BY <1>3, Zenon
    <3>2. ~wrote[c] => line >= 400
      BY <1>1, <1>5, Zenon
    <3> QED
      BY <1>5, <3>1, <3>2, ZenonT(30)
  <2>7. StreamInv(c)'
    BY <1>5, <1>7, <2>1, <2>4, <2>5, <2>6, ZenonT(60) DEF StreamInv
  <2>8. TruthInv(c)'
    <3>1. ASSUME NEW k \in DOMAIN ans
          PROVE  /\ ans[k].verdict \in {"ok", "failed"} => outcome[c][ans[k].index] = ans[k].verdict
                 /\ ans[k].verdict = "invalid" => ans[k].index \notin submitted[c]
      <4>1. CASE k \in DOMAIN answer[c] /\ ans[k] = answer[c][k]
        BY <1>0, <4>1, Zenon DEF TruthInv, RequestInv
      <4>2. CASE ans[k].verdict = "error"
        BY <4>2, Zenon
      <4> QED
        BY <1>3, <4>1, <4>2, Zenon
    <3> QED
      BY <1>7, <3>1, Zenon DEF TruthInv
  <2> QED
    BY <1>7, <2>1, <2>2, <2>3, <2>7, <2>8, Zenon DEF RequestInv
<1>9. ASSUME NEW i \in Nat PROVE Reported(c, i)' <=> Reported(c, i)
  <2>1. ASSUME NEW k \in DOMAIN ans, ans[k] = Entry(i, "ok")
        PROVE  \E j \in DOMAIN answer[c] : answer[c][j] = Entry(i, "ok")
    <3>1. ans[k].verdict # "error"
      BY <2>1 DEF Entry
    <3> QED
      BY <1>3, <2>1, <3>1, Zenon
  <2>2. ASSUME NEW k \in DOMAIN answer[c], answer[c][k] = Entry(i, "ok")
        PROVE  \E j \in DOMAIN ans : ans[j] = Entry(i, "ok")
    BY <1>3, <2>2, Zenon
  <2> QED
    BY <1>7, <2>1, <2>2, Zenon DEF Reported
<1>10. ObservedWhatWasSent' /\ ProducedIsReported'
  BY <1>1, <1>7, <1>9, ObservedKept, ReportedKept, Zenon DEF Uncounted, ProxyInv
<1> QED
  BY <1>6, <1>7, <1>8, <1>10, Zenon DEF Preserved

\* A report is added, the first one with the status, and the stream goes on.
LEMMA RecordResponseStep ==
    ASSUME ProxyInv, NEW c \in Clients, req[c].route = "stream",
           pc[c] \in {"streamRate", "returned"},
           NEW v \in {"invalid"} \cup Results, WriteRecordResponse(c, Entry(pos[c], v)),
           pos' = pos, count' \in [Clients -> Nat], count'[c] = pos[c],
           \A d \in Clients \ {c} : count'[d] = count[d], metrics' \in Counters,
           Len(answer[c]) = pos[c] - 1, pos[c] > 0,
           submitted[c] \subseteq 1..pos[c],
           v = "invalid" => pos[c] \notin submitted[c],
           v \in Results => outcome[c][pos[c]] = v,
           UNCHANGED <<req, arg, ret, outcome, submitted, closeFlag, main>>
    PROVE  /\ ProxyTypeOK' /\ Others(c) /\ RequestInv(c)' /\ pc'[c] = "read"
           /\ \A i \in Nat : Reported(c, i)' <=> (Reported(c, i) \/ (i = pos[c] /\ v = "ok"))
<1>0. ProxyTypeOK /\ RequestInv(c) /\ StreamInv(c) /\ answer[c] \in Seq(AnswerEntries)
  BY Zenon DEF ProxyInv, RequestInv, ProxyTypeOK
<1>1. pos[c] \in Nat /\ Len(answer[c]) \in Nat /\ Len(answer[c]) + 1 = pos[c]
  BY <1>0 DEF ProxyTypeOK
<1> DEFINE e == Entry(pos[c], v)
           ans == Append(answer[c], e)
<1>2. e \in AnswerEntries /\ e.index = pos[c] /\ e.verdict = v
  BY <1>1, Zenon DEF Entry, AnswerEntries, Verdicts, Results
<1> HIDE DEF e
<1>3. /\ ans \in Seq(AnswerEntries) /\ Len(ans) = Len(answer[c]) + 1 /\ ans # <<>>
      /\ \A k \in DOMAIN ans : \/ k \in DOMAIN answer[c] /\ ans[k] = answer[c][k]
                               \/ k = Len(answer[c]) + 1 /\ ans[k] = e
      /\ \A k \in DOMAIN answer[c] : k \in DOMAIN ans /\ ans[k] = answer[c][k]
      /\ Len(answer[c]) + 1 \in DOMAIN ans /\ ans[Len(answer[c]) + 1] = e
  BY <1>0, <1>2, AppendFacts, Zenon
<1> HIDE DEF ans
<1>4. /\ answer' = [answer EXCEPT ![c] = ans] /\ pc' = [pc EXCEPT ![c] = "read"]
      /\ status' = [status EXCEPT ![c] = 200] /\ sent' = [sent EXCEPT ![c] = 200]
      /\ wrote' = [wrote EXCEPT ![c] = TRUE]
  <2>1. answer' = [answer EXCEPT ![c] = ans]
    BY <1>0, Zenon DEF WriteRecordResponse, Append1, ans, e, ProxyTypeOK
  <2>2. pc' = [pc EXCEPT ![c] = "read"] /\ wrote' = [wrote EXCEPT ![c] = TRUE]
    BY Zenon DEF WriteRecordResponse, Goto
  <2>3. CASE wrote[c]
    <3>1. status' = status /\ sent' = sent /\ status[c] = 200 /\ sent[c] = 200
      BY <1>0, <2>3, Zenon DEF WriteRecordResponse, StreamInv
    <3> QED
      BY <1>0, <2>1, <2>2, <3>1, SMTT(30) DEF ProxyTypeOK
  <2>4. CASE ~wrote[c]
    BY <2>1, <2>2, <2>4, Zenon DEF WriteRecordResponse
  <2> QED
    BY <2>3, <2>4, Zenon
<1>5. ProxyTypeOK'
  BY <1>0, <1>3, <1>4, ZenonT(60) DEF ProxyTypeOK, Stages, Streaming
<1>6. /\ Others(c) /\ pc'[c] = "read" /\ status'[c] = 200 /\ sent'[c] = 200
      /\ answer'[c] = ans /\ ret'[c] = ret[c] /\ outcome'[c] = outcome[c]
      /\ submitted'[c] = submitted[c] /\ wrote'[c] /\ req' = req /\ pos'[c] = pos[c]
  BY <1>0, <1>4, SMTT(30), ZenonT(60) DEF ProxyTypeOK, Others, Same
<1>7. RequestInv(c)'
  <2>1. pc'[c] \notin BeforeDecoding \cup Calling \cup Over /\ pc'[c] \in Streaming
    BY <1>6, Zenon DEF BeforeDecoding, Streaming, Calling, Over
  <2>2. PhaseInv(c)'
    BY <1>6, <2>1, Zenon DEF PhaseInv, BeforeDecoding, Over
  <2>3. (DOMAIN outcome[c] = Items(c))' /\ (ret[c].err = "closed" => closeFlag)'
    BY <1>0, <1>6, Zenon DEF RequestInv, Items
  <2>4. ASSUME NEW k \in DOMAIN ans PROVE ans[k].index = k
    <3>1. CASE k \in DOMAIN answer[c] /\ ans[k] = answer[c][k]
      BY <1>0, <3>1, Zenon DEF StreamInv
    <3>2. CASE k = Len(answer[c]) + 1 /\ ans[k] = e
      BY <1>1, <1>2, <3>2, Zenon
    <3> QED
      BY <1>3, <3>1, <3>2, Zenon
  <2>5. pos[c] <= Len(req[c].items) /\ Len(ans) = pos[c] /\ submitted[c] \subseteq 1..Len(ans)
    BY <1>0, <1>1, <1>3, Zenon DEF StreamInv
  <2>6. StreamInv(c)'
    BY <1>3, <1>6, <2>1, <2>4, <2>5, Zenon DEF StreamInv
  <2>7. TruthInv(c)'
    <3>1. ASSUME NEW k \in DOMAIN ans
          PROVE  /\ ans[k].verdict \in {"ok", "failed"} => outcome[c][ans[k].index] = ans[k].verdict
                 /\ ans[k].verdict = "invalid" => ans[k].index \notin submitted[c]
      <4>1. CASE k \in DOMAIN answer[c] /\ ans[k] = answer[c][k]
        BY <1>0, <4>1, Zenon DEF TruthInv, RequestInv
      <4>2. CASE ans[k] = e
        BY <1>2, <4>2, Zenon DEF Results
      <4> QED
        BY <1>3, <4>1, <4>2, Zenon
    <3>2. answer'[c] = ans /\ outcome'[c] = outcome[c] /\ submitted'[c] = submitted[c]
      BY <1>6, Zenon
    <3> QED
      BY <3>1, <3>2, Zenon DEF TruthInv
  <2> QED
    BY <1>6, <2>1, <2>2, <2>3, <2>6, <2>7, Zenon DEF RequestInv
<1>8. ASSUME NEW i \in Nat
      PROVE  Reported(c, i)' <=> (Reported(c, i) \/ (i = pos[c] /\ v = "ok"))
  <2>0. e = Entry(i, "ok") <=> (i = pos[c] /\ v = "ok")
    BY Zenon DEF e, Entry
  <2>1. ASSUME NEW k \in DOMAIN ans, ans[k] = Entry(i, "ok")
        PROVE  (\E j \in DOMAIN answer[c] : answer[c][j] = Entry(i, "ok")) \/ e = Entry(i, "ok")
    BY <1>3, <2>1, Zenon
  <2>2. ASSUME NEW k \in DOMAIN answer[c], answer[c][k] = Entry(i, "ok")
        PROVE  \E j \in DOMAIN ans : ans[j] = Entry(i, "ok")
    BY <1>3, <2>2, Zenon
  <2>3. ASSUME e = Entry(i, "ok")
        PROVE  \E j \in DOMAIN ans : ans[j] = Entry(i, "ok")
    BY <1>3, <2>3, Zenon
  <2> QED
    BY <1>6, <2>0, <2>1, <2>2, <2>3, Zenon DEF Reported
<1> QED
  BY <1>5, <1>6, <1>7, <1>8, Zenon

=============================================================================
