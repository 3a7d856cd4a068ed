---------------------------- MODULE ProxyProofs ----------------------------
(***************************************************************************)
(* The safety properties of Proxy, for any number of clients, any traffic  *)
(* and any limits: ProxyInv is inductive, and each property follows.       *)
(***************************************************************************)
EXTENDS ProxyCallProofs

-----------------------------------------------------------------------------
(* The loop of the stream. *)

\* What the metrics calls of the stream's error paths leave alone.
LEMMA StreamUncounted ==
    ASSUME NEW m \in Counters
    PROVE  /\ LET n == ObserveProduceResult(m, 0, 1) IN
              /\ n \in Counters /\ n.requests = m.requests
              /\ n.outstanding = m.outstanding /\ n.produced = m.produced
           /\ LET n == ObserveProduceResult(ObserveRateLimitRejected(m), 0, 1) IN
              /\ n \in Counters /\ n.requests = m.requests
              /\ n.outstanding = m.outstanding /\ n.produced = m.produced
           /\ LET n == ObserveAdmissionRejected(ObserveProduceResult(m, 0, 1)) IN
              /\ n \in Counters /\ n.requests = m.requests
              /\ n.outstanding = m.outstanding /\ n.produced = m.produced
<1>1. ASSUME NEW k \in Counters
      PROVE  LET n == ObserveProduceResult(k, 0, 1) IN
             /\ n \in Counters /\ n.requests = k.requests
             /\ n.outstanding = k.outstanding /\ n.produced = k.produced
  <2>0. 0 \in Nat /\ 1 \in Nat
    BY Zenon
  <2>1. LET n == ObserveProduceResult(k, 0, 1) IN
        /\ n \in Counters /\ n.requests = k.requests /\ n.outstanding = k.outstanding
        /\ n.produced = k.produced + 0
    BY <2>0, MetricsFacts, ZenonT(60)
  <2>2. k.produced + 0 = k.produced
    BY DEF Counters
  <2> QED
    BY <2>1, <2>2, Zenon
<1> DEFINE r == ObserveRateLimitRejected(m)
           p == ObserveProduceResult(m, 0, 1)
<1>2. r \in Counters /\ r.requests = m.requests /\ r.outstanding = m.outstanding /\ r.produced = m.produced
  BY MetricsFacts
<1>3. p \in Counters /\ p.requests = m.requests /\ p.outstanding = m.outstanding /\ p.produced = m.produced
  BY <1>1, Zenon
<1> DEFINE q == ObserveAdmissionRejected(p)
           s == ObserveProduceResult(r, 0, 1)
<1> HIDE DEF r, p
<1>4. q \in Counters /\ q.requests = p.requests /\ q.outstanding = p.outstanding /\ q.produced = p.produced
  BY <1>3, MetricsFacts
<1>5. s \in Counters /\ s.requests = r.requests /\ s.outstanding = r.outstanding /\ s.produced = r.produced
  BY <1>1, <1>2, Zenon
<1> HIDE DEF q, s
<1> QED
  BY <1>2, <1>3, <1>4, <1>5, Zenon DEF q, s, r, p

LEMMA StreamDecodeStep ==
    ASSUME ProxyInv, NEW c \in Clients, StreamDecode(c), UNCHANGED main
    PROVE  Preserved(c)
<1>0. /\ ProxyTypeOK /\ RequestInv(c) /\ pc[c] = "read" /\ pc[c] \in Streaming
      /\ req[c].route = "stream" /\ StreamInv(c)
  BY SMTT(30), ZenonT(60) DEF ProxyInv, RequestInv, StreamDecode, Streaming, PhaseInv
<1>1. /\ pos[c] \in Nat /\ Len(req[c].items) \in Nat /\ count[c] = pos[c]
      /\ Len(answer[c]) = pos[c] /\ pos[c] < Len(req[c].items)
      /\ submitted[c] \subseteq 1..Len(answer[c])
  BY <1>0, RequestFacts, Zenon DEF ProxyTypeOK, StreamInv, StreamDecode
<1>2. /\ UNCHANGED <<req, arg, ret, outcome, submitted, closeFlag, count, metrics, main>>
      /\ pos' \in [Clients -> Nat] /\ pos'[c] = pos[c] + 1
      /\ \A d \in Clients \ {c} : pos'[d] = pos[d] /\ count'[d] = count[d]
      /\ count' \in [Clients -> Nat]
  BY <1>0, <1>1, SMTT(30) DEF StreamDecode, producerVars, ProxyTypeOK
<1>3. Uncounted
  BY <1>0, <1>2, Zenon DEF Uncounted, ProxyTypeOK
<1>4. ~wrote[c] => submitted[c] = {}
  <2>1. ~wrote[c] => Len(answer[c]) = 0
    BY <1>0, Zenon DEF StreamInv
  <2> QED
    BY <1>1, <2>1
<1>5. CASE \E st \in Refusals : StreamFailure(c, st)
  <2>1. PICK st \in Refusals : StreamFailure(c, st)
    BY <1>5, Zenon
  <2>2. /\ wrote[c] => submitted[c] \subseteq 1..(Len(answer[c]) + 1)
        /\ pos'[c] = Len(answer[c]) + 1 /\ pos'[c] <= Len(req[c].items)
    BY <1>1, <1>2
  <2> QED
    BY <1>0, <1>2, <1>3, <1>4, <2>1, <2>2, StreamFailureStep, Zenon
<1>6. CASE Goto(c, "streamRate") /\ UNCHANGED <<status, sent, answer, wrote>>
  <2>1. ProxyTypeOK'
    BY <1>0, <1>2, <1>6, Zenon DEF ProxyTypeOK, Goto, Stages, Streaming
  <2>2. /\ Others(c) /\ pc'[c] = "streamRate" /\ status'[c] = status[c] /\ sent'[c] = sent[c]
        /\ answer'[c] = answer[c] /\ wrote'[c] = wrote[c] /\ count'[c] = count[c]
        /\ ret'[c] = ret[c] /\ outcome'[c] = outcome[c] /\ submitted'[c] = submitted[c]
        /\ req' = req /\ closeFlag' = closeFlag
    BY <1>0, <1>2, <1>6, Zenon DEF ProxyTypeOK, Others, Same, Goto
  <2>3. RequestInv(c)'
    <3>1. /\ pc'[c] \notin BeforeDecoding \cup Calling \cup Over /\ pc'[c] \in Streaming
          /\ pc[c] \notin Over
      BY <1>0, <2>2, Zenon DEF BeforeDecoding, Streaming, Calling, Over
    <3>2. PhaseInv(c)'
      BY <1>0, <2>2, <3>1, Zenon DEF PhaseInv, BeforeDecoding, Over
    <3>3. (DOMAIN outcome[c] = Items(c))' /\ (ret[c].err = "closed" => closeFlag)'
      BY <1>0, <2>2, Zenon DEF RequestInv, Items
    <3>4. pos'[c] <= Len(req[c].items) /\ pos'[c] > 0 /\ pos[c] = pos'[c] - 1
      BY <1>1, <1>2, SMTT(30)
    <3>5. StreamInv(c)'
      BY <1>0, <1>1, <2>2, <3>1, <3>4, ZenonT(60) DEF StreamInv
    <3>6. TruthInv(c)'
      BY <1>0, <2>2, Zenon DEF TruthInv, RequestInv
    <3> QED
      BY <1>0, <2>2, <3>1, <3>2, <3>3, <3>5, <3>6, Zenon DEF RequestInv
  <2>4. ObservedWhatWasSent' /\ ProducedIsReported'
    BY <1>0, <1>2, <2>2, CountersKept, Zenon DEF ProxyInv
  <2> QED
    BY <2>1, <2>2, <2>3, <2>4, Zenon DEF Preserved
<1>7. \/ \E st \in Refusals : StreamFailure(c, st)
      \/ Goto(c, "streamRate") /\ UNCHANGED <<status, sent, answer, wrote>>
  BY SMTT(30), ZenonT(60) DEF StreamDecode, Refusals
<1> QED
  BY <1>5, <1>6, <1>7, Zenon

LEMMA StreamEOFStep ==
    ASSUME ProxyInv, NEW c \in Clients, StreamEOF(c), UNCHANGED main
    PROVE  Preserved(c)
<1> DEFINE line == IF count[c] = 0 THEN 400 ELSE 200
<1>0. /\ ProxyTypeOK /\ RequestInv(c) /\ pc[c] = "read" /\ pc[c] \in Streaming
      /\ req[c].route = "stream" /\ StreamInv(c)
  BY SMTT(30), ZenonT(60) DEF ProxyInv, RequestInv, StreamEOF, Streaming, PhaseInv
<1>1. /\ pos[c] \in Nat /\ count[c] = pos[c] /\ Len(answer[c]) = pos[c]
      /\ answer[c] \in Seq(AnswerEntries) /\ submitted[c] \subseteq 1..Len(answer[c])
  BY <1>0, Zenon DEF ProxyTypeOK, StreamInv
<1>2. /\ wrote[c] <=> count[c] # 0
      /\ wrote[c] => status[c] = 200 /\ sent[c] = 200
  BY <1>0, <1>1 DEF StreamInv
<1>3. UNCHANGED <<req, arg, ret, outcome, submitted, closeFlag, answer, count, metrics, pos, wrote, main>>
  BY Zenon DEF StreamEOF, producerVars, streamVars
<1>4. /\ pc' = [pc EXCEPT ![c] = "finish"] /\ status' = [status EXCEPT ![c] = line]
      /\ sent' = [sent EXCEPT ![c] = line]
  <2>1. CASE count[c] = 0
    BY <2>1 DEF StreamEOF, WriteAPIError, Goto
  <2>2. CASE count[c] # 0
    <3>1. status' = status /\ sent' = sent /\ status[c] = 200 /\ sent[c] = 200
      BY <1>2, <2>2, Zenon DEF StreamEOF
    <3> QED
      BY <1>0, <2>2, <3>1 DEF StreamEOF, Goto, ProxyTypeOK
  <2> QED
    BY <2>1, <2>2, Zenon
<1>5. line \in Nat /\ line \in {200} \cup Refusals /\ (wrote[c] => line = 200) /\ (~wrote[c] => line = 400)
  BY <1>2, SMTT(30) DEF Refusals
<1> HIDE DEF line
<1>6. ProxyTypeOK'
  BY <1>0, <1>3, <1>4, <1>5, SMTT(30) DEF ProxyTypeOK, Stages, Over
<1>7. /\ Others(c) /\ Unmoved(c) /\ pc'[c] = "finish" /\ status'[c] = line /\ sent'[c] = line
      /\ answer'[c] = answer[c] /\ req' = req
  BY <1>0, <1>3, <1>4, Zenon DEF ProxyTypeOK, Others, Same, Unmoved
<1>8. RequestInv(c)'
  <2> USE DEF Unmoved
  <2>1. pc'[c] \notin BeforeDecoding \cup Streaming \cup Calling /\ pc'[c] \in Over
    BY <1>7, Zenon DEF BeforeDecoding, Streaming, Calling, Over
  <2>2. PhaseInv(c)'
    BY <1>5, <1>7, <2>1, SMTT(30) DEF PhaseInv, BeforeDecoding
  <2>3. (DOMAIN outcome[c] = Items(c))' /\ (ret[c].err = "closed" => closeFlag)'
    BY <1>0, <1>3, <1>7, Zenon DEF RequestInv, Items
  <2>4. (~wrote[c] => line >= 400) /\ (~wrote[c] => submitted[c] = {})
    <3>1. ~wrote[c] => Len(answer[c]) = 0
      BY <1>0, Zenon DEF StreamInv
    <3> QED
      BY <1>1, <1>5, <3>1
  <2>5. StreamInv(c)'
    BY <1>0, <1>1, <1>5, <1>7, <2>1, <2>4, ZenonT(60) DEF StreamInv
  <2>6. TruthInv(c)'
    BY <1>0, <1>7, Zenon DEF TruthInv, RequestInv
  <2> QED
    BY <1>0, <1>7, <2>1, <2>2, <2>3, <2>5, <2>6, Zenon DEF RequestInv
<1>9. ObservedWhatWasSent' /\ ProducedIsReported'
  BY <1>0, <1>3, <1>7, CountersKept, Zenon DEF ProxyInv
<1> QED
  BY <1>6, <1>7, <1>8, <1>9, Zenon DEF Preserved

\* Where a record stands once it has been read.
LEMMA RecordRead ==
    ASSUME ProxyInv, NEW c \in Clients, pc[c] = "streamRate"
    PROVE  /\ ProxyTypeOK /\ RequestInv(c) /\ req[c].route = "stream" /\ StreamInv(c)
           /\ pc[c] \in Streaming /\ pos[c] \in Nat /\ pos[c] > 0 /\ count[c] = pos[c] - 1
           /\ pos[c] <= Len(req[c].items)
           /\ Len(answer[c]) = pos[c] - 1 /\ pos[c] = Len(answer[c]) + 1
           /\ submitted[c] \subseteq 1..(pos[c] - 1)
           /\ wrote[c] => submitted[c] \subseteq 1..(Len(answer[c]) + 1)
           /\ ~wrote[c] => submitted[c] = {}
<1>1. /\ ProxyTypeOK /\ RequestInv(c) /\ pc[c] \in Streaming
      /\ req[c].route = "stream" /\ StreamInv(c)
  BY SMTT(30), ZenonT(60) DEF ProxyInv, RequestInv, Streaming, PhaseInv
<1>2. /\ pos[c] \in Nat /\ pos[c] > 0 /\ count[c] = pos[c] - 1 /\ Len(answer[c]) = pos[c] - 1
      /\ submitted[c] \subseteq 1..Len(answer[c]) /\ pos[c] <= Len(req[c].items)
  BY <1>1, Zenon DEF ProxyTypeOK, StreamInv
<1>3. ~wrote[c] => Len(answer[c]) = 0
  BY <1>1 DEF StreamInv
<1>4. /\ pos[c] = Len(answer[c]) + 1 /\ submitted[c] \subseteq 1..(pos[c] - 1)
      /\ submitted[c] \subseteq 1..(Len(answer[c]) + 1)
      /\ ~wrote[c] => submitted[c] = {}
  BY <1>2, <1>3, SMTT(30)
<1> QED
  BY <1>1, <1>2, <1>4, Zenon

LEMMA StreamRateRefusedStep ==
    ASSUME ProxyInv, NEW c \in Clients, StreamRateRefused(c), UNCHANGED main
    PROVE  Preserved(c)
<1>1. /\ pc[c] = "streamRate" /\ StreamFailure(c, 429) /\ pos' = pos
      /\ metrics' = ObserveProduceResult(ObserveRateLimitRejected(metrics), 0, 1)
      /\ UNCHANGED <<req, arg, ret, outcome, submitted, closeFlag, count, main>>
  BY Zenon DEF StreamRateRefused, producerVars
<1>2. metrics \in Counters /\ pos \in [Clients -> Nat] /\ count \in [Clients -> Nat]
  BY Zenon DEF ProxyInv, ProxyTypeOK
<1>3. Uncounted
  BY <1>1, <1>2, StreamUncounted, Zenon DEF Uncounted
<1>4. 429 \in Refusals
  BY DEF Refusals
<1> QED
  BY <1>1, <1>2, <1>3, <1>4, RecordRead, StreamFailureStep, ZenonT(60)

LEMMA StreamProduceErrorStep ==
    ASSUME ProxyInv, NEW c \in Clients, StreamProduceError(c), UNCHANGED main
    PROVE  Preserved(c)
<1> DEFINE err == ret[c].err
           st == ClassifyProduceError(AsTimeout(err))
<1>0. /\ ProxyTypeOK /\ RequestInv(c) /\ pc[c] = "returned" /\ pc[c] \in Calling
      /\ req[c].route = "stream" /\ StreamInv(c) /\ CallInv(c)
      /\ err \in Errors /\ err # "nil"
  BY Zenon DEF ProxyInv, RequestInv, StreamProduceError, Calling, CallInv
<1>1. /\ StreamFailure(c, st) /\ pos' = pos
      /\ metrics' = IF err = "overloaded"
                      THEN ObserveAdmissionRejected(ObserveProduceResult(metrics, 0, 1))
                      ELSE ObserveProduceResult(metrics, 0, 1)
      /\ UNCHANGED <<req, arg, ret, outcome, submitted, closeFlag, count, main>>
  BY Zenon DEF StreamProduceError, producerVars
<1>2. metrics \in Counters /\ pos \in [Clients -> Nat] /\ count \in [Clients -> Nat]
  BY Zenon DEF ProxyInv, ProxyTypeOK
<1>3. Uncounted
  BY <1>1, <1>2, StreamUncounted, Zenon DEF Uncounted
<1>4. st \in Refusals /\ (st # 504 => err \in {"closed", "overloaded"})
  BY <1>0, ErrorStatuses, Zenon
<1>5. /\ pos[c] \in Nat /\ pos[c] > 0 /\ Len(answer[c]) = pos[c] - 1 /\ pos[c] <= Len(req[c].items)
      /\ pos[c] = Len(answer[c]) + 1
  BY <1>0, <1>2, SMTT(30) DEF StreamInv
<1>6. /\ Earlier(c) = 1..(pos[c] - 1) /\ Passed(c) = {pos[c]}
  BY <1>0, SMTT(30) DEF CallInv, Earlier, Passed
<1>7. submitted[c] \subseteq 1..(Len(answer[c]) + 1)
  BY <1>0, <1>5, <1>6 DEF CallInv
<1>8. ~wrote[c] /\ st # 504 => submitted[c] = {}
  <2>1. ~wrote[c] => Len(answer[c]) = 0
    BY <1>0 DEF StreamInv
  <2>2. ~wrote[c] => Earlier(c) = {}
    BY <1>5, <1>6, <2>1
  <2> QED
    BY <1>0, <1>4, <2>2, Zenon DEF CallInv
<1> HIDE DEF st
<1> QED
  BY <1>0, <1>1, <1>2, <1>3, <1>4, <1>5, <1>7, <1>8, StreamFailureStep, Zenon

LEMMA StreamRecordStep ==
    ASSUME ProxyInv, NEW c \in Clients, StreamRecord(c), UNCHANGED main
    PROVE  Preserved(c)
<1> DEFINE form == req[c].items[pos[c]].form
<1>0. /\ pc[c] = "streamRate" /\ ProxyTypeOK /\ RequestInv(c)
      /\ req[c].route = "stream" /\ StreamInv(c) /\ pc[c] \in Streaming
      /\ pos[c] \in Nat /\ pos[c] > 0 /\ count[c] = pos[c] - 1
      /\ pos[c] <= Len(req[c].items) /\ Len(answer[c]) = pos[c] - 1 /\ pos[c] = Len(answer[c]) + 1
      /\ submitted[c] \subseteq 1..(pos[c] - 1)
      /\ wrote[c] => submitted[c] \subseteq 1..(Len(answer[c]) + 1)
      /\ ~wrote[c] => submitted[c] = {}
  <2>1. pc[c] = "streamRate"
    BY Zenon DEF StreamRecord
  <2> QED
    BY <2>1, RecordRead, Zenon
<1>1. /\ metrics \in Counters /\ pos \in [Clients -> Nat] /\ count' \in [Clients -> Nat]
      /\ pos' = pos /\ count'[c] = pos[c]
      /\ \A d \in Clients \ {c} : count'[d] = count[d]
      /\ UNCHANGED <<req, ret, outcome, submitted, closeFlag, main>>
  BY <1>0, Zenon DEF StreamRecord, ProxyTypeOK
<1>2. CASE count[c] + 1 > RequestMaxRecords
  <2>1. /\ metrics' = ObserveProduceResult(metrics, 0, 1) /\ StreamFailure(c, 400) /\ arg' = arg
    <3>1. ~(count[c] + 1 <= RequestMaxRecords)
      BY <1>0, <1>2, TrafficAssumption
    <3> QED
      BY <1>2, <3>1, Zenon DEF StreamRecord
  <2>2. Uncounted
    BY <1>1, <2>1, StreamUncounted, Zenon DEF Uncounted
  <2>3. 400 \in Refusals
    BY SMTT(30), ZenonT(60) DEF Refusals
  <2> QED
    BY <1>0, <1>1, <2>1, <2>2, <2>3, StreamFailureStep, ZenonT(60)
<1>3. CASE count[c] + 1 <= RequestMaxRecords /\ form = "bad"
  <2>0. ~(count[c] + 1 > RequestMaxRecords)
    BY <1>0, <1>3, TrafficAssumption
  <2>1. /\ metrics' = ObserveProduceResult(metrics, 0, 1)
        /\ WriteRecordResponse(c, Entry(pos[c], "invalid")) /\ arg' = arg
    BY <1>3, <2>0, Zenon DEF StreamRecord
  <2>2. Uncounted
    BY <1>1, <2>1, StreamUncounted, Zenon DEF Uncounted
  <2>3. pos[c] \notin submitted[c] /\ submitted[c] \subseteq 1..pos[c]
    BY <1>0
  <2>4. "invalid" \notin Results
    BY Zenon DEF Results
  <2>5. /\ ProxyTypeOK' /\ Others(c) /\ RequestInv(c)' /\ pc'[c] = "read"
        /\ \A i \in Nat : Reported(c, i)' <=> (Reported(c, i) \/ (i = pos[c] /\ "invalid" = "ok"))
    BY <1>0, <1>1, <2>1, <2>2, <2>3, <2>4, RecordResponseStep, Zenon DEF Uncounted
  <2>6. \A i \in Nat : Reported(c, i)' <=> Reported(c, i)
    BY <2>5, Zenon
  <2>7. ObservedWhatWasSent' /\ ProducedIsReported'
    BY <1>0, <2>2, <2>5, <2>6, ObservedKept, ReportedKept, Zenon DEF Uncounted, ProxyInv
  <2> QED
    BY <2>5, <2>7, Zenon DEF Preserved
<1>4. CASE count[c] + 1 <= RequestMaxRecords /\ form # "bad"
  <2>0. ~(count[c] + 1 > RequestMaxRecords) /\ pos[c] <= RequestMaxRecords
    BY <1>0, <1>4, TrafficAssumption
  <2>1. /\ arg' = [arg EXCEPT ![c] = <<pos[c]>>] /\ pc' = [pc EXCEPT ![c] = "produce"]
        /\ UNCHANGED <<status, sent, answer, wrote, metrics>>
    BY <1>4, <2>0, Zenon DEF StreamRecord, Goto
  <2>2. <<pos[c]>> \in Seq(Nat)
    BY <1>0
  <2>3. ProxyTypeOK'
    BY <1>0, <1>1, <2>1, <2>2, Zenon DEF ProxyTypeOK, Stages, Calling
  <2>4. /\ Others(c) /\ pc'[c] = "produce" /\ arg'[c] = <<pos[c]>> /\ status'[c] = status[c]
        /\ sent'[c] = sent[c] /\ answer'[c] = answer[c] /\ wrote'[c] = wrote[c]
        /\ ret'[c] = ret[c] /\ outcome'[c] = outcome[c] /\ submitted'[c] = submitted[c]
        /\ pos'[c] = pos[c] /\ req' = req /\ closeFlag' = closeFlag
    BY <1>0, <1>1, <2>1, Zenon DEF ProxyTypeOK, Others, Same
  <2>5. RequestInv(c)'
    <3>1. /\ pc'[c] \notin BeforeDecoding \cup Streaming \cup Over /\ pc'[c] \in Calling
          /\ pc[c] \notin Over
      BY <1>0, <2>4, Zenon DEF BeforeDecoding, Streaming, Calling, Over
    <3>2. PhaseInv(c)'
      BY <2>4, <3>1, Zenon DEF PhaseInv, BeforeDecoding, Over
    <3>3. (DOMAIN outcome[c] = Items(c))' /\ (ret[c].err = "closed" => closeFlag)'
      BY <1>0, <2>4, Zenon DEF RequestInv, Items
    <3>4. Items(c) = 1..Len(req[c].items) /\ Len(req[c].items) \in Nat /\ Items(c)' = Items(c)
      BY <1>0, <2>4, RequestFacts, Zenon DEF Items
    <3>5. /\ DOMAIN arg'[c] = {1} /\ arg'[c][1] = pos[c] /\ pos[c] \in Items(c) /\ arg'[c] # <<>>
      BY <1>0, <2>4, <3>4, SMTT(30)
    <3>6. Earlier(c)' = 1..(pos[c] - 1)
      BY <1>0, <2>4, Zenon DEF Earlier
    <3>7. CallInv(c)'
      BY <1>0, <2>0, <2>4, <3>4, <3>5, <3>6, Zenon DEF CallInv
    <3>8. StreamInv(c)'
      BY <1>0, <1>1, <2>4, <3>1, ZenonT(60) DEF StreamInv
    <3>9. TruthInv(c)'
      BY <1>0, <2>4, Zenon DEF TruthInv, RequestInv
    <3> QED
      BY <1>0, <2>4, <3>2, <3>3, <3>7, <3>8, <3>9, Zenon DEF RequestInv
  <2>6. ObservedWhatWasSent' /\ ProducedIsReported'
    BY <1>0, <2>1, <2>4, CountersKept, Zenon DEF ProxyInv
  <2> QED
    BY <2>3, <2>4, <2>5, <2>6, Zenon DEF Preserved
<1>5. count[c] + 1 > RequestMaxRecords \/ count[c] + 1 <= RequestMaxRecords
  BY <1>0, TrafficAssumption
<1> QED
  BY <1>2, <1>3, <1>4, <1>5, Zenon

LEMMA ResultCounters ==
    ASSUME NEW m \in Counters, NEW results \in Seq(Results)
    PROVE  ObserveResults(m, results) \in Counters
<1> DEFINE K == {k \in DOMAIN results : results[k] = "ok"}
           B == {k \in DOMAIN results : results[k] = "failed"}
<1>1. Len(results) \in Int /\ 1 \in Int /\ K \in SUBSET (1..Len(results)) /\ B \in SUBSET (1..Len(results))
  OBVIOUS
<1>2. ObserveResults(m, results) = ObserveProduceResult(m, Cardinality(K), Cardinality(B))
  BY Zenon DEF ObserveResults, CountOf
<1> HIDE DEF K, B
<1>3. Cardinality(K) \in Nat /\ Cardinality(B) \in Nat
  BY <1>1, FS_Interval, FS_Subset, FS_CardinalityType, Zenon
<1>4. ObserveProduceResult(m, Cardinality(K), Cardinality(B)) \in Counters
  BY <1>3, MetricsFacts, Zenon
<1> QED
  BY <1>2, <1>4, Zenon

LEMMA StreamReportStep ==
    ASSUME ProxyInv, NEW c \in Clients, StreamReport(c), UNCHANGED main
    PROVE  Preserved(c) /\ Tells(c)
<1> DEFINE v == ret[c].results[1]
<1>0. /\ ProxyTypeOK /\ RequestInv(c) /\ pc[c] = "returned" /\ pc[c] \in Calling
      /\ req[c].route = "stream" /\ StreamInv(c) /\ CallInv(c) /\ ret[c].err = "nil"
  BY Zenon DEF ProxyInv, RequestInv, StreamReport, Calling
<1>1. /\ WriteRecordResponse(c, Entry(pos[c], v)) /\ pos' = pos
      /\ metrics' = ObserveResults(metrics, ret[c].results)
      /\ UNCHANGED <<req, arg, ret, outcome, submitted, closeFlag, count, main>>
  BY Zenon DEF StreamReport, producerVars
<1>2. /\ pos[c] \in Nat /\ pos[c] > 0 /\ count[c] = pos[c] /\ Len(answer[c]) = pos[c] - 1
      /\ answer[c] \in Seq(AnswerEntries) /\ count \in [Clients -> Nat] /\ ret[c] \in Returns
  BY <1>0 DEF ProxyTypeOK, StreamInv
<1>3. arg[c] = <<pos[c]>>
  BY <1>0, Zenon DEF CallInv
<1>4. /\ DOMAIN arg[c] = {1} /\ arg[c][1] = pos[c] /\ Len(arg[c]) = 1
  BY <1>3, SMTT(30)
<1>5. /\ v \in Results /\ outcome[c][pos[c]] = v /\ ret[c].results \in Seq(Results)
  <2>1. ret[c].results \in Seq(Results) /\ Len(ret[c].results) = 1
    BY <1>0, <1>2, <1>4, Zenon DEF Returns, CallInv
  <2> QED
    BY <1>0, <1>4, <2>1 DEF CallInv
<1>6. submitted[c] \subseteq 1..pos[c]
  <2>1. Earlier(c) = 1..(pos[c] - 1) /\ Passed(c) = {pos[c]}
    BY <1>0, <1>4, Zenon DEF Earlier, Passed
  <2> QED
    BY <1>0, <1>2, <2>1 DEF CallInv
<1>7. v # "invalid" /\ v \in {"invalid"} \cup Results
  BY <1>5, Zenon DEF Results
<1>8. metrics' \in Counters
  <2>1. metrics \in Counters
    BY <1>0, Zenon DEF ProxyTypeOK
  <2> QED
    BY <1>1, <1>5, <2>1, ResultCounters, Zenon
<1> HIDE DEF v
<1>9. /\ ProxyTypeOK' /\ Others(c) /\ RequestInv(c)' /\ pc'[c] = "read"
      /\ \A i \in Nat : Reported(c, i)' <=> (Reported(c, i) \/ (i = pos[c] /\ v = "ok"))
  BY <1>0, <1>1, <1>2, <1>5, <1>6, <1>7, <1>8, RecordResponseStep, Zenon
<1>10. \A i \in Nat : Reported(c, i)' <=>
          \/ Reported(c, i)
          \/ \E k \in DOMAIN arg[c] : arg[c][k] = i /\ ret[c].results[k] = "ok"
  BY <1>4, <1>9, Zenon DEF v
<1>11. \A k \in DOMAIN arg[c] : ~Reported(c, arg[c][k])
  <2>1. ASSUME NEW k \in DOMAIN answer[c] PROVE answer[c][k] # Entry(pos[c], "ok")
    <3>1. k # pos[c] /\ answer[c][k].index = k
      BY <1>0, <1>2 DEF StreamInv
    <3> QED
      BY <3>1, SMTT(30) DEF Entry
  <2> QED
    BY <1>4, <2>1, Zenon DEF Reported
<1>12. ObservedWhatWasSent' /\ ProducedIsReported'
  BY <1>0, <1>1, <1>9, <1>10, <1>11, ResultsReported, Zenon
<1> QED
  BY <1>9, <1>10, <1>12, Zenon DEF Preserved, Tells

-----------------------------------------------------------------------------
(* Every step, and the invariant. *)

LEMMA ProduceEndsStep ==
    ASSUME ProxyInv, NEW c \in Clients, ProduceOverloaded(c) \/ ProduceExpired(c),
           UNCHANGED streamVars, UNCHANGED main
    PROVE  Preserved(c)
<1>1. CASE ProduceOverloaded(c)
  <2>1. /\ pc[c] = "admit" /\ pc[c] \in Calling /\ Return(c, "overloaded", <<>>)
        /\ UNCHANGED <<handlerVars, arg, outcome, submitted, closeFlag, streamVars, main>>
    BY <1>1, Zenon DEF ProduceOverloaded, Calling
  <2> QED
    BY <2>1, ErrorStep, Zenon
<1>2. CASE ProduceExpired(c)
  <2>1. /\ pc[c] \in Calling /\ Return(c, "ctxErr", <<>>)
        /\ UNCHANGED <<handlerVars, arg, outcome, submitted, closeFlag, streamVars, main>>
    BY <1>2, Zenon DEF ProduceExpired, Calling
  <2> QED
    BY <2>1, ErrorStep, Zenon
<1> QED
  BY <1>1, <1>2, Zenon

\* A step of a request keeps what is known of it.
LEMMA RequestStep ==
    ASSUME ProxyInv, NEW c \in Clients, OutsideStep(c) \/ ServerStep(c)
    PROVE  Preserved(c)
<1>1. CASE OutsideStep(c)
  <2>1. CASE Arrive(c) /\ UNCHANGED <<streamVars, main>>
    BY <2>1, UnauthorizedStep, EnterStep, Zenon DEF Arrive
  <2>2. CASE ReadBody(c) /\ UNCHANGED <<streamVars, main>>
    BY <2>2, ReadBodyStep, Zenon
  <2>3. CASE StreamRead(c) /\ UNCHANGED main
    BY <2>3, StreamDecodeStep, StreamEOFStep, Zenon DEF StreamRead
  <2>4. CASE ProduceResults(c) /\ UNCHANGED <<streamVars, main>>
    BY <2>4, ProduceResultsStep, Zenon
  <2>5. CASE AcknowledgedLate(c) /\ UNCHANGED <<streamVars, main>>
    BY <2>5, AcknowledgedLateStep, Zenon
  <2> QED
    BY <1>1, <2>1, <2>2, <2>3, <2>4, <2>5, Zenon DEF OutsideStep
<1>2. CASE ServerStep(c)
  <2>1. CASE CommonStep(c) /\ UNCHANGED streamVars /\ UNCHANGED main
    <3>1. CASE Gate(c) \/ RequestRate(c) \/ ByteRate(c) \/ Finish(c)
      BY <2>1, <3>1, GateStep, RequestRateStep, ByteRateStep, FinishStep, Zenon
    <3>2. CASE CheckClosed(c) \/ ProduceOverloaded(c) \/ ProduceAdmitted(c) \/ ProduceExpired(c)
      BY <2>1, <3>2, CheckClosedStep, ProduceEndsStep, ProduceAdmittedStep, Zenon
    <3> QED
      BY <2>1, <3>1, <3>2, Zenon DEF CommonStep
  <2>2. CASE V2Step(c) /\ UNCHANGED streamVars /\ UNCHANGED main
    BY <2>2, V2DecodeStep, V2ProduceErrorStep, V2RespondStep, Zenon DEF V2Step
  <2>3. CASE BatchStep(c) /\ UNCHANGED streamVars /\ UNCHANGED main
    BY <2>3, BatchDecodeStep, BatchProduceErrorStep, BatchRespondStep, Zenon DEF BatchStep
  <2>4. CASE StreamStep(c) /\ UNCHANGED main
    BY <2>4, StreamRateRefusedStep, StreamRecordStep, StreamProduceErrorStep, StreamReportStep, Zenon
       DEF StreamStep
  <2> QED
    BY <1>2, <2>1, <2>2, <2>3, <2>4, Zenon DEF ServerStep
<1> QED
  BY <1>1, <1>2, Zenon

\* Only a request that is being served takes a step, or one that arrives while
\* the listener is open; a late acknowledgement moves nobody.
LEMMA RequestMoves ==
    ASSUME NEW c \in Clients, OutsideStep(c) \/ ServerStep(c)
    PROVE  /\ main' = main /\ closeFlag' = closeFlag
           /\ main = "serving" \/ Active(c) \/ (pc' = pc /\ ret' = ret)
<1> USE DEF Active, producerVars
<1>1. CASE OutsideStep(c)
  <2>1. main' = main
    BY <1>1, Zenon DEF OutsideStep
  <2>2. CASE main = "serving" /\ Arrive(c)
    BY <2>1, <2>2, Zenon DEF Arrive, Unauthorized, Enter
  <2>3. CASE ReadBody(c) \/ ProduceResults(c)
    BY <2>1, <2>3, Zenon DEF ReadBody, ProduceResults
  <2>4. CASE StreamRead(c)
    BY <2>1, <2>4, Zenon DEF StreamRead, StreamDecode, StreamEOF
  <2>5. CASE AcknowledgedLate(c)
    BY <2>1, <2>5, Zenon DEF AcknowledgedLate
  <2> QED
    BY <1>1, <2>2, <2>3, <2>4, <2>5, Zenon DEF OutsideStep
<1>2. CASE ServerStep(c)
  <2>1. main' = main
    BY <1>2, Zenon DEF ServerStep
  <2>2. CASE CommonStep(c)
    BY <2>1, <2>2, Zenon DEF CommonStep, Gate, RequestRate, ByteRate, Finish, CheckClosed,
                      ProduceOverloaded, ProduceAdmitted, ProduceExpired
  <2>3. CASE V2Step(c)
    BY <2>1, <2>3, Zenon DEF V2Step, V2Decode, V2ProduceError, V2Respond
  <2>4. CASE BatchStep(c)
    BY <2>1, <2>4, Zenon DEF BatchStep, BatchDecode, BatchProduceError, BatchRespond
  <2>5. CASE StreamStep(c)
    BY <2>1, <2>5, Zenon DEF StreamStep, StreamRateRefused, StreamRecord, StreamProduceError, StreamReport
  <2> QED
    BY <1>2, <2>2, <2>3, <2>4, <2>5, Zenon DEF ServerStep
<1> QED
  BY <1>1, <1>2, Zenon

LEMMA RequestKeeps ==
    ASSUME ProxyInv, NEW c \in Clients, OutsideStep(c) \/ ServerStep(c)
    PROVE  ProxyInv'
<1>1. Preserved(c)
  BY RequestStep, Zenon
<1>2. /\ main' = main /\ closeFlag' = closeFlag
      /\ main = "serving" \/ Active(c) \/ (pc' = pc /\ ret' = ret)
  BY RequestMoves, Zenon
<1>3. ASSUME NEW d \in Clients PROVE RequestInv(d)'
  <2>1. CASE d = c
    BY <1>1, <2>1, Zenon DEF Preserved
  <2>2. CASE d # c
    BY <1>1, <1>2, <2>2, SameKeeps, Zenon DEF Preserved, Others, ProxyInv
  <2> QED
    BY <2>1, <2>2, Zenon
<1>4. MainInv'
  <2>1. MainInv
    BY Zenon DEF ProxyInv
  <2>2. CASE main = "serving" \/ Active(c)
    <3>1. main \notin {"closing", "closedOk", "exitOk"}
      BY <2>1, <2>2, Zenon DEF MainInv
    <3> QED
      BY <1>2, <2>1, <3>1, Zenon DEF MainInv
  <2>3. CASE pc' = pc /\ ret' = ret
    BY <1>2, <2>1, <2>3, Zenon DEF MainInv, Active
  <2> QED
    BY <1>2, <2>2, <2>3, Zenon
<1> QED
  BY <1>1, <1>3, <1>4, Zenon DEF Preserved, ProxyInv

\* The steps of run() change nothing that a request relies on.
LEMMA MainKeeps ==
    ASSUME ProxyInv, main' \in MainStages, closeFlag => closeFlag', closeFlag' \in BOOLEAN, MainInv',
           UNCHANGED <<req, pc, status, sent, answer, count, arg, ret, outcome, submitted,
                       metrics, pos, wrote>>
    PROVE  ProxyInv'
<1>1. ProxyTypeOK'
  BY Zenon DEF ProxyInv, ProxyTypeOK
<1>2. ASSUME NEW d \in Clients PROVE RequestInv(d)'
  BY SameKeeps, Zenon DEF Same, ProxyInv
<1>3. ObservedWhatWasSent' /\ ProducedIsReported'
  BY SMTT(30), ZenonT(60) DEF ProxyInv, ObservedWhatWasSent, ProducedIsReported, Active
<1> QED
  BY <1>1, <1>2, <1>3, Zenon DEF ProxyInv

LEMMA MainStepKeeps ==
    ASSUME ProxyInv, Signal \/ ListenerError \/ MainStep \/ UNCHANGED proxyVars
    PROVE  ProxyInv'
<1> USE DEF apiVars, streamVars
<1>0. /\ main \in MainStages /\ MainInv /\ closeFlag \in BOOLEAN
      /\ \A c \in Clients : ret[c].err = "closed" => closeFlag
  BY Zenon DEF ProxyInv, ProxyTypeOK, RequestInv
<1>1. CASE Signal \/ ListenerError \/ DrainTimeout \/ Exit \/ UNCHANGED proxyVars
  <2>1. /\ main' \in MainStages /\ closeFlag' = closeFlag
        /\ UNCHANGED <<req, pc, status, sent, answer, count, arg, ret, outcome, submitted,
                       metrics, pos, wrote>>
    BY <1>0, <1>1, Zenon DEF Signal, ListenerError, DrainTimeout, Exit, proxyVars, MainStages
  <2>2. MainInv'
    BY <1>0, <1>1, <2>1, Zenon
       DEF Signal, ListenerError, DrainTimeout, Exit, proxyVars, MainInv, Active
  <2> QED
    BY <1>0, <2>1, <2>2, MainKeeps, Zenon
<1>2. CASE Drained
  <2>1. /\ main' \in MainStages /\ closeFlag' = closeFlag
        /\ UNCHANGED <<req, pc, status, sent, answer, count, arg, ret, outcome, submitted,
                       metrics, pos, wrote>>
    BY <1>2, Zenon DEF Drained, MainStages
  <2>2. MainInv'
    BY <1>0, <1>2, <2>1 DEF Drained, MainInv, Active
  <2> QED
    BY <1>0, <2>1, <2>2, MainKeeps, Zenon
<1>3. CASE CloseProducer
  <2>1. /\ main' \in MainStages /\ closeFlag' = TRUE
        /\ UNCHANGED <<req, pc, status, sent, answer, count, arg, ret, outcome, submitted,
                       metrics, pos, wrote>>
    BY <1>3, Zenon DEF CloseProducer, MainStages
  <2>2. MainInv'
    BY <1>0, <1>3, <2>1, Zenon DEF CloseProducer, MainInv, Active
  <2> QED
    BY <1>0, <2>1, <2>2, MainKeeps, Zenon
<1> QED
  BY <1>1, <1>2, <1>3, Zenon DEF MainStep

LEMMA ProxyInitInv == ProxyInit => ProxyInv
<1> SUFFICES ASSUME ProxyInit PROVE ProxyInv
  BY Zenon
<1> USE DEF ProxyInit, ApiInit, StreamInit
<1>1. ProxyTypeOK
  <2>1. req \in [Clients -> Requests]
    BY TrafficAssumption, Zenon
  <2>2. NoReturn \in Returns /\ NoMetrics \in Counters
    BY DEF NoReturn, Returns, NoMetrics, Counters
  <2>3. ASSUME NEW c \in Clients PROVE [i \in DOMAIN req[c].items |-> "none"] \in Seq(Outcomes)
    <3>1. Len(req[c].items) \in Nat /\ DOMAIN req[c].items = 1..Len(req[c].items)
      BY <2>1 DEF Requests
    <3> QED
      BY <3>1 DEF Outcomes
  <2>4. outcome \in [Clients -> Seq(Outcomes)]
    BY <2>3, Zenon
  <2>5. /\ pc \in [Clients -> Stages] /\ main \in MainStages /\ closeFlag \in BOOLEAN
    BY Zenon DEF Stages, BeforeDecoding, MainStages
  <2>6. /\ status \in [Clients -> Nat] /\ sent \in [Clients -> Nat] /\ count \in [Clients -> Nat]
        /\ pos \in [Clients -> Nat] /\ wrote \in [Clients -> BOOLEAN]
    OBVIOUS
  <2>7. /\ answer \in [Clients -> Seq(AnswerEntries)] /\ arg \in [Clients -> Seq(Nat)]
        /\ submitted \in [Clients -> SUBSET Nat] /\ ret \in [Clients -> Returns]
        /\ metrics \in Counters
    BY <2>2
  <2> QED
    BY <2>1, <2>4, <2>5, <2>6, <2>7, Zenon DEF ProxyTypeOK
<1>2. ASSUME NEW c \in Clients PROVE RequestInv(c)
  <2>1. pc[c] = "idle" /\ Untouched(c) /\ ret[c].err = "none" /\ DOMAIN outcome[c] = Items(c)
    BY Zenon DEF Untouched, NoReturn, Items
  <2>2. pc[c] \notin Streaming \cup Calling \cup Over
    BY <2>1, Zenon DEF Streaming, Calling, Over
  <2>3. PhaseInv(c)
    BY <2>1, <2>2, Zenon DEF PhaseInv, Over
  <2>4. WholeInv(c) /\ TruthInv(c)
    BY <2>1, <2>2, SMTT(30) DEF WholeInv, TruthInv, Untouched
  <2>5. StreamInv(c)
    <3>1. Len(req[c].items) \in Nat
      BY <1>1, RequestFacts, Zenon
    <3> QED
      BY <2>1, <2>2, <3>1 DEF StreamInv, Untouched
  <2> QED
    BY <2>1, <2>2, <2>3, <2>4, <2>5, Zenon DEF RequestInv
<1>3. MainInv
  BY Zenon DEF MainInv
<1>4. ObservedWhatWasSent
  <2>1. \A class \in 2..5 :
          {c \in Clients : pc[c] = "done" /\ sent[c] # 401 /\ StatusClass(sent[c]) = class} = {}
    BY Zenon
  <2>2. {c \in Clients : Active(c)} = {}
    BY Zenon DEF Active
  <2>3. metrics.outstanding = 0 /\ \A class \in 2..5 : metrics.requests[class] = 0
    BY Zenon DEF NoMetrics
  <2> QED
    BY <2>1, <2>2, <2>3, FS_EmptySet, Zenon DEF ObservedWhatWasSent
<1>5. ProducedIsReported
  <2>1. {r \in Clients \X (1..(RequestMaxRecords + 1)) :
            \E k \in DOMAIN answer[r[1]] : answer[r[1]][k] = Entry(r[2], "ok")} = {}
    OBVIOUS
  <2>2. metrics.produced = 0
    BY Zenon DEF NoMetrics
  <2> QED
    BY <2>1, <2>2, FS_EmptySet, Zenon DEF ProducedIsReported
<1> QED
  BY <1>1, <1>2, <1>3, <1>4, <1>5, Zenon DEF ProxyInv

(***************************************************************************)
(* The invariant holds of the server with any number of clients, any       *)
(* traffic and any limit on the records of a request.                      *)
(***************************************************************************)
THEOREM ProxyCorrect == ProxySafety => []ProxyInv
<1>1. ProxyInv /\ [ProxyNext]_proxyVars => ProxyInv'
  BY RequestKeeps, MainStepKeeps, Zenon DEF ProxyNext
<1> QED
  BY <1>1, ProxyInitInv, PTL DEF ProxySafety

(***************************************************************************)
(* The request counter and the gauge agree with what clients were sent,    *)
(* whichever return of a handler was taken.                                *)
(***************************************************************************)
THEOREM CountersTellWhatWasSent == ProxySafety => []ObservedWhatWasSent
<1>1. ProxyInv => ObservedWhatWasSent
  BY Zenon DEF ProxyInv
<1> QED
  BY <1>1, ProxyCorrect, PTL

(***************************************************************************)
(* A clean exit has answered every request and closed none of them off.    *)
(***************************************************************************)
THEOREM CleanExit == ProxySafety => []CleanExitAnswersAll
<1>1. ProxyInv => CleanExitAnswersAll
  BY Zenon DEF ProxyInv, MainInv, CleanExitAnswersAll
<1> QED
  BY <1>1, ProxyCorrect, PTL

(***************************************************************************)
(* What a response says of a record is what Kafka said of it.              *)
(***************************************************************************)
THEOREM ResponsesTruthful == ProxySafety => []AnswersTruthful
<1>1. ProxyInv => AnswersTruthful
  BY Zenon DEF ProxyInv, RequestInv, TruthInv, AnswersTruthful
<1> QED
  BY <1>1, ProxyCorrect, PTL

(***************************************************************************)
(* On every route, an error other than the one for a call that gave up     *)
(* means that nothing went to Kafka.                                       *)
(***************************************************************************)
THEOREM ErrorsUnambiguous == ProxySafety => []OnlyTimeoutIsAmbiguous
<1>1. ASSUME ProxyInv, NEW c \in Clients, sent[c] >= 400,
             sent[c] # TimeoutStatus(req[c].route)
      PROVE  submitted[c] = {}
  <2>1. /\ RequestInv(c) /\ pc[c] \in Stages /\ req[c].route \in Routes
    <3>1. ProxyTypeOK /\ RequestInv(c)
      BY <1>1, Zenon DEF ProxyInv
    <3>2. req[c] \in Requests /\ pc[c] \in Stages
      BY <3>1, Zenon DEF ProxyTypeOK
    <3> QED
      BY <3>1, <3>2, Zenon DEF Requests
  <2>2. pc[c] \notin BeforeDecoding
    <3>1. pc[c] \in BeforeDecoding => sent[c] = 0
      BY <2>1, Zenon DEF RequestInv, PhaseInv, Untouched
    <3> QED
      BY <1>1, <3>1
  <2>3. CASE req[c].route # "stream"
    <3>0. PhaseInv(c) /\ WholeInv(c)
      BY <2>1, <2>3, Zenon DEF RequestInv
    <3>1. pc[c] \notin Streaming \cup Calling
      <4>1. pc[c] \notin Streaming
        BY <2>3, <3>0, Zenon DEF PhaseInv
      <4>2. pc[c] \in Calling => sent[c] = 0
        BY <3>0, Zenon DEF WholeInv
      <4>3. pc[c] \notin Calling
        BY <1>1, <4>2
      <4> QED
        BY <4>1, <4>3, Zenon
    <3>2. pc[c] \in Over
      BY <2>1, <2>2, <3>1, Zenon DEF Stages
    <3> QED
      BY <1>1, <2>3, <3>0, <3>2, Zenon DEF WholeInv
  <2>4. CASE req[c].route = "stream"
    <3>1. StreamInv(c)
      BY <2>1, <2>4, Zenon DEF RequestInv
    <3>2. ~wrote[c]
      BY <1>1, <3>1, SMTT(30) DEF StreamInv
    <3>3. pc[c] \in Over
      BY <1>1, <3>1, <3>2 DEF StreamInv
    <3>4. sent[c] # 504
      BY <1>1, <2>4 DEF TimeoutStatus
    <3> QED
      BY <3>1, <3>2, <3>3, <3>4, Zenon DEF StreamInv
  <2> QED
    BY <2>3, <2>4, Zenon
<1>2. ProxyInv => OnlyTimeoutIsAmbiguous
  BY <1>1, Zenon DEF OnlyTimeoutIsAmbiguous
<1> QED
  BY <1>2, ProxyCorrect, PTL

(***************************************************************************)
(* Of the entries of a batch that share an id, at most one goes to Kafka.  *)
(***************************************************************************)
THEOREM BatchIdsOnce == ProxySafety => []BatchIdsProducedOnce
<1>1. ASSUME ProxyInv, NEW c \in Clients, req[c].route = "batch",
             NEW i \in submitted[c], NEW j \in submitted[c], i < j
      PROVE  req[c].items[i].id # req[c].items[j].id
  <2>1. ProxyTypeOK /\ WholeInv(c)
    BY <1>1, Zenon DEF ProxyInv, RequestInv
  <2>2. i \in Items(c) /\ j \in Items(c) /\ ~Invalid(req[c].items, j)
    BY <1>1, <2>1, Zenon DEF WholeInv
  <2>3. i \in 1..(j - 1)
    BY <1>1, <2>1, <2>2, RequestFacts
  <2> QED
    BY <2>2, <2>3, Zenon DEF Invalid, BadId
<1>2. ASSUME ProxyInv, NEW c \in Clients, NEW i \in submitted[c], NEW j \in submitted[c], i # j
      PROVE  i < j \/ j < i
  <2>1. submitted[c] \in SUBSET Nat
    BY <1>2, Zenon DEF ProxyInv, ProxyTypeOK
  <2> QED
    BY <1>2, <2>1
<1>3. ProxyInv => BatchIdsProducedOnce
  BY <1>1, <1>2, Zenon DEF BatchIdsProducedOnce
<1> QED
  BY <1>3, ProxyCorrect, PTL

(***************************************************************************)
(* A successful response covers the records: v2 all of them in order, a    *)
(* batch each entry exactly once, a stream one report after the other.     *)
(***************************************************************************)
THEOREM ResponsesComplete == ProxySafety => []AnswersComplete
<1>1. ASSUME ProxyInv, NEW c \in Clients, pc[c] \in {"finish", "done"}, sent[c] \in {200, 207}
      PROVE  LET items == DOMAIN req[c].items
                 indexes == [k \in DOMAIN answer[c] |-> answer[c][k].index]
                 covered == {indexes[k] : k \in DOMAIN indexes}
             IN  CASE req[c].route = "v2" -> indexes = [i \in items |-> i]
                   [] req[c].route = "batch" -> covered = items /\ Len(indexes) = Len(req[c].items)
                   [] OTHER -> /\ indexes = [k \in DOMAIN indexes |-> k]
                               /\ submitted[c] \subseteq covered
  <2> DEFINE items == DOMAIN req[c].items
             indexes == [k \in DOMAIN answer[c] |-> answer[c][k].index]
             covered == {indexes[k] : k \in DOMAIN indexes}
  <2>0. /\ ProxyTypeOK /\ RequestInv(c) /\ pc[c] \in Over /\ sent[c] < 400
        /\ req[c].route \in Routes /\ answer[c] \in Seq(AnswerEntries)
    <3>1. ProxyTypeOK /\ RequestInv(c)
      BY <1>1, Zenon DEF ProxyInv
    <3>2. pc[c] \in Over /\ sent[c] < 400
      BY <1>1 DEF Over
    <3>3. req[c] \in Requests /\ answer[c] \in Seq(AnswerEntries)
      BY <3>1, Zenon DEF ProxyTypeOK
    <3> QED
      BY <3>1, <3>2, <3>3, Zenon DEF Requests
  <2>1. /\ Len(req[c].items) \in Nat /\ items = 1..Len(req[c].items) /\ Items(c) = items
    BY <2>0, RequestFacts, Zenon DEF Items
  <2>2. /\ DOMAIN answer[c] = 1..Len(answer[c]) /\ Len(answer[c]) \in Nat
        /\ DOMAIN indexes = DOMAIN answer[c]
        /\ \A k \in DOMAIN answer[c] : indexes[k] = answer[c][k].index
    BY <2>0
  <2>3. indexes \in Seq(Nat) /\ Len(indexes) = Len(answer[c])
    <3>1. ASSUME NEW k \in DOMAIN answer[c] PROVE answer[c][k].index \in Nat
      <4>1. answer[c][k] \in AnswerEntries
        BY <2>0
      <4> QED
        BY <4>1, Zenon DEF AnswerEntries
    <3> QED
      BY <2>2, <3>1
  <2>4. CASE req[c].route = "v2"
    <3>1. /\ Len(answer[c]) = Len(req[c].items)
          /\ \A k \in DOMAIN answer[c] : answer[c][k].index = k
      BY <2>0, <2>4, Zenon DEF RequestInv, WholeInv
    <3>2. indexes = [i \in items |-> i]
      BY <2>1, <2>2, <3>1, Zenon
    <3> QED
      BY <2>4, <3>2, Zenon
  <2>5. CASE req[c].route = "batch"
    <3>1. /\ Len(answer[c]) = Len(req[c].items)
          /\ \A k \in DOMAIN answer[c] : answer[c][k].index \in items
          /\ \A i \in items : \E k \in DOMAIN answer[c] : answer[c][k].index = i
      <4>1. WholeInv(c)
        BY <2>0, <2>5, Zenon DEF RequestInv
      <4> HIDE DEF items
      <4> QED
        BY <2>0, <2>1, <2>5, <4>1, ZenonT(30) DEF WholeInv
    <3>2. covered = items
      <4> HIDE DEF indexes, items
      <4>1. /\ \A k \in DOMAIN indexes : indexes[k] \in items
            /\ \A i \in items : \E k \in DOMAIN indexes : indexes[k] = i
        BY <2>2, <3>1, Zenon
      <4> QED
        BY <4>1, Zenon
    <3>3. Len(indexes) = Len(req[c].items)
      BY <2>3, <3>1, Zenon
    <3> QED
      BY <2>5, <3>2, <3>3, Zenon
  <2>6. CASE req[c].route = "stream"
    <3>1. /\ StreamInv(c) /\ wrote[c]
      <4>1. StreamInv(c)
        BY <2>0, <2>6, Zenon DEF RequestInv
      <4>2. ~wrote[c] /\ pc[c] \in Over => sent[c] >= 400
        BY <4>1, Zenon DEF StreamInv
      <4>3. sent[c] \in Nat
        BY <2>0, Zenon DEF ProxyTypeOK
      <4>4. ~(sent[c] >= 400)
        BY <2>0, <4>3
      <4> QED
        BY <2>0, <4>1, <4>2, <4>4, Zenon
    <3>2. /\ \A k \in DOMAIN answer[c] : answer[c][k].index = k
          /\ submitted[c] \subseteq 1..Len(answer[c])
      BY <2>0, <3>1, Zenon DEF StreamInv
    <3>3. indexes = [k \in DOMAIN indexes |-> k]
      BY <2>2, <3>2, Zenon
    <3>4. \A i \in 1..Len(answer[c]) : i \in covered
      BY <2>2, <3>2, Zenon
    <3>5. submitted[c] \subseteq covered
      BY <3>2, <3>4, Zenon
    <3> QED
      BY <2>6, <3>3, <3>5, Zenon
  <2> QED
    BY <2>0, <2>4, <2>5, <2>6, Zenon DEF Routes
<1>2. ProxyInv => AnswersComplete
  BY <1>1, ZenonT(30) DEF AnswersComplete
<1> QED
  BY <1>2, ProxyCorrect, PTL

-----------------------------------------------------------------------------
(* The counter of acknowledged records. *)

\* A handler that reports the results at hand.
LEMMA AckTold ==
    ASSUME ProxyInv, ProxyTypeOK', NEW c \in Clients, AckInv(c), req' = req,
           pc[c] = "returned", ret[c].err = "nil", Tells(c),
           outcome'[c] = outcome[c], ret'[c] = ret[c]
    PROVE  AckInv(c)'
<1>1. Founded(c) /\ CallInv(c) /\ arg[c] \in Seq(Nat)
  BY FoundedFromAck, Zenon DEF ProxyInv, RequestInv, Calling, ProxyTypeOK
<1>2. \A i \in Items(c) : i \in Nat
  BY RequestFacts DEF ProxyInv
<1>3. GivenUp(c) = {} /\ GivenUp(c)' = {}
  BY DEF GivenUp
<1>4. ASSUME NEW i \in Nat, Reported(c, i)' PROVE i \in Items(c) /\ i \notin GivenUp(c)'
  <2>1. \A k \in DOMAIN arg[c] : arg[c][k] \in Items(c)
    BY <1>1, Zenon DEF CallInv
  <2>2. i \in Items(c)
    BY <1>1, <1>4, <2>1, Zenon DEF Founded, Tells
  <2> QED
    BY <1>3, <2>2, Zenon
<1>5. ASSUME NEW i \in Items(c), outcome[c][i] = "ok" PROVE Reported(c, i)'
  <2>1. CASE Reported(c, i)
    BY <1>2, <2>1, Zenon DEF Tells
  <2>2. CASE AtHand(c, i)
    <3>1. PICK k \in DOMAIN arg[c] : arg[c][k] = i
      BY <2>2, Zenon DEF AtHand, Passed
    <3>2. ret[c].results[k] = "ok"
      BY <1>1, <1>5, <3>1, Zenon DEF CallInv
    <3> QED
      BY <1>2, <3>1, <3>2, Zenon DEF Tells
  <2> QED
    BY <1>3, <1>5, <2>1, <2>2, Zenon DEF AckInv
<1>6. ret'[c].err # "ctxErr"
  BY Zenon
<1> QED
  BY <1>4, <1>5, <1>6, AckNext, Zenon

\* One more entry.
LEMMA AppendReported ==
    ASSUME NEW c \in Clients, answer[c] \in Seq(AnswerEntries), NEW e \in AnswerEntries,
           answer'[c] = Append(answer[c], e)
    PROVE  \A i \in Nat : Reported(c, i)' <=> (Reported(c, i) \/ e = Entry(i, "ok"))
<1> DEFINE ans == Append(answer[c], e)
<1>1. \A k \in DOMAIN ans : (k \in DOMAIN answer[c] /\ ans[k] = answer[c][k]) \/ ans[k] = e
  BY AppendFacts, ZenonT(60)
<1>2. \A k \in DOMAIN answer[c] : k \in DOMAIN ans /\ ans[k] = answer[c][k]
  BY AppendFacts, ZenonT(60)
<1>3. Len(answer[c]) + 1 \in DOMAIN ans /\ ans[Len(answer[c]) + 1] = e
  BY AppendFacts, ZenonT(60)
<1> HIDE DEF ans
<1>4. answer'[c] = ans
  BY Zenon DEF ans
<1> QED
  BY <1>1, <1>2, <1>3, <1>4, Zenon DEF Reported

LEMMA FailureQuiet ==
    ASSUME ProxyTypeOK, NEW c \in Clients, NEW st, StreamFailure(c, st), pos'[c] \in Nat
    PROVE  Quiet(c) /\ pc'[c] = "finish"
<1>1. /\ answer \in [Clients -> Seq(AnswerEntries)] /\ pc \in [Clients -> Stages]
  BY Zenon DEF ProxyTypeOK
<1>2. pc'[c] = "finish"
  BY <1>1, Zenon DEF StreamFailure, WriteAPIError, Goto
<1>3. CASE wrote[c]
  <2> DEFINE e == Entry(pos'[c], "error")
  <2>1. e \in AnswerEntries /\ \A i \in Nat : e # Entry(i, "ok")
    BY DEF Entry, AnswerEntries, Verdicts
  <2>2. answer'[c] = Append(answer[c], e)
    BY <1>1, <1>3, Zenon DEF StreamFailure, Append1
  <2> HIDE DEF e
  <2>3. \A i \in Nat : Reported(c, i)' <=> (Reported(c, i) \/ e = Entry(i, "ok"))
    BY <1>1, <2>1, <2>2, AppendReported, Zenon
  <2> QED
    BY <1>2, <2>1, <2>3, Zenon DEF Quiet
<1>4. CASE ~wrote[c]
  BY <1>2, <1>4, Zenon DEF StreamFailure, Quiet, Reported
<1> QED
  BY <1>3, <1>4, Zenon

\* The steps of the handlers.
LEMMA AckHandler ==
    ASSUME ProxyInv, ProxyTypeOK', NEW c \in Clients, AckInv(c), UNCHANGED streamVars, UNCHANGED main,
           V2Step(c) \/ BatchStep(c)
    PROVE  AckInv(c)'
<1>0. pc \in [Clients -> Stages] /\ answer \in [Clients -> Seq(AnswerEntries)] /\ ProxyTypeOK
  BY Zenon DEF ProxyInv, ProxyTypeOK
<1>1. CASE V2Decode(c)
  <2>1. Quiet(c) /\ pc[c] \in BeforeDecoding /\ UNCHANGED <<req, ret, outcome>>
    BY <1>1, Zenon DEF V2Decode, Quiet, Reported, BeforeDecoding
  <2> QED
    BY <2>1, AckBefore, Zenon
<1>2. CASE BatchDecode(c)
  <2>1. pc[c] \in BeforeDecoding /\ UNCHANGED <<req, ret, outcome>>
    BY <1>2, Zenon DEF BatchDecode, BeforeDecoding
  <2>2. \/ answer' = answer
        \/ RespondMultiStatus(c, InvalidEntries(req[c].items))
    BY <1>2, Zenon DEF BatchDecode
  <2>3. CASE RespondMultiStatus(c, InvalidEntries(req[c].items))
    <3> DEFINE ans == InvalidEntries(req[c].items)
    <3>1. answer'[c] = ans /\ answer[c] = <<>>
      BY <1>0, <2>1, <2>3, Zenon
         DEF RespondMultiStatus, ProxyInv, RequestInv, PhaseInv, Untouched
    <3>2. ASSUME NEW k \in DOMAIN ans, NEW i PROVE ans[k] # Entry(i, "ok")
      <4>1. ans[k] = Entry(Refused(req[c].items)[k], "invalid")
        BY Zenon DEF InvalidEntries
      <4> QED
        BY <4>1 DEF Entry
    <3>3. DOMAIN answer[c] = {}
      BY <3>1
    <3> HIDE DEF ans
    <3>4. Quiet(c)
      BY <3>1, <3>2, <3>3, Zenon DEF Quiet, Reported
    <3> QED
      BY <2>1, <3>4, AckBefore, Zenon
  <2>4. CASE answer' = answer
    <3>1. Quiet(c)
      BY <2>4, Zenon DEF Quiet, Reported
    <3> QED
      BY <2>1, <3>1, AckBefore, Zenon
  <2> QED
    BY <2>2, <2>3, <2>4, Zenon
<1>3. CASE V2ProduceError(c) \/ BatchProduceError(c)
  <2>1. /\ UNCHANGED <<req, answer, arg, ret, outcome>> /\ ret[c].err # "nil"
    BY <1>3, Zenon DEF V2ProduceError, BatchProduceError, producerVars
  <2>2. pc'[c] \in Over
    BY <1>0, <1>3, Zenon DEF V2ProduceError, BatchProduceError, WriteAPIError, Goto, Over
  <2> QED
    BY <2>1, <2>2, AckSilent, Zenon
<1>4. CASE V2Respond(c) \/ BatchRespond(c)
  <2>1. /\ pc[c] = "returned" /\ ret[c].err = "nil" /\ UNCHANGED <<req, ret, outcome>>
    BY <1>4, Zenon DEF V2Respond, BatchRespond, producerVars
  <2>2. Tells(c)
    BY <1>4, V2RespondStep, BatchRespondStep, Zenon
  <2> QED
    BY <2>1, <2>2, AckTold, Zenon
<1> QED
  BY <1>1, <1>2, <1>3, <1>4, Zenon DEF V2Step, BatchStep

LEMMA AckStream ==
    ASSUME ProxyInv, ProxyTypeOK', NEW c \in Clients, AckInv(c), UNCHANGED main,
           StreamRead(c) \/ StreamStep(c)
    PROVE  AckInv(c)'
<1>0. /\ ProxyTypeOK /\ pc \in [Clients -> Stages] /\ answer \in [Clients -> Seq(AnswerEntries)]
      /\ pos[c] \in Nat /\ pos'[c] \in Nat
  BY Zenon DEF ProxyInv, ProxyTypeOK
<1>1. CASE StreamDecode(c)
  <2>1. pc[c] \in Streaming /\ UNCHANGED <<req, ret, outcome>>
    BY <1>1, Zenon DEF StreamDecode, Streaming, producerVars
  <2>2. answer' = answer \/ \E st : StreamFailure(c, st)
    BY <1>1, Zenon DEF StreamDecode
  <2>3. Quiet(c)
    BY <1>0, <2>2, FailureQuiet, Zenon DEF Quiet, Reported
  <2> QED
    BY <2>1, <2>3, AckBefore, Zenon
<1>2. CASE StreamEOF(c)
  <2>1. pc[c] \in Streaming /\ UNCHANGED <<req, ret, outcome, answer>>
    BY <1>2, Zenon DEF StreamEOF, Streaming, producerVars
  <2>2. Quiet(c)
    BY <2>1, Zenon DEF Quiet, Reported
  <2> QED
    BY <2>1, <2>2, AckBefore, Zenon
<1>3. CASE StreamRateRefused(c)
  <2>1. pc[c] \in Streaming /\ UNCHANGED <<req, ret, outcome>> /\ StreamFailure(c, 429)
    BY <1>3, Zenon DEF StreamRateRefused, Streaming, producerVars
  <2>2. Quiet(c)
    BY <1>0, <2>1, FailureQuiet, Zenon
  <2> QED
    BY <2>1, <2>2, AckBefore, Zenon
<1>4. CASE StreamRecord(c)
  <2>1. pc[c] \in Streaming /\ UNCHANGED <<req, ret, outcome>>
    BY <1>4, Zenon DEF StreamRecord, Streaming
  <2>2. \/ answer' = answer \/ StreamFailure(c, 400)
        \/ WriteRecordResponse(c, Entry(pos[c], "invalid"))
    BY <1>4, Zenon DEF StreamRecord
  <2>3. CASE WriteRecordResponse(c, Entry(pos[c], "invalid"))
    <3> DEFINE e == Entry(pos[c], "invalid")
    <3>1. e \in AnswerEntries /\ \A i \in Nat : e # Entry(i, "ok")
      BY <1>0 DEF Entry, AnswerEntries, Verdicts
    <3>2. answer'[c] = Append(answer[c], e)
      BY <1>0, <2>3, Zenon DEF WriteRecordResponse, Append1
    <3> HIDE DEF e
    <3>3. \A i \in Nat : Reported(c, i)' <=> (Reported(c, i) \/ e = Entry(i, "ok"))
      BY <1>0, <3>1, <3>2, AppendReported, Zenon
    <3>4. Quiet(c)
      BY <3>1, <3>3, Zenon DEF Quiet
    <3> QED
      BY <2>1, <3>4, AckBefore, Zenon
  <2>4. CASE answer' = answer \/ StreamFailure(c, 400)
    <3>1. Quiet(c)
      BY <1>0, <2>4, FailureQuiet, Zenon DEF Quiet, Reported
    <3> QED
      BY <2>1, <3>1, AckBefore, Zenon
  <2> QED
    BY <2>2, <2>3, <2>4, Zenon
<1>5. CASE StreamProduceError(c)
  <2>1. /\ UNCHANGED <<req, arg, ret, outcome>> /\ ret[c].err # "nil"
        /\ \E st : StreamFailure(c, st)
    BY <1>5, Zenon DEF StreamProduceError, producerVars
  <2>2. Quiet(c) /\ pc'[c] = "finish"
    BY <1>0, <2>1, FailureQuiet, Zenon
  <2>3. GivenUp(c)' = GivenUp(c) /\ pc'[c] \in {"returned"} \cup Over
    BY <2>1, <2>2, Zenon DEF GivenUp, Over
  <2> QED
    BY <2>1, <2>2, <2>3, AckKept, Zenon
<1>6. CASE StreamReport(c)
  <2>1. /\ pc[c] = "returned" /\ ret[c].err = "nil" /\ UNCHANGED <<req, ret, outcome>>
    BY <1>6, Zenon DEF StreamReport, producerVars
  <2>2. Tells(c)
    BY <1>6, StreamReportStep, Zenon
  <2> QED
    BY <2>1, <2>2, AckTold, Zenon
<1> QED
  BY <1>1, <1>2, <1>3, <1>4, <1>5, <1>6, Zenon DEF StreamRead, StreamStep

LEMMA AckRequest ==
    ASSUME ProxyInv, ProxyTypeOK', NEW c \in Clients, AckInv(c), OutsideStep(c) \/ ServerStep(c)
    PROVE  AckInv(c)'
<1>0. pc \in [Clients -> Stages] /\ ret \in [Clients -> Returns]
  BY Zenon DEF ProxyInv, ProxyTypeOK
<1>1. CASE Arrive(c) \/ ReadBody(c) \/ Gate(c) \/ RequestRate(c) \/ ByteRate(c)
  <2>1. /\ pc[c] \in BeforeDecoding /\ UNCHANGED <<req, answer, ret, outcome>>
    BY <1>1, Zenon DEF Arrive, Unauthorized, Enter, ReadBody, Gate, RequestRate, ByteRate,
                       producerVars, BeforeDecoding
  <2>2. Quiet(c)
    BY <2>1, Zenon DEF Quiet, Reported
  <2> QED
    BY <2>1, <2>2, AckBefore, Zenon
<1>2. CASE Finish(c)
  <2>1. /\ pc[c] = "finish" /\ pc'[c] = "done" /\ UNCHANGED <<req, answer, arg, ret, outcome>>
    BY <1>0, <1>2, Zenon DEF Finish, Goto, producerVars
  <2> QED
    BY <2>1, AckSilent, Zenon DEF Over
<1>3. CASE CheckClosed(c) \/ ProduceOverloaded(c)
  <2>1. /\ pc[c] \in {"produce", "admit"} /\ UNCHANGED <<req, answer, outcome>>
        /\ ret'[c] = ret[c] \/ ret'[c].err # "ctxErr"
    <3>1. /\ pc[c] \in {"produce", "admit"} /\ UNCHANGED <<req, answer, outcome>>
      BY <1>3, Zenon DEF CheckClosed, ProduceOverloaded, handlerVars
    <3>2. ret' = ret \/ Return(c, "closed", <<>>) \/ Return(c, "overloaded", <<>>)
      BY <1>3, Zenon DEF CheckClosed, ProduceOverloaded
    <3>3. ret'[c] = ret[c] \/ ret'[c].err # "ctxErr"
      BY <1>0, <3>2 DEF Return
    <3> QED
      BY <3>1, <3>3, Zenon
  <2>2. Quiet(c)
    BY <2>1, Zenon DEF Quiet, Reported
  <2> QED
    BY <2>1, <2>2, AckBefore, Zenon
<1>4. CASE ProduceAdmitted(c)
  <2>1. /\ pc[c] \in {"produce", "admit"} /\ UNCHANGED <<req, answer, ret, outcome>>
    BY <1>4, Zenon DEF ProduceAdmitted, handlerVars
  <2>2. Quiet(c)
    BY <2>1, Zenon DEF Quiet, Reported
  <2> QED
    BY <2>1, <2>2, AckBefore, Zenon
<1>5. CASE ProduceResults(c) \/ ProduceExpired(c) \/ AcknowledgedLate(c)
  BY <1>5, AckCall, Zenon
<1>6. CASE (V2Step(c) \/ BatchStep(c)) /\ UNCHANGED streamVars /\ UNCHANGED main
  BY <1>6, AckHandler, Zenon
<1>7. CASE (StreamRead(c) \/ StreamStep(c)) /\ UNCHANGED main
  BY <1>7, AckStream, Zenon
<1> QED
  BY <1>1, <1>2, <1>3, <1>4, <1>5, <1>6, <1>7, Zenon DEF OutsideStep, ServerStep, CommonStep

LEMMA AckNextState ==
    ASSUME ProxyInv, ProxyInv', \A c \in Clients : AckInv(c), [ProxyNext]_proxyVars,
           NEW d \in Clients
    PROVE  AckInv(d)'
<1>0. ProxyTypeOK'
  BY Zenon DEF ProxyInv
<1>1. ASSUME NEW c \in Clients, OutsideStep(c) \/ ServerStep(c) PROVE AckInv(d)'
  <2>1. CASE d = c
    BY <1>0, <1>1, <2>1, AckRequest, Zenon
  <2>2. CASE d # c
    BY <1>1, <2>2, RequestStep, AckOthers, Zenon DEF Preserved, Others
  <2> QED
    BY <2>1, <2>2, Zenon
<1>2. CASE Signal \/ ListenerError \/ MainStep \/ UNCHANGED proxyVars
  <2>1. UNCHANGED <<req, pc, status, sent, answer, count, arg, ret, outcome, submitted, pos, wrote>>
    BY <1>2, Zenon DEF Signal, ListenerError, MainStep, Drained, DrainTimeout, CloseProducer, Exit,
                       proxyVars, apiVars, streamVars
  <2> QED
    BY <2>1, AckOthers, Zenon DEF Same
<1> QED
  BY <1>1, <1>2, Zenon DEF ProxyNext

LEMMA AckInit ==
    ASSUME ProxyInit, NEW c \in Clients
    PROVE  AckInv(c)
<1>1. /\ answer[c] = <<>> /\ ret[c].err = "none"
      /\ \A i \in Items(c) : outcome[c][i] = "none"
  BY Zenon DEF ProxyInit, ApiInit, NoReturn, Items
<1>2. DOMAIN answer[c] = {}
  BY <1>1
<1> QED
  BY <1>1, <1>2 DEF AckInv

LEMMA AckAlways == ProxySafety => [](\A c \in Clients : AckInv(c))
<1> DEFINE Acks == \A c \in Clients : AckInv(c)
<1>1. ProxyInit => Acks
  BY AckInit, Zenon
<1>2. ProxyInv /\ ProxyInv' /\ Acks /\ [ProxyNext]_proxyVars => Acks'
  BY AckNextState, Zenon
<1> QED
  BY <1>1, <1>2, ProxyCorrect, PTL DEF ProxySafety

(***************************************************************************)
(* The counter of acknowledged records has those of every call that did    *)
(* not give up, each once, and no other.                                   *)
(***************************************************************************)
THEOREM CounterTellsWhatWasAcknowledged == ProxySafety => []AcknowledgementsCounted
<1> DEFINE Counted == {r \in Acknowledged : r[2] \notin GivenUp(r[1])}
           Pairs == Clients \X (1..(RequestMaxRecords + 1))
<1>1. ASSUME ProxyInv, \A c \in Clients : AckInv(c), \A c \in Clients : pc[c] # "returned",
             NEW r \in Pairs
      PROVE  r \in Counted <=> Reported(r[1], r[2])
  <2>1. PICK c \in Clients, i \in 1..(RequestMaxRecords + 1) : r = <<c, i>>
    OBVIOUS
  <2>2. i \in Nat /\ r[1] = c /\ r[2] = i
    BY <2>1, TrafficAssumption
  <2>3. RequestInv(c) /\ AckInv(c) /\ pc[c] # "returned" /\ DOMAIN outcome[c] = Items(c)
    BY <1>1, Zenon DEF ProxyInv, RequestInv
  <2>4. r \in Counted <=> i \in Items(c) /\ outcome[c][i] = "ok" /\ i \notin GivenUp(c)
    BY <1>1, <2>2, <2>3, Zenon DEF Acknowledged
  <2>5. i \in Items(c) /\ outcome[c][i] = "ok" /\ i \notin GivenUp(c) => Reported(c, i)
    BY <2>3, Zenon DEF AckInv, AtHand
  <2>6. ASSUME Reported(c, i)
        PROVE  i \in Items(c) /\ outcome[c][i] = "ok" /\ i \notin GivenUp(c)
    <3>1. Founded(c)
      BY <2>3, FoundedFromAck, Zenon
    <3>2. PICK k \in DOMAIN answer[c] : answer[c][k] = Entry(i, "ok")
      BY <2>6, Zenon DEF Reported
    <3>3. answer[c][k].verdict = "ok" /\ answer[c][k].index = i
      BY <3>2 DEF Entry
    <3>4. outcome[c][i] = "ok"
      BY <2>3, <3>3, Zenon DEF RequestInv, TruthInv
    <3> QED
      BY <2>2, <2>6, <3>1, <3>4, Zenon DEF Founded
  <2> QED
    BY <2>2, <2>4, <2>5, <2>6, Zenon
<1>2. ASSUME ProxyInv, \A c \in Clients : AckInv(c), \A c \in Clients : pc[c] # "returned"
      PROVE  metrics.produced = Cardinality(Counted)
  <2>1. Counted \subseteq Pairs
    BY Zenon DEF Acknowledged
  <2>2. Counted = {r \in Pairs : Reported(r[1], r[2])}
    BY <1>1, <1>2, <2>1, Zenon
  <2> QED
    BY <1>2, <2>2, Zenon DEF ProxyInv, ProducedIsReported, Reported
<1>3. ProxyInv /\ (\A c \in Clients : AckInv(c)) => AcknowledgementsCounted
  BY <1>2, Zenon DEF AcknowledgementsCounted
<1> QED
  BY <1>3, ProxyCorrect, AckAlways, PTL

-----------------------------------------------------------------------------
(* The status line. *)

\* A failure after the first report is not given a status line.
LEMMA FailureSendsOnce ==
    ASSUME ProxyInv, NEW c \in Clients, pc[c] \in Streaming \cup {"returned"},
           req[c].route = "stream", NEW st, StreamFailure(c, st), sent[c] # 0
    PROVE  sent' = sent
<1>1. StreamInv(c) /\ pc[c] \notin Over
  BY Zenon DEF ProxyInv, RequestInv, Streaming, Over
<1>2. wrote[c]
  BY <1>1, Zenon DEF StreamInv
<1> QED
  BY <1>2, Zenon DEF StreamFailure

LEMMA ReportSendsOnce ==
    ASSUME ProxyInv, NEW c \in Clients, pc[c] \in Streaming \cup {"returned"},
           req[c].route = "stream", NEW e, WriteRecordResponse(c, e), sent[c] # 0
    PROVE  sent' = sent
<1>1. StreamInv(c) /\ pc[c] \notin Over
  BY Zenon DEF ProxyInv, RequestInv, Streaming, Over
<1>2. wrote[c]
  BY <1>1, Zenon DEF StreamInv
<1> QED
  BY <1>2, Zenon DEF WriteRecordResponse

LEMMA RequestSendsOnce ==
    ASSUME ProxyInv, NEW c \in Clients, OutsideStep(c) \/ ServerStep(c), sent[c] # 0
    PROVE  sent' = sent
<1>0. /\ pc[c] \notin BeforeDecoding
      /\ req[c].route # "stream" => pc[c] \notin Calling
      /\ pc[c] \in Streaming => req[c].route = "stream"
  BY ZenonT(30) DEF ProxyInv, RequestInv, PhaseInv, WholeInv, Untouched
<1>1. /\ ~Arrive(c) /\ ~ReadBody(c) /\ ~Gate(c) /\ ~RequestRate(c) /\ ~ByteRate(c)
      /\ ~V2Step(c) /\ ~BatchStep(c)
  BY <1>0, Zenon DEF BeforeDecoding, Calling, Arrive, Unauthorized, Enter, ReadBody, Gate, RequestRate,
              ByteRate, V2Step, V2Decode, V2ProduceError, V2Respond,
              BatchStep, BatchDecode, BatchProduceError, BatchRespond
<1>2. CASE \/ ProduceResults(c) \/ AcknowledgedLate(c) \/ Finish(c) \/ CheckClosed(c)
           \/ ProduceOverloaded(c) \/ ProduceAdmitted(c) \/ ProduceExpired(c)
  BY <1>2, Zenon DEF ProduceResults, AcknowledgedLate, Finish, CheckClosed, ProduceOverloaded, ProduceAdmitted,
              ProduceExpired, handlerVars
<1>3. CASE StreamRead(c)
  <2>1. pc[c] = "read" /\ pc[c] \in Streaming /\ req[c].route = "stream"
    BY <1>0, <1>3, Zenon DEF StreamRead, StreamDecode, StreamEOF, Streaming
  <2>2. CASE StreamDecode(c)
    BY <2>1, <2>2, FailureSendsOnce, Zenon DEF StreamDecode
  <2>3. CASE StreamEOF(c)
    <3>1. StreamInv(c) /\ pc[c] \notin Over /\ answer[c] \in Seq(AnswerEntries) /\ count[c] \in Nat
      BY <2>1, Zenon DEF ProxyInv, RequestInv, Over, ProxyTypeOK
    <3>2. count[c] # 0
      BY <2>1, <3>1 DEF StreamInv
    <3> QED
      BY <2>3, <3>2, Zenon DEF StreamEOF
  <2> QED
    BY <1>3, <2>2, <2>3, Zenon DEF StreamRead
<1>4. CASE StreamStep(c)
  <2>1. pc[c] \in Streaming \cup {"returned"} /\ req[c].route = "stream"
    BY <1>0, <1>4, Zenon DEF StreamStep, StreamRateRefused, StreamRecord, StreamProduceError, StreamReport,
                      Streaming
  <2>2. CASE StreamRateRefused(c)
    BY <2>1, <2>2, FailureSendsOnce, Zenon DEF StreamRateRefused
  <2>3. CASE StreamRecord(c)
    BY <2>1, <2>3, FailureSendsOnce, ReportSendsOnce, Zenon DEF StreamRecord
  <2>4. CASE StreamProduceError(c)
    BY <2>1, <2>4, FailureSendsOnce, Zenon DEF StreamProduceError
  <2>5. CASE StreamReport(c)
    BY <2>1, <2>5, ReportSendsOnce, Zenon DEF StreamReport
  <2> QED
    BY <1>4, <2>2, <2>3, <2>4, <2>5, Zenon DEF StreamStep
<1> QED
  BY <1>1, <1>2, <1>3, <1>4, Zenon DEF OutsideStep, ServerStep, CommonStep

(***************************************************************************)
(* A request is given one status line, also when a stream fails half-way.  *)
(***************************************************************************)
THEOREM OneStatusLine == ProxySafety => StatusSentOnce
<1>1. ASSUME ProxyInv, [ProxyNext]_proxyVars, NEW c \in Clients, sent[c] # 0
      PROVE  sent'[c] = sent[c]
  <2>1. ASSUME NEW d \in Clients, OutsideStep(d) \/ ServerStep(d)
        PROVE  sent'[c] = sent[c]
    <3>1. CASE d = c
      BY <1>1, <2>1, <3>1, RequestSendsOnce, Zenon
    <3>2. CASE d # c
      BY <1>1, <2>1, <3>2, RequestStep, Zenon DEF Preserved, Others, Same
    <3> QED
      BY <3>1, <3>2, Zenon
  <2>2. CASE Signal \/ ListenerError \/ MainStep \/ UNCHANGED proxyVars
    BY <2>2, Zenon DEF Signal, ListenerError, MainStep, Drained, DrainTimeout, CloseProducer, Exit,
                proxyVars, apiVars
  <2> QED
    BY <1>1, <2>1, <2>2, Zenon DEF ProxyNext
<1>2. ProxyInv /\ [ProxyNext]_proxyVars
         => [\A c \in Clients : sent[c] # 0 => sent'[c] = sent[c]]_sent
  BY <1>1, Zenon
<1> QED
  BY <1>2, ProxyCorrect, PTL DEF ProxySafety, StatusSentOnce

=============================================================================
