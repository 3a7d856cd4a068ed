-------------------------- MODULE ProxyEntryProofs --------------------------
(***************************************************************************)
(* The handlers of Proxy up to the call of Produce: each step keeps what   *)
(* the inductive invariant says of its request and of the counters.        *)
(***************************************************************************)
EXTENDS ProxyInvariant, CountingTheorems

-----------------------------------------------------------------------------
(* The operators of the handlers. *)

(***************************************************************************)
(* The loop over the entries of a batch splits them: every entry is either *)
(* refused or passed on, once, and the entries passed on have distinct ids.*)
(***************************************************************************)
LEMMA SplitFacts ==
    ASSUME NEW items, Len(items) \in Nat, DOMAIN items = 1..Len(items), NEW S \in SUBSET DOMAIN items
    PROVE  /\ InOrder(S) \in Seq(S)
           /\ \A j, k \in DOMAIN InOrder(S) : InOrder(S)[j] = InOrder(S)[k] => j = k
           /\ \A i \in S : \E k \in DOMAIN InOrder(S) : InOrder(S)[k] = i
           /\ Len(InOrder(S)) = Cardinality(S) /\ IsFiniteSet(S)
<1>1. DOMAIN items = 1..Len(items) /\ Len(items) \in Nat
  BY Zenon
<1>2. IsFiniteSet(1..Len(items))
  BY <1>1, FS_Interval
<1>3. IsFiniteSet(S) /\ S \in SUBSET Int
  BY <1>1, <1>2, FS_Subset
<1>4. /\ InOrder(S) \in Seq(S) /\ Len(InOrder(S)) = Cardinality(S)
      /\ InOrder(S) \in Bijection(1..Cardinality(S), S)
  BY <1>3, InOrderLists, Zenon
<1>5. DOMAIN InOrder(S) = 1..Cardinality(S)
  BY <1>4
<1> QED
  BY <1>3, <1>4, <1>5, Zenon DEF Bijection, Injection, Surjection, IsInjective

LEMMA BatchSplit ==
    ASSUME NEW items, Len(items) \in Nat, DOMAIN items = 1..Len(items)
    PROVE  /\ Envelopes(items) \in Seq(DOMAIN items) /\ Refused(items) \in Seq(DOMAIN items)
           /\ \A k \in DOMAIN Envelopes(items) : ~Invalid(items, Envelopes(items)[k])
           /\ \A k \in DOMAIN Refused(items) : Invalid(items, Refused(items)[k])
           /\ \A j, k \in DOMAIN Envelopes(items) :
                 Envelopes(items)[j] = Envelopes(items)[k] => j = k
           /\ \A i \in DOMAIN items : ~Invalid(items, i) =>
                 \E k \in DOMAIN Envelopes(items) : Envelopes(items)[k] = i
           /\ \A i \in DOMAIN items : Invalid(items, i) =>
                 \E k \in DOMAIN Refused(items) : Refused(items)[k] = i
           /\ Len(Refused(items)) + Len(Envelopes(items)) = Len(items)
<1> DEFINE I == {i \in DOMAIN items : Invalid(items, i)}
           V == {i \in DOMAIN items : ~Invalid(items, i)}
<1>1. I \in SUBSET DOMAIN items /\ V \in SUBSET DOMAIN items
  BY Zenon
<1>2. /\ InOrder(V) \in Seq(V)
      /\ \A j, k \in DOMAIN InOrder(V) : InOrder(V)[j] = InOrder(V)[k] => j = k
      /\ \A i \in V : \E k \in DOMAIN InOrder(V) : InOrder(V)[k] = i
      /\ Len(InOrder(V)) = Cardinality(V) /\ IsFiniteSet(V)
  BY <1>1, SplitFacts, Zenon
<1>3. /\ InOrder(I) \in Seq(I)
      /\ \A i \in I : \E k \in DOMAIN InOrder(I) : InOrder(I)[k] = i
      /\ Len(InOrder(I)) = Cardinality(I) /\ IsFiniteSet(I)
  BY <1>1, SplitFacts, Zenon
<1>4. Cardinality(I) + Cardinality(V) = Len(items)
  <2>1. I \cap V = {} /\ I \cup V = 1..Len(items) /\ Len(items) \in Nat
    BY Zenon
  <2>2. Cardinality(1..Len(items)) = Len(items)
    <3>1. Cardinality(1..Len(items)) = IF 1 > Len(items) THEN 0 ELSE Len(items) - 1 + 1
      BY <2>1, FS_Interval, SMTT(30)
    <3> QED
      BY <2>1, <3>1
  <2>3. Cardinality(I \cup V) = Cardinality(I) + Cardinality(V) - Cardinality(I \cap V)
    BY <1>2, <1>3, FS_Union, Zenon
  <2>4. Cardinality(I \cap V) = 0 /\ Cardinality(I) \in Nat /\ Cardinality(V) \in Nat
    BY <1>2, <1>3, <2>1, FS_EmptySet, FS_CardinalityType, Zenon
  <2> HIDE DEF I, V
  <2>5. Cardinality(I \cup V) = Len(items)
    BY <2>1, <2>2, Zenon
  <2> QED
    BY <2>3, <2>4, <2>5
<1>5. Refused(items) = InOrder(I) /\ Envelopes(items) = InOrder(V)
  BY Zenon DEF Refused, Envelopes
<1>6. InOrder(V) \in Seq(DOMAIN items) /\ InOrder(I) \in Seq(DOMAIN items)
  BY <1>1, <1>2, <1>3
<1>7. (\A k \in DOMAIN InOrder(V) : InOrder(V)[k] \in V)
      /\ (\A k \in DOMAIN InOrder(I) : InOrder(I)[k] \in I)
  <2> HIDE DEF I, V
  <2>1. \A s \in Seq(V) : \A k \in DOMAIN s : s[k] \in V
    OBVIOUS
  <2>2. \A s \in Seq(I) : \A k \in DOMAIN s : s[k] \in I
    OBVIOUS
  <2> QED
    BY <1>2, <1>3, <2>1, <2>2, Zenon
<1> QED
  BY <1>2, <1>3, <1>4, <1>5, <1>6, <1>7, Zenon

\* The first test that a request fails is one of the tests.
LEMMA FirstGate ==
    ASSUME NEW failed \in SUBSET DOMAIN Gates, failed # {}
    PROVE  Gates[Min(failed)][2] \in Refusals
<1>1. DOMAIN Gates = 1..5
  BY DEF Gates
<1>2. IsFiniteSet(failed) /\ failed \in SUBSET Int
  BY <1>1, FS_Interval, FS_Subset
<1>3. \E x \in failed : \A y \in failed : x <= y
  BY <1>2, LeastMember, Zenon
<1>4. Min(failed) \in 1..5
  BY <1>1, <1>3, Zenon DEF Min
<1> QED
  BY <1>4 DEF Gates, Refusals

ItemLists == Seq([form : Forms, id : STRING])

\* The shape of a request.
LEMMA RequestFacts ==
    ASSUME NEW c \in Clients, ProxyTypeOK
    PROVE  /\ req[c].route \in Routes /\ req[c].items \in ItemLists
           /\ Len(req[c].items) \in Nat /\ Items(c) = 1..Len(req[c].items)
           /\ sent[c] \in Nat /\ status[c] \in Nat /\ pos[c] \in Nat /\ count[c] \in Nat
<1>1. req[c] \in Requests
  BY Zenon DEF ProxyTypeOK
<1>2. req[c].route \in Routes /\ req[c].items \in ItemLists
  BY <1>1, Zenon DEF Requests, ItemLists
<1>3. Len(req[c].items) \in Nat /\ Items(c) = 1..Len(req[c].items)
  BY <1>2 DEF Items, ItemLists
<1>4. sent[c] \in Nat /\ status[c] \in Nat /\ pos[c] \in Nat /\ count[c] \in Nat
  BY Zenon DEF ProxyTypeOK
<1> QED
  BY <1>2, <1>3, <1>4, Zenon

-----------------------------------------------------------------------------
(* A step of one request leaves the others alone. *)

Same(d) ==
    /\ pc'[d] = pc[d] /\ status'[d] = status[d] /\ sent'[d] = sent[d]
    /\ answer'[d] = answer[d] /\ count'[d] = count[d] /\ arg'[d] = arg[d]
    /\ ret'[d] = ret[d] /\ outcome'[d] = outcome[d] /\ submitted'[d] = submitted[d]
    /\ pos'[d] = pos[d] /\ wrote'[d] = wrote[d]

Others(c) == req' = req /\ \A d \in Clients \ {c} : Same(d)

(***************************************************************************)
(* What is known of a request still holds when nothing of it changes.      *)
(***************************************************************************)
LEMMA SameKeeps ==
    ASSUME NEW d \in Clients, req' = req, Same(d), closeFlag => closeFlag', RequestInv(d)
    PROVE  RequestInv(d)'
<1>1. PhaseInv(d)'
  BY DEF RequestInv, PhaseInv, Untouched, Same
<1>2. (DOMAIN outcome[d] = Items(d))' /\ (ret[d].err = "closed" => closeFlag)'
  BY Zenon DEF RequestInv, Items, Same
<1>3. (pc[d] \in Calling => CallInv(d))'
  BY DEF RequestInv, CallInv, Items, Earlier, Passed, Same
<1>4. (req[d].route # "stream" => WholeInv(d))'
  <2>1. /\ pc'[d] = pc[d] /\ status'[d] = status[d] /\ sent'[d] = sent[d]
        /\ answer'[d] = answer[d] /\ submitted'[d] = submitted[d]
    BY Zenon DEF Same
  <2>2. req[d].route # "stream" => WholeInv(d)
    BY Zenon DEF RequestInv
  <2> QED
    BY <2>1, <2>2 DEF WholeInv, Items
<1>5. (req[d].route = "stream" => StreamInv(d))'
  BY SMTT(30), ZenonT(60) DEF RequestInv, StreamInv, Same
<1>6. TruthInv(d)'
  BY Zenon DEF RequestInv, TruthInv, Same
<1> QED
  BY <1>1, <1>2, <1>3, <1>4, <1>5, <1>6, Zenon DEF RequestInv

-----------------------------------------------------------------------------
(* The counters. *)

\* What each metrics call leaves alone.
LEMMA MetricsFacts ==
    ASSUME NEW m \in Counters
    PROVE  /\ LET n == IncOutstanding(m) IN
              /\ n \in Counters /\ n.requests = m.requests /\ n.produced = m.produced
              /\ n.outstanding = m.outstanding + 1
           /\ LET n == ObserveAdmissionRejected(m) IN
              /\ n \in Counters /\ n.requests = m.requests /\ n.produced = m.produced
              /\ n.outstanding = m.outstanding
           /\ LET n == ObserveRateLimitRejected(m) IN
              /\ n \in Counters /\ n.requests = m.requests /\ n.produced = m.produced
              /\ n.outstanding = m.outstanding
           /\ \A good, bad \in Nat : LET n == ObserveProduceResult(m, good, bad) IN
              /\ n \in Counters /\ n.requests = m.requests /\ n.outstanding = m.outstanding
              /\ n.produced = m.produced + good
           /\ \A st \in {200, 207} \cup Refusals, records \in Nat :
              LET n == DecOutstanding(ObserveRequest(m, st, records)) IN
              /\ n \in Counters /\ n.produced = m.produced
              /\ n.outstanding = m.outstanding - 1
              /\ \A class \in 2..5 : n.requests[class] =
                    m.requests[class] + (IF class = StatusClass(st) THEN 1 ELSE 0)
<1>1. LET n == IncOutstanding(m) IN
      /\ n \in Counters /\ n.requests = m.requests /\ n.produced = m.produced
      /\ n.outstanding = m.outstanding + 1
  BY DEF Counters, IncOutstanding
<1>2. LET n == ObserveAdmissionRejected(m) IN
      /\ n \in Counters /\ n.requests = m.requests /\ n.produced = m.produced
      /\ n.outstanding = m.outstanding
  BY DEF Counters, ObserveAdmissionRejected
<1>3. LET n == ObserveRateLimitRejected(m) IN
      /\ n \in Counters /\ n.requests = m.requests /\ n.produced = m.produced
      /\ n.outstanding = m.outstanding
  BY DEF Counters, ObserveRateLimitRejected
<1>4. ASSUME NEW good \in Nat, NEW bad \in Nat
      PROVE  LET n == ObserveProduceResult(m, good, bad) IN
             /\ n \in Counters /\ n.requests = m.requests /\ n.outstanding = m.outstanding
             /\ n.produced = m.produced + good
  <2> DEFINE one == [m EXCEPT !.produced = m.produced + good]
             two == [one EXCEPT !.failed = m.failed + bad]
  <2>1. m.produced + good \in Nat /\ m.failed + bad \in Nat
    BY DEF Counters
  <2>2. /\ one \in Counters /\ one.requests = m.requests /\ one.outstanding = m.outstanding
        /\ one.produced = m.produced + good /\ one.failed = m.failed
    BY <2>1, Zenon DEF Counters
  <2>3. ObserveProduceResult(m, good, bad) = two
    BY Zenon DEF ObserveProduceResult, Counters
  <2> HIDE DEF one
  <2>4. /\ two \in Counters /\ two.requests = one.requests /\ two.outstanding = one.outstanding
        /\ two.produced = one.produced
    BY <2>1, <2>2, Zenon DEF Counters
  <2> HIDE DEF two
  <2> QED
    BY <2>2, <2>3, <2>4, Zenon
<1>5. ASSUME NEW st \in {200, 207} \cup Refusals, NEW records \in Nat
      PROVE  LET n == DecOutstanding(ObserveRequest(m, st, records)) IN
             /\ n \in Counters /\ n.produced = m.produced
             /\ n.outstanding = m.outstanding - 1
             /\ \A class \in 2..5 : n.requests[class] =
                   m.requests[class] + (IF class = StatusClass(st) THEN 1 ELSE 0)
  <2> DEFINE k == StatusClass(st)
             q == [m.requests EXCEPT ![k] = m.requests[k] + 1]
             a == IF records > 0 /\ st < 400 THEN m.accepted + records ELSE m.accepted
             one == [m EXCEPT !.requests = q]
             two == [one EXCEPT !.accepted = a]
             three == [two EXCEPT !.outstanding = m.outstanding - 1]
  <2>1. k \in 2..5 /\ st \in Nat
    BY DEF StatusClass, Refusals
  <2>2. a \in Nat /\ q \in [2..5 -> Nat] /\ m.outstanding - 1 \in Int
    BY <2>1 DEF Counters
  <2>3. \A class \in 2..5 : q[class] = m.requests[class] + (IF class = k THEN 1 ELSE 0)
    BY <2>1 DEF Counters
  <2>4. DecOutstanding(ObserveRequest(m, st, records)) = three
    BY Zenon DEF DecOutstanding, ObserveRequest, Counters
  <2> HIDE DEF k, q, a
  <2>5. /\ one \in Counters /\ one.requests = q /\ one.outstanding = m.outstanding
        /\ one.produced = m.produced
    BY <2>2, Zenon DEF Counters
  <2> HIDE DEF one
  <2>6. /\ two \in Counters /\ two.requests = q /\ two.outstanding = m.outstanding
        /\ two.produced = m.produced
    BY <2>2, <2>5, Zenon DEF Counters
  <2> HIDE DEF two
  <2>7. /\ three \in Counters /\ three.requests = q /\ three.produced = m.produced
        /\ three.outstanding = m.outstanding - 1
    BY <2>2, <2>6, Zenon DEF Counters
  <2> HIDE DEF three
  <2> QED
    BY <2>3, <2>4, <2>7, Zenon DEF k
<1> QED
  BY <1>1, <1>2, <1>3, <1>4, <1>5, Zenon

ReportedPairs == {r \in Clients \X (1..(RequestMaxRecords + 1)) : Reported(r[1], r[2])}

\* A handler that goes on without a metrics call leaves the counts right.
LEMMA ObservedKept ==
    ASSUME NEW c \in Clients, Others(c), ObservedWhatWasSent,
           pc[c] \notin {"idle", "done"}, pc'[c] \notin {"idle", "done"},
           metrics'.requests = metrics.requests, metrics'.outstanding = metrics.outstanding
    PROVE  ObservedWhatWasSent'
<1>1. \A class \in 2..5 :
        {x \in Clients : pc'[x] = "done" /\ sent'[x] # 401 /\ StatusClass(sent'[x]) = class}
      = {x \in Clients : pc[x] = "done" /\ sent[x] # 401 /\ StatusClass(sent[x]) = class}
  BY DEF Others, Same
<1>2. {x \in Clients : pc'[x] \notin {"idle", "done"}}
      = {x \in Clients : pc[x] \notin {"idle", "done"}}
  BY Zenon DEF Others, Same
<1> QED
  BY <1>1, <1>2, ZenonT(60) DEF ObservedWhatWasSent, Active

\* The handler starts: one more is running.
LEMMA ObservedEnter ==
    ASSUME NEW c \in Clients, Others(c), ObservedWhatWasSent,
           pc[c] = "idle", pc'[c] = "gate",
           metrics'.requests = metrics.requests,
           metrics'.outstanding = metrics.outstanding + 1
    PROVE  ObservedWhatWasSent'
<1> DEFINE A == {x \in Clients : Active(x)}
           B == {x \in Clients : Active(x)'}
<1>1. \A class \in 2..5 :
        {x \in Clients : pc'[x] = "done" /\ sent'[x] # 401 /\ StatusClass(sent'[x]) = class}
      = {x \in Clients : pc[x] = "done" /\ sent[x] # 401 /\ StatusClass(sent[x]) = class}
  BY DEF Others, Same
<1>2. IsFiniteSet(A) /\ Cardinality(A) \in Nat
  <2>1. A \in SUBSET Clients
    BY Zenon
  <2> QED
    BY <2>1, TrafficAssumption, FS_Subset, FS_CardinalityType, Zenon
<1>3. B = A \cup {c} /\ c \notin A
  BY Zenon DEF Others, Same, Active
<1>4. Cardinality(B) = Cardinality(A) + 1
  BY <1>2, <1>3, OneMore, Zenon
<1>5. metrics'.outstanding = Cardinality(B)
  BY <1>4, Zenon DEF ObservedWhatWasSent
<1>6. ASSUME NEW class \in 2..5
      PROVE  metrics'.requests[class] = Cardinality(
        {x \in Clients : pc'[x] = "done" /\ sent'[x] # 401 /\ StatusClass(sent'[x]) = class})
  <2> DEFINE D == {x \in Clients : pc[x] = "done" /\ sent[x] # 401 /\ StatusClass(sent[x]) = class}
             E == {x \in Clients : pc'[x] = "done" /\ sent'[x] # 401 /\ StatusClass(sent'[x]) = class}
  <2>1. metrics'.requests[class] = Cardinality(D)
    BY Zenon DEF ObservedWhatWasSent
  <2>2. E = D
    BY <1>1, Zenon
  <2> HIDE DEF D
  <2> QED
    BY <2>1, <2>2, Zenon
<1> QED
  BY <1>5, <1>6, Zenon DEF ObservedWhatWasSent

\* The middleware answers: no handler is involved.
LEMMA ObservedRefused ==
    ASSUME NEW c \in Clients, Others(c), ObservedWhatWasSent, metrics' = metrics,
           pc[c] = "idle", pc'[c] = "done", sent'[c] = 401
    PROVE  ObservedWhatWasSent'
<1>1. \A class \in 2..5 :
        {x \in Clients : pc'[x] = "done" /\ sent'[x] # 401 /\ StatusClass(sent'[x]) = class}
      = {x \in Clients : pc[x] = "done" /\ sent[x] # 401 /\ StatusClass(sent[x]) = class}
  BY DEF Others, Same
<1>2. {x \in Clients : pc'[x] \notin {"idle", "done"}}
      = {x \in Clients : pc[x] \notin {"idle", "done"}}
  BY DEF Others, Same
<1> QED
  BY <1>1, <1>2, SMTT(30) DEF ObservedWhatWasSent, Active

\* The deferred calls count the request under the class of what was sent.
LEMMA ObservedFinish ==
    ASSUME NEW c \in Clients, Others(c), ObservedWhatWasSent,
           pc[c] = "finish", pc'[c] = "done", sent'[c] = sent[c], sent[c] # 401,
           metrics'.outstanding = metrics.outstanding - 1,
           \A class \in 2..5 : metrics'.requests[class] =
              metrics.requests[class] + (IF class = StatusClass(sent[c]) THEN 1 ELSE 0)
    PROVE  ObservedWhatWasSent'
<1> DEFINE A == {x \in Clients : Active(x)}
           B == {x \in Clients : Active(x)'}
           D(class) == {x \in Clients : pc[x] = "done" /\ sent[x] # 401 /\ StatusClass(sent[x]) = class}
           E(class) == {x \in Clients : pc'[x] = "done" /\ sent'[x] # 401 /\ StatusClass(sent'[x]) = class}
<1>1. ASSUME NEW S \in SUBSET Clients PROVE IsFiniteSet(S) /\ Cardinality(S) \in Nat
  BY TrafficAssumption, FS_Subset, FS_CardinalityType
<1>2. Cardinality(B) = Cardinality(A) - 1
  <2>1. B = A \ {c} /\ c \in A /\ IsFiniteSet(A)
    BY <1>1 DEF Others, Same, Active
  <2> HIDE DEF A, B
  <2> QED
    BY <2>1, FS_RemoveElement, ZenonT(60)
<1>3. ASSUME NEW class \in 2..5
      PROVE  Cardinality(E(class)) = Cardinality(D(class))
                + (IF class = StatusClass(sent[c]) THEN 1 ELSE 0)
  <2>1. IsFiniteSet(D(class)) /\ Cardinality(D(class)) \in Nat
    BY <1>1
  <2>2. CASE class = StatusClass(sent[c])
    <3>1. E(class) = D(class) \cup {c} /\ c \notin D(class)
      BY <2>2 DEF Others, Same
    <3> HIDE DEF D, E
    <3>2. Cardinality(D(class) \cup {c}) = Cardinality(D(class)) + 1
      BY <2>1, <3>1, OneMore, ZenonT(60)
    <3> QED
      BY <2>2, <3>1, <3>2, Zenon
  <2>3. CASE class # StatusClass(sent[c])
    <3>1. E(class) = D(class)
      BY <2>3 DEF Others, Same
    <3> HIDE DEF D, E
    <3> QED
      BY <2>1, <2>3, <3>1
  <2> QED
    BY <2>2, <2>3, Zenon
<1>4. \A class \in 2..5 : metrics'.requests[class] = Cardinality(E(class))
  <2>1. \A class \in 2..5 : metrics.requests[class] = Cardinality(D(class))
    BY Zenon DEF ObservedWhatWasSent
  <2> HIDE DEF D, E
  <2> QED
    BY <1>3, <2>1
<1>5. metrics'.outstanding = Cardinality(B)
  BY <1>2 DEF ObservedWhatWasSent
<1> QED
  BY <1>4, <1>5, Zenon DEF ObservedWhatWasSent

\* Nothing new is reported as acknowledged, and nothing is counted as such.
LEMMA ReportedKept ==
    ASSUME NEW c \in Clients, Others(c), ProducedIsReported,
           \A i \in Nat : Reported(c, i)' <=> Reported(c, i),
           metrics'.produced = metrics.produced
    PROVE  ProducedIsReported'
<1>1. \A d \in Clients : \A i \in Nat : Reported(d, i)' <=> Reported(d, i)
  BY DEF Others, Same, Reported
<1>2. RequestMaxRecords + 1 \in Nat
  BY TrafficAssumption
<1>3. ReportedPairs' = ReportedPairs
  BY <1>1, <1>2 DEF ReportedPairs
<1> QED
  BY <1>3, Zenon DEF ProducedIsReported, ReportedPairs, Reported

\* The results of a call are reported and counted, each once.
LEMMA ReportedGrows ==
    ASSUME NEW c \in Clients, Others(c), ProducedIsReported,
           NEW K, IsFiniteSet(K), NEW f \in [K -> 1..(RequestMaxRecords + 1)],
           \A j, k \in K : f[j] = f[k] => j = k,
           \A i \in Nat : Reported(c, i)' <=> (Reported(c, i) \/ \E k \in K : f[k] = i),
           \A k \in K : ~Reported(c, f[k]),
           metrics'.produced = metrics.produced + Cardinality(K)
    PROVE  ProducedIsReported'
<1> DEFINE R == 1..(RequestMaxRecords + 1)
           Q == {<<c, f[k]>> : k \in K}
           g == [k \in K |-> <<c, f[k]>>]
<1>1. RequestMaxRecords + 1 \in Nat /\ R \in SUBSET Nat
  BY TrafficAssumption
<1>2. IsFiniteSet(ReportedPairs) /\ Cardinality(ReportedPairs) \in Nat
  <2>1. IsFiniteSet(R)
    BY <1>1, FS_Interval
  <2>2. IsFiniteSet(Clients \X R)
    BY <2>1, TrafficAssumption, FS_Product, Zenon
  <2>3. ReportedPairs \in SUBSET (Clients \X R)
    BY Zenon DEF ReportedPairs
  <2> QED
    BY <2>2, <2>3, FS_Subset, FS_CardinalityType, Zenon
<1>3. IsFiniteSet(Q) /\ Cardinality(Q) = Cardinality(K) /\ Cardinality(K) \in Nat
  <2>1. g \in Bijection(K, Q)
    BY Zenon DEF Bijection, Injection, Surjection, IsInjective
  <2>2. ExistsBijection(K, Q)
    BY <2>1, Zenon DEF ExistsBijection
  <2> HIDE DEF Q
  <2> QED
    BY <2>2, FS_Bijection, FS_CardinalityType, Zenon
<1>4. \A d \in Clients \ {c} : \A i \in Nat : Reported(d, i)' <=> Reported(d, i)
  BY DEF Others, Same, Reported
<1>5. ReportedPairs' = ReportedPairs \cup Q /\ ReportedPairs \cap Q = {}
  BY <1>1, <1>4 DEF ReportedPairs
<1>6. Cardinality(ReportedPairs \cup Q) = Cardinality(ReportedPairs) + Cardinality(Q)
  <2>1. Cardinality(ReportedPairs \cap Q) = 0
    BY <1>5, FS_EmptySet, Zenon
  <2>2. Cardinality(ReportedPairs \cup Q)
        = Cardinality(ReportedPairs) + Cardinality(Q) - Cardinality(ReportedPairs \cap Q)
    BY <1>2, <1>3, FS_Union, Zenon
  <2> HIDE DEF Q
  <2> QED
    BY <1>2, <1>3, <2>1, <2>2
<1>7. metrics.produced = Cardinality(ReportedPairs)
      /\ (ProducedIsReported' <=> metrics'.produced = Cardinality(ReportedPairs'))
  BY Zenon DEF ProducedIsReported, ReportedPairs, Reported
<1> HIDE DEF Q
<1> QED
  BY <1>3, <1>5, <1>6, <1>7, Zenon

-----------------------------------------------------------------------------
(* The steps before the body is decoded. *)

\* What each lemma on a step of request c establishes.
Preserved(c) ==
    ProxyTypeOK' /\ Others(c) /\ RequestInv(c)' /\ ObservedWhatWasSent' /\ ProducedIsReported'

Unmoved(c) ==
    /\ answer'[c] = answer[c] /\ count'[c] = count[c] /\ arg'[c] = arg[c]
    /\ ret'[c] = ret[c] /\ outcome'[c] = outcome[c] /\ submitted'[c] = submitted[c]
    /\ pos'[c] = pos[c] /\ wrote'[c] = wrote[c]

\* A refusal before anything was done for the request.
LEMMA RefusedEarly ==
    ASSUME NEW c \in Clients, ProxyTypeOK, RequestInv(c), req' = req, closeFlag' = closeFlag,
           pc[c] \in BeforeDecoding, pc'[c] = "finish",
           NEW st \in Refusals, status'[c] = st, sent'[c] = st, Unmoved(c)
    PROVE  RequestInv(c)'
<1> USE DEF Unmoved
<1>1. Untouched(c)
  BY Zenon DEF RequestInv, PhaseInv
<1>2. pc'[c] \notin BeforeDecoding \cup Streaming \cup Calling \cup {"done"} /\ st \in Nat /\ st >= 400
  BY DEF BeforeDecoding, Streaming, Calling, Refusals
<1>3. PhaseInv(c)'
  BY <1>2 DEF PhaseInv, BeforeDecoding, Streaming
<1>4. (DOMAIN outcome[c] = Items(c))' /\ (ret[c].err = "closed" => closeFlag)'
  BY Zenon DEF RequestInv, Items
<1>5. (req[c].route # "stream" => WholeInv(c))'
  BY <1>1, <1>2, SMTT(30) DEF WholeInv, Untouched
<1>6. (req[c].route = "stream" => StreamInv(c))'
  BY <1>1, <1>2, RequestFacts, ZenonT(60) DEF StreamInv, Untouched, RequestInv, Over
<1>7. TruthInv(c)'
  BY <1>1 DEF TruthInv, Untouched
<1> QED
  BY <1>2, <1>3, <1>4, <1>5, <1>6, <1>7, Zenon DEF RequestInv

\* On to the next test, or to the stream's loop.
LEMMA GoesOnEarly ==
    ASSUME NEW c \in Clients, ProxyTypeOK, RequestInv(c), req' = req, closeFlag' = closeFlag,
           pc[c] \in BeforeDecoding, pc'[c] \in BeforeDecoding \cup {"read"},
           pc'[c] \in {"body", "byteRate", "decode"} => req[c].route # "stream",
           pc'[c] = "read" => req[c].route = "stream",
           status'[c] = status[c], sent'[c] = sent[c], Unmoved(c)
    PROVE  RequestInv(c)'
<1> USE DEF Unmoved
<1>1. Untouched(c)
  BY Zenon DEF RequestInv, PhaseInv
<1>2. pc'[c] \notin Calling \cup Over \cup {"streamRate"}
  BY Zenon DEF BeforeDecoding, Calling, Over
<1>3. PhaseInv(c)'
  BY <1>1, <1>2 DEF PhaseInv, Untouched, Streaming, Over
<1>4. (DOMAIN outcome[c] = Items(c))' /\ (ret[c].err = "closed" => closeFlag)'
  BY Zenon DEF RequestInv, Items
<1>5. (req[c].route # "stream" => WholeInv(c))'
  BY <1>1, <1>2, Zenon DEF WholeInv, Untouched
<1>6. (req[c].route = "stream" => StreamInv(c))'
  BY <1>1, <1>2, RequestFacts, SMTT(30) DEF StreamInv, Untouched, RequestInv
<1>7. TruthInv(c)'
  BY <1>1 DEF TruthInv, Untouched
<1> QED
  BY <1>2, <1>3, <1>4, <1>5, <1>6, <1>7, Zenon DEF RequestInv

\* The counters of handlers that only come to a verdict on a request.
LEMMA CountersKept ==
    ASSUME NEW c \in Clients, Others(c), ObservedWhatWasSent, ProducedIsReported,
           pc[c] \notin {"idle", "done"}, pc'[c] \notin {"idle", "done"},
           answer'[c] = answer[c],
           metrics'.requests = metrics.requests, metrics'.outstanding = metrics.outstanding,
           metrics'.produced = metrics.produced
    PROVE  ObservedWhatWasSent' /\ ProducedIsReported'
<1>1. \A i \in Nat : Reported(c, i)' <=> Reported(c, i)
  BY Zenon DEF Reported
<1> QED
  BY <1>1, ObservedKept, ReportedKept, Zenon

LEMMA UnauthorizedStep ==
    ASSUME ProxyInv, NEW c \in Clients, Unauthorized(c), UNCHANGED streamVars, UNCHANGED main
    PROVE  Preserved(c)
<1> USE DEF ProxyInv, Unauthorized, Goto, producerVars, streamVars
<1>1. ProxyTypeOK'
  BY SMTT(30) DEF ProxyTypeOK, Stages, Over
<1>2. Others(c) /\ pc'[c] = "done" /\ sent'[c] = 401 /\ Unmoved(c)
  BY DEF ProxyTypeOK, Others, Same, Unmoved
<1>3. RequestInv(c)'
  <2>1. Untouched(c) /\ RequestInv(c)
    BY SMTT(30), ZenonT(60) DEF RequestInv, PhaseInv, BeforeDecoding
  <2>2. PhaseInv(c)'
    BY <1>2, Zenon DEF PhaseInv, BeforeDecoding, Streaming
  <2>3. (DOMAIN outcome[c] = Items(c))' /\ (ret[c].err = "closed" => closeFlag)'
    BY <2>1, Zenon DEF RequestInv, Items
  <2>4. pc'[c] \notin Calling
    BY <1>2, Zenon DEF Calling
  <2>5. Len(req[c].items) \in Nat
    BY RequestFacts, Zenon
  <2> HIDE DEF ProxyInv, Unauthorized, Goto, producerVars, streamVars
  <2>6. /\ answer'[c] = <<>> /\ submitted'[c] = {} /\ pos'[c] = 0 /\ ~wrote'[c]
        /\ req' = req
    BY <1>2, <2>1, ZenonT(60) DEF Untouched, Unmoved, Others
  <2>7. DOMAIN answer'[c] = {}
    BY <2>6, SMTT(30), ZenonT(60)
  <2>8. (req[c].route # "stream" => WholeInv(c))'
    BY <1>2, <2>4, <2>6 DEF WholeInv
  <2>9. (req[c].route = "stream" => StreamInv(c))'
    <3>1. pc'[c] \notin Streaming /\ pc'[c] \in Over
      BY <1>2, Zenon DEF Streaming, Over
    <3> QED
      BY <1>2, <2>4, <2>5, <2>6, <3>1 DEF StreamInv, Streaming
  <2>10. TruthInv(c)'
    BY <2>7, Zenon DEF TruthInv
  <2> QED
    BY <2>2, <2>3, <2>4, <2>8, <2>9, <2>10, Zenon DEF RequestInv
<1>4. ObservedWhatWasSent' /\ ProducedIsReported'
  <2>1. \A i \in Nat : Reported(c, i)' <=> Reported(c, i)
    BY Zenon DEF Reported
  <2> QED
    BY <1>2, <2>1, ObservedRefused, ReportedKept
<1> QED
  BY <1>1, <1>2, <1>3, <1>4, Zenon DEF Preserved

LEMMA EnterStep ==
    ASSUME ProxyInv, NEW c \in Clients, Enter(c), UNCHANGED streamVars, UNCHANGED main
    PROVE  Preserved(c)
<1> USE DEF ProxyInv, Enter, Goto, producerVars, streamVars
<1>1. ProxyTypeOK'
  BY MetricsFacts, Zenon DEF ProxyTypeOK, Stages, BeforeDecoding
<1>2. Others(c) /\ pc'[c] = "gate" /\ Unmoved(c)
  BY Zenon DEF ProxyTypeOK, Others, Same, Unmoved
<1>3. RequestInv(c)'
  BY <1>2, GoesOnEarly, Zenon DEF BeforeDecoding
<1>4. ObservedWhatWasSent' /\ ProducedIsReported'
  <2>1. \A i \in Nat : Reported(c, i)' <=> Reported(c, i)
    BY Zenon DEF Reported
  <2>2. /\ metrics'.requests = metrics.requests /\ metrics'.produced = metrics.produced
        /\ metrics'.outstanding = metrics.outstanding + 1
    BY MetricsFacts, SMTT(30) DEF ProxyTypeOK
  <2> QED
    BY <1>2, <2>1, <2>2, ObservedEnter, ReportedKept, Zenon
<1> QED
  BY <1>1, <1>2, <1>3, <1>4, Zenon DEF Preserved

\* The counters that the invariant speaks of stay as they are.
Uncounted ==
    /\ metrics' \in Counters /\ metrics'.requests = metrics.requests
    /\ metrics'.outstanding = metrics.outstanding /\ metrics'.produced = metrics.produced

LEMMA RefusalStep ==
    ASSUME ProxyInv, NEW c \in Clients, pc[c] \in BeforeDecoding \ {"idle"},
           NEW st \in Refusals, WriteAPIError(c, st), Uncounted,
           UNCHANGED <<producerVars, req, answer, count>>, UNCHANGED streamVars, UNCHANGED main
    PROVE  Preserved(c)
<1> USE DEF ProxyInv, WriteAPIError, Goto, producerVars, streamVars
<1>1. ProxyTypeOK'
  <2>1. st \in Nat
    BY DEF Refusals
  <2> QED
    BY <2>1, Zenon DEF ProxyTypeOK, Stages, Over, Uncounted
<1>2. /\ Others(c) /\ Unmoved(c) /\ pc'[c] = "finish" /\ status'[c] = st /\ sent'[c] = st
      /\ answer'[c] = answer[c]
  BY Zenon DEF ProxyTypeOK, Others, Same, Unmoved
<1>3. RequestInv(c)'
  BY <1>2, RefusedEarly, Zenon
<1>4. ObservedWhatWasSent' /\ ProducedIsReported'
  BY <1>2, CountersKept, Zenon DEF Uncounted, BeforeDecoding
<1> QED
  BY <1>1, <1>2, <1>3, <1>4, Zenon DEF Preserved

LEMMA AdvanceStep ==
    ASSUME ProxyInv, NEW c \in Clients, pc[c] \in BeforeDecoding \ {"idle"},
           NEW label \in (BeforeDecoding \ {"idle"}) \cup {"read"}, Goto(c, label),
           label \in {"body", "byteRate", "decode"} => req[c].route # "stream",
           label = "read" => req[c].route = "stream",
           metrics' = metrics,
           UNCHANGED <<producerVars, req, status, sent, answer, count>>,
           UNCHANGED streamVars, UNCHANGED main
    PROVE  Preserved(c)
<1> USE DEF ProxyInv, Goto, producerVars, streamVars
<1>1. ProxyTypeOK'
  BY Zenon DEF ProxyTypeOK, Stages, Streaming
<1>2. Others(c) /\ Unmoved(c) /\ pc'[c] = label /\ answer'[c] = answer[c]
  BY Zenon DEF ProxyTypeOK, Others, Same, Unmoved
<1>3. RequestInv(c)'
  BY <1>2, GoesOnEarly, Zenon
<1>4. ObservedWhatWasSent' /\ ProducedIsReported'
  BY <1>2, CountersKept, Zenon DEF BeforeDecoding
<1> QED
  BY <1>1, <1>2, <1>3, <1>4, Zenon DEF Preserved

\* The limiters' counter is none of those.
LEMMA RateLimitUncounted ==
    ASSUME ProxyInv, metrics' = ObserveRateLimitRejected(metrics) \/ metrics' = metrics
    PROVE  Uncounted
BY MetricsFacts, SMTT(30), ZenonT(60) DEF ProxyInv, ProxyTypeOK, Uncounted

LEMMA GateStep ==
    ASSUME ProxyInv, NEW c \in Clients, Gate(c), UNCHANGED streamVars, UNCHANGED main
    PROVE  Preserved(c)
<1> DEFINE failed == {i \in DOMAIN Gates : Gates[i][1] \in req[c].faults}
<1>1. Uncounted /\ pc[c] \in BeforeDecoding \ {"idle"}
      /\ UNCHANGED <<producerVars, req, answer, count>> /\ metrics' = metrics
  BY RateLimitUncounted, Zenon DEF Gate, BeforeDecoding
<1>2. CASE failed # {}
  <2>1. Gates[Min(failed)][2] \in Refusals
    BY <1>2, FirstGate, Zenon
  <2>2. WriteAPIError(c, Gates[Min(failed)][2])
    BY <1>2, Zenon DEF Gate
  <2> QED
    BY <1>1, <2>1, <2>2, RefusalStep, Zenon
<1>3. CASE failed = {}
  <2>1. Goto(c, "requestRate") /\ UNCHANGED <<producerVars, req, status, sent, answer, count>>
    BY <1>3, Zenon DEF Gate
  <2>2. "requestRate" \in (BeforeDecoding \ {"idle"}) \cup {"read"}
    BY Zenon DEF BeforeDecoding
  <2> QED
    BY <1>1, <2>1, <2>2, AdvanceStep, Zenon
<1> QED
  BY <1>2, <1>3, Zenon

LEMMA RequestRateStep ==
    ASSUME ProxyInv, NEW c \in Clients, RequestRate(c), UNCHANGED streamVars, UNCHANGED main
    PROVE  Preserved(c)
<1>1. /\ Uncounted /\ pc[c] \in BeforeDecoding \ {"idle"}
      /\ UNCHANGED <<producerVars, req, answer, count>>
  BY RateLimitUncounted, Zenon DEF RequestRate, BeforeDecoding
<1>2. CASE WriteAPIError(c, 429)
  BY <1>1, <1>2, RefusalStep DEF Refusals
<1>3. CASE /\ Goto(c, IF req[c].route = "stream" THEN "read" ELSE "body")
           /\ UNCHANGED <<status, sent, metrics>>
  <2>1. "read" \in (BeforeDecoding \ {"idle"}) \cup {"read"}
        /\ "body" \in (BeforeDecoding \ {"idle"}) \cup {"read"}
    BY Zenon DEF BeforeDecoding
  <2>2. UNCHANGED <<producerVars, req, status, sent, answer, count>> /\ metrics' = metrics
    BY <1>1, <1>3, Zenon
  <2>3. CASE req[c].route = "stream"
    BY <1>1, <1>3, <2>1, <2>2, <2>3, AdvanceStep, Zenon
  <2>4. CASE req[c].route # "stream"
    BY <1>1, <1>3, <2>1, <2>2, <2>4, AdvanceStep, Zenon
  <2> QED
    BY <2>3, <2>4, Zenon
<1> QED
  BY <1>2, <1>3, Zenon DEF RequestRate

LEMMA ReadBodyStep ==
    ASSUME ProxyInv, NEW c \in Clients, ReadBody(c), UNCHANGED streamVars, UNCHANGED main
    PROVE  Preserved(c)
<1>1. /\ Uncounted /\ pc[c] \in BeforeDecoding \ {"idle"} /\ pc[c] = "body"
      /\ UNCHANGED <<producerVars, req, answer, count>> /\ metrics' = metrics
  BY RateLimitUncounted, Zenon DEF ReadBody, BeforeDecoding
<1>2. \/ WriteAPIError(c, 413) \/ WriteAPIError(c, 400)
      \/ Goto(c, "byteRate") /\ UNCHANGED <<status, sent>>
  BY Zenon DEF ReadBody
<1>3. CASE WriteAPIError(c, 413) \/ WriteAPIError(c, 400)
  BY <1>1, <1>3, RefusalStep DEF Refusals
<1>4. CASE Goto(c, "byteRate") /\ UNCHANGED <<status, sent>>
  <2>1. "byteRate" \in (BeforeDecoding \ {"idle"}) \cup {"read"} /\ req[c].route # "stream"
    BY <1>1, Zenon DEF BeforeDecoding, ProxyInv, RequestInv, PhaseInv
  <2>2. UNCHANGED <<producerVars, req, status, sent, answer, count>>
    BY <1>1, <1>4, Zenon
  <2> QED
    BY <1>1, <1>4, <2>1, <2>2, AdvanceStep, Zenon
<1> QED
  BY <1>2, <1>3, <1>4

LEMMA ByteRateStep ==
    ASSUME ProxyInv, NEW c \in Clients, ByteRate(c), UNCHANGED streamVars, UNCHANGED main
    PROVE  Preserved(c)
<1>1. /\ Uncounted /\ pc[c] \in BeforeDecoding \ {"idle"} /\ pc[c] = "byteRate"
      /\ UNCHANGED <<producerVars, req, answer, count>>
  BY RateLimitUncounted, Zenon DEF ByteRate, BeforeDecoding
<1>2. CASE WriteAPIError(c, 429)
  BY <1>1, <1>2, RefusalStep DEF Refusals
<1>3. CASE Goto(c, "decode") /\ UNCHANGED <<status, sent, metrics>>
  <2>1. "decode" \in (BeforeDecoding \ {"idle"}) \cup {"read"} /\ req[c].route # "stream"
    BY <1>1, Zenon DEF BeforeDecoding, ProxyInv, RequestInv, PhaseInv
  <2>2. UNCHANGED <<producerVars, req, status, sent, answer, count>> /\ metrics' = metrics
    BY <1>1, <1>3, ZenonT(60)
  <2> QED
    BY <1>1, <1>3, <2>1, <2>2, AdvanceStep, Zenon
<1> QED
  BY <1>2, <1>3, Zenon DEF ByteRate

\* A request that is over stays as it is.
LEMMA WholeStays ==
    ASSUME NEW c \in Clients, WholeInv(c), req' = req, pc[c] \in Over, pc'[c] \notin Calling,
           sent'[c] = sent[c], answer'[c] = answer[c], submitted'[c] = submitted[c]
    PROVE  WholeInv(c)'
<1>0. Items(c)' = Items(c)
  BY Zenon DEF Items
<1>1. sent'[c] >= 400 /\ sent'[c] # TimeoutStatus(req'[c].route) => submitted'[c] = {}
  BY SMTT(30), ZenonT(60) DEF WholeInv
<1>2. ASSUME sent'[c] < 400, req'[c].route = "v2"
      PROVE  /\ Len(answer'[c]) = Len(req'[c].items)
             /\ \A k \in DOMAIN answer'[c] : answer'[c][k].index = k
  BY <1>2, SMTT(30), ZenonT(60) DEF WholeInv
<1>3. ASSUME sent'[c] < 400, req'[c].route = "batch"
      PROVE  /\ Len(answer'[c]) = Len(req'[c].items)
             /\ \A k \in DOMAIN answer'[c] : answer'[c][k].index \in Items(c)'
             /\ \A i \in Items(c)' : \E k \in DOMAIN answer'[c] : answer'[c][k].index = i
  BY <1>0, <1>3, SMTT(30), ZenonT(60) DEF WholeInv
<1>4. req'[c].route = "batch" =>
         \A i \in submitted'[c] : i \in Items(c)' /\ ~Invalid(req'[c].items, i)
  BY <1>0, SMTT(30), ZenonT(60) DEF WholeInv
<1> QED
  BY <1>1, <1>2, <1>3, <1>4, SMTT(30), ZenonT(60) DEF WholeInv

LEMMA StreamStays ==
    ASSUME NEW c \in Clients, StreamInv(c), req' = req, pc[c] \in Over, pc'[c] \in Over,
           pc'[c] \notin Streaming \cup Calling, pc'[c] \notin {"read", "streamRate"},
           sent'[c] = sent[c], status'[c] = status[c], answer'[c] = answer[c],
           submitted'[c] = submitted[c], pos'[c] = pos[c], wrote'[c] = wrote[c]
    PROVE  StreamInv(c)'
<1>1. /\ pc'[c] \notin Streaming /\ pc'[c] \notin Calling
      /\ pc'[c] # "read" /\ pc'[c] # "streamRate"
  BY Zenon
<1>2. /\ wrote[c] <=> answer[c] # <<>>
      /\ wrote[c] => status[c] = 200 /\ sent[c] = 200
      /\ ~wrote[c] => sent[c] >= 400
      /\ \A k \in DOMAIN answer[c] : answer[c][k].index = k
      /\ pos[c] <= Len(req[c].items)
      /\ wrote[c] => submitted[c] \subseteq 1..Len(answer[c])
      /\ ~wrote[c] /\ sent[c] # 504 => submitted[c] = {}
  BY SMTT(30), ZenonT(60) DEF StreamInv
<1> QED
  BY <1>1, <1>2, ZenonT(60) DEF StreamInv

LEMMA DoneKeeps ==
    ASSUME NEW c \in Clients, RequestInv(c), req' = req, closeFlag' = closeFlag,
           pc[c] = "finish", pc'[c] = "done", status'[c] = status[c], sent'[c] = sent[c], Unmoved(c)
    PROVE  RequestInv(c)'
<1> USE DEF Unmoved
<1>1. pc[c] \in Over /\ pc'[c] \in Over /\ pc'[c] \notin BeforeDecoding \cup Streaming \cup Calling
  BY Zenon DEF Over, BeforeDecoding, Streaming, Calling
<1>2. PhaseInv(c)'
  <2>1. sent[c] \in {200, 207} \cup Refusals
    BY Zenon DEF RequestInv, PhaseInv
  <2>2. sent'[c] \in {200, 207, 401} \cup Refusals
    BY <2>1, SMTT(30), ZenonT(60)
  <2>3. pc'[c] \notin {"body", "byteRate", "decode"} /\ pc'[c] # "finish"
    BY Zenon
  <2> QED
    BY <1>1, <2>2, <2>3, ZenonT(60) DEF PhaseInv
<1>3. (DOMAIN outcome[c] = Items(c))' /\ (ret[c].err = "closed" => closeFlag)'
  BY Zenon DEF RequestInv, Items
<1>4. (req[c].route # "stream" => WholeInv(c))'
  <2>1. req[c].route # "stream" => WholeInv(c)
    BY Zenon DEF RequestInv
  <2> QED
    BY <1>1, <2>1, WholeStays, Zenon
<1>5. (req[c].route = "stream" => StreamInv(c))'
  <2>1. req[c].route = "stream" => StreamInv(c)
    BY Zenon DEF RequestInv
  <2>2. pc'[c] \notin {"read", "streamRate"}
    BY Zenon
  <2> QED
    BY <1>1, <2>1, <2>2, StreamStays, Zenon
<1>6. TruthInv(c)'
  BY Zenon DEF RequestInv, TruthInv
<1> QED
  BY <1>1, <1>2, <1>3, <1>4, <1>5, <1>6, Zenon DEF RequestInv

\* The deferred calls: the request leaves the gauge and enters a class.
LEMMA FinishStep ==
    ASSUME ProxyInv, NEW c \in Clients, Finish(c), UNCHANGED streamVars, UNCHANGED main
    PROVE  Preserved(c)
<1> USE DEF ProxyInv, Finish, Goto, producerVars, streamVars
<1>1. /\ status[c] = sent[c] /\ sent[c] \in {200, 207} \cup Refusals
      /\ RequestInv(c) /\ count[c] \in Nat /\ metrics \in Counters
  BY SMTT(30), ZenonT(60) DEF RequestInv, PhaseInv, ProxyTypeOK
<1>2. /\ metrics' \in Counters /\ metrics'.produced = metrics.produced
      /\ metrics'.outstanding = metrics.outstanding - 1
      /\ \A class \in 2..5 : metrics'.requests[class] =
            metrics.requests[class] + (IF class = StatusClass(sent[c]) THEN 1 ELSE 0)
  <2>1. metrics' = DecOutstanding(ObserveRequest(metrics, sent[c], count[c]))
    BY <1>1, Zenon
  <2>2. LET n == DecOutstanding(ObserveRequest(metrics, sent[c], count[c])) IN
        /\ n \in Counters /\ n.produced = metrics.produced
        /\ n.outstanding = metrics.outstanding - 1
        /\ \A class \in 2..5 : n.requests[class] =
              metrics.requests[class] + (IF class = StatusClass(sent[c]) THEN 1 ELSE 0)
    BY <1>1, MetricsFacts, Zenon
  <2> QED
    BY <2>1, <2>2, Zenon
<1>3. ProxyTypeOK'
  BY <1>2, Zenon DEF ProxyTypeOK, Stages, Over
<1>4. /\ Others(c) /\ Unmoved(c) /\ pc'[c] = "done" /\ sent'[c] = sent[c] /\ status'[c] = status[c]
      /\ answer'[c] = answer[c]
  BY Zenon DEF ProxyTypeOK, Others, Same, Unmoved
<1>5. RequestInv(c)'
  BY <1>1, <1>4, DoneKeeps, Zenon
<1>6. ObservedWhatWasSent'
  <2>1. pc[c] = "finish" /\ ObservedWhatWasSent
    BY Zenon
  <2> HIDE DEF ProxyInv, Finish, Goto, producerVars, streamVars
  <2>2. sent[c] # 401
    BY <1>1 DEF Refusals
  <2> QED
    BY <1>2, <1>4, <2>2, <2>1, ObservedFinish, ZenonT(30)
<1>7. ProducedIsReported'
  <2>1. \A i \in Nat : Reported(c, i)' <=> Reported(c, i)
    BY <1>4, Zenon DEF Reported
  <2> QED
    BY <1>2, <1>4, <2>1, ReportedKept, Zenon
<1> QED
  BY <1>3, <1>4, <1>5, <1>6, <1>7, Zenon DEF Preserved

-----------------------------------------------------------------------------
(* The decoders of the routes that read the body as a whole. *)

\* What a status of the v2 decoder says.
LEMMA V2Statuses ==
    ASSUME NEW c \in Clients
    PROVE  V2DecodeStatus(c) # 200 => V2DecodeStatus(c) \in Refusals
BY DEF V2DecodeStatus, Refusals

LEMMA V2Accepted ==
    ASSUME NEW c \in Clients, V2DecodeStatus(c) = 200
    PROVE  req[c].items # <<>> /\ ~(Len(req[c].items) > RequestMaxRecords)
BY DEF V2DecodeStatus

LEMMA V2DecodeStep ==
    ASSUME ProxyInv, NEW c \in Clients, V2Decode(c), UNCHANGED streamVars, UNCHANGED main
    PROVE  Preserved(c)
<1>1. /\ Uncounted /\ pc[c] \in BeforeDecoding \ {"idle"} /\ pc[c] = "decode"
      /\ req[c].route = "v2" /\ metrics' = metrics
  BY RateLimitUncounted, Zenon DEF V2Decode, BeforeDecoding
<1>2. CASE V2DecodeStatus(c) # 200
  <2>1. V2DecodeStatus(c) \in Refusals
    BY <1>2, V2Statuses, Zenon
  <2>2. /\ WriteAPIError(c, V2DecodeStatus(c))
        /\ UNCHANGED <<producerVars, req, answer, count>>
    BY <1>2, Zenon DEF V2Decode, producerVars
  <2> QED
    BY <1>1, <2>1, <2>2, RefusalStep, ZenonT(30)
<1>3. CASE V2DecodeStatus(c) = 200
  <2> DEFINE id == [i \in Items(c) |-> i]
  <2>0. ProxyTypeOK /\ RequestInv(c) /\ Untouched(c)
    <3>1. ProxyTypeOK /\ RequestInv(c)
      BY Zenon DEF ProxyInv
    <3>2. PhaseInv(c)
      BY <3>1, Zenon DEF RequestInv
    <3> QED
      BY <1>1, <3>1, <3>2, Zenon DEF PhaseInv
  <2>1. /\ Len(req[c].items) \in Nat /\ Items(c) = 1..Len(req[c].items)
        /\ Len(req[c].items) # 0 /\ Len(req[c].items) <= RequestMaxRecords
    <3>1. /\ req[c].items \in ItemLists
          /\ Len(req[c].items) \in Nat /\ Items(c) = 1..Len(req[c].items)
      BY <2>0, RequestFacts, Zenon
    <3>2. req[c].items # <<>> /\ ~(Len(req[c].items) > RequestMaxRecords)
      BY <1>3, V2Accepted, SMTT(30), ZenonT(60)
    <3> QED
      BY <3>1, <3>2, TrafficAssumption DEF ItemLists
  <2>2. id \in Seq(Nat) /\ id # <<>> /\ DOMAIN id = Items(c)
    <3>1. DOMAIN id = 1..Len(req[c].items) /\ \A i \in 1..Len(req[c].items) : id[i] \in Nat
      BY <2>1
    <3>2. id \in Seq(Nat) /\ 1 \in DOMAIN id
      BY <2>1, <3>1
    <3> QED
      BY <2>1, <3>1, <3>2
  <2>3. /\ arg' = [arg EXCEPT ![c] = id]
        /\ count' = [count EXCEPT ![c] = Len(req[c].items)]
        /\ pc' = [pc EXCEPT ![c] = "produce"]
        /\ UNCHANGED <<status, sent, req, answer, ret, outcome, submitted, closeFlag, metrics, pos, wrote, main>>
    BY <1>3, Zenon DEF V2Decode, Goto, streamVars, Items
  <2>4. ProxyTypeOK'
    BY <2>0, <2>1, <2>2, <2>3, Zenon DEF ProxyTypeOK, Stages, Calling
  <2>5. /\ Others(c) /\ pc'[c] = "produce" /\ arg'[c] = id /\ status'[c] = status[c]
        /\ sent'[c] = sent[c] /\ answer'[c] = answer[c] /\ count'[c] = Len(req[c].items)
        /\ ret'[c] = ret[c] /\ outcome'[c] = outcome[c] /\ submitted'[c] = submitted[c]
        /\ pos'[c] = pos[c] /\ wrote'[c] = wrote[c] /\ req' = req /\ closeFlag' = closeFlag
    BY <2>0, <2>3, Zenon DEF ProxyTypeOK, Others, Same
  <2>6. RequestInv(c)'
    <3>1. pc'[c] \notin BeforeDecoding \cup Streaming \cup Over
      BY <2>5, Zenon DEF BeforeDecoding, Streaming, Over
    <3>2. PhaseInv(c)'
      BY <2>5, <3>1, Zenon DEF PhaseInv, BeforeDecoding, Over
    <3>3. (DOMAIN outcome[c] = Items(c))' /\ (ret[c].err = "closed" => closeFlag)'
      BY <2>0, <2>5, ZenonT(30) DEF RequestInv, Items
    <3>4. CallInv(c)'
      <4>1. /\ \A k \in DOMAIN id : id[k] = k
            /\ \A k \in Items(c) : k <= RequestMaxRecords
        BY <2>1, TrafficAssumption
      <4>2. submitted'[c] = {} /\ (Items(c))' = Items(c) /\ req'[c].route = "v2"
        BY <1>1, <2>0, <2>5, Zenon DEF Untouched, Items
      <4>3. arg'[c] = [i \in Items(c) |-> i] /\ pc'[c] # "returned"
        BY <2>5, Zenon
      <4> HIDE DEF id
      <4>4. /\ arg'[c] # <<>>
            /\ \A k \in DOMAIN arg'[c] : arg'[c][k] = k /\ k \in Items(c) /\ k <= RequestMaxRecords
        BY <2>2, <2>5, <4>1, Zenon
      <4>5. \A j, k \in DOMAIN arg'[c] : arg'[c][j] = arg'[c][k] => j = k
        BY <4>4, Zenon
      <4> QED
        BY <4>2, <4>3, <4>4, <4>5, Zenon DEF CallInv
    <3>5. WholeInv(c)'
      BY <1>1, <2>0, <2>5, <3>1, Zenon DEF WholeInv, Untouched
    <3>6. TruthInv(c)'
      <4>1. answer'[c] = <<>>
        BY <2>0, <2>5, Zenon DEF Untouched
      <4>2. DOMAIN answer'[c] = {}
        BY <4>1
      <4> QED
        BY <4>2, Zenon DEF TruthInv
    <3> QED
      BY <1>1, <2>5, <3>2, <3>3, <3>4, <3>5, <3>6, Zenon DEF RequestInv
  <2>7. ObservedWhatWasSent' /\ ProducedIsReported'
    BY <1>1, <2>5, CountersKept, Zenon DEF Uncounted, ProxyInv
  <2> QED
    BY <2>4, <2>5, <2>6, <2>7, Zenon DEF Preserved
<1> QED
  BY <1>2, <1>3, Zenon

\* The entries that a batch response reports without having produced them.
LEMMA InvalidEntriesFacts ==
    ASSUME NEW items, Len(items) \in Nat, DOMAIN items = 1..Len(items)
    PROVE  /\ InvalidEntries(items) \in Seq(AnswerEntries)
           /\ Len(InvalidEntries(items)) = Len(Refused(items))
           /\ \A k \in DOMAIN InvalidEntries(items) :
                 InvalidEntries(items)[k] = Entry(Refused(items)[k], "invalid")
<1>1. Refused(items) \in Seq(DOMAIN items)
  BY BatchSplit, Zenon
<1>2. DOMAIN items \in SUBSET Nat
  OBVIOUS
<1>3. \A k \in DOMAIN Refused(items) : Entry(Refused(items)[k], "invalid") \in AnswerEntries
  BY <1>1, <1>2 DEF Entry, AnswerEntries, Verdicts
<1>4. DOMAIN Refused(items) = 1..Len(Refused(items)) /\ Len(Refused(items)) \in Nat
  BY <1>1
<1> QED
  BY <1>3, <1>4 DEF InvalidEntries

\* The entries that carry results.
LEMMA EntriesFacts ==
    ASSUME NEW indexes \in Seq(Nat), NEW results \in Seq(Results), Len(results) = Len(indexes)
    PROVE  /\ Entries(indexes, results) \in Seq(AnswerEntries)
           /\ Len(Entries(indexes, results)) = Len(indexes)
           /\ \A k \in DOMAIN indexes : Entries(indexes, results)[k] = Entry(indexes[k], results[k])
<1>1. DOMAIN results = 1..Len(indexes) /\ DOMAIN indexes = 1..Len(indexes) /\ Len(indexes) \in Nat
  OBVIOUS
<1>2. \A k \in DOMAIN results : Entry(indexes[k], results[k]) \in AnswerEntries
  BY <1>1 DEF Entry, AnswerEntries, Verdicts, Results
<1> QED
  BY <1>1, <1>2 DEF Entries

\* One list after the other.
LEMMA ConcatFacts ==
    ASSUME NEW a \in Seq(AnswerEntries), NEW b \in Seq(AnswerEntries)
    PROVE  /\ a \o b \in Seq(AnswerEntries) /\ Len(a \o b) = Len(a) + Len(b)
           /\ \A k \in DOMAIN (a \o b) : \/ \E j \in 1..Len(a) : (a \o b)[k] = a[j]
                                         \/ \E j \in 1..Len(b) : (a \o b)[k] = b[j]
           /\ \A j \in 1..Len(a) : \E k \in DOMAIN (a \o b) : (a \o b)[k] = a[j]
           /\ \A j \in 1..Len(b) : \E k \in DOMAIN (a \o b) : (a \o b)[k] = b[j]
<1> DEFINE ans == a \o b
<1>1. /\ ans \in Seq(AnswerEntries) /\ Len(ans) = Len(a) + Len(b)
      /\ \A i \in 1..(Len(a) + Len(b)) : ans[i] = IF i <= Len(a) THEN a[i] ELSE b[i - Len(a)]
  OBVIOUS
<1> HIDE DEF ans
<1>2. Len(a) \in Nat /\ Len(b) \in Nat /\ DOMAIN ans = 1..(Len(a) + Len(b))
  BY <1>1
<1>3. ASSUME NEW k \in DOMAIN ans
      PROVE  \/ \E j \in 1..Len(a) : ans[k] = a[j]
             \/ \E j \in 1..Len(b) : ans[k] = b[j]
  <2>0. k \in Nat /\ 1 <= k /\ k <= Len(a) + Len(b)
    BY <1>2
  <2>1. CASE k <= Len(a)
    <3>1. k \in 1..Len(a) /\ ans[k] = a[k]
      BY <1>1, <1>2, <2>0, <2>1
    <3> QED
      BY <3>1, Zenon
  <2>2. CASE ~(k <= Len(a))
    <3>1. k - Len(a) \in 1..Len(b) /\ ans[k] = b[k - Len(a)]
      BY <1>1, <1>2, <2>0, <2>2
    <3> QED
      BY <3>1, Zenon
  <2> QED
    BY <2>1, <2>2, Zenon
<1>4. ASSUME NEW j \in 1..Len(a) PROVE \E k \in DOMAIN ans : ans[k] = a[j]
  <2>1. j \in DOMAIN ans /\ ans[j] = a[j]
    BY <1>1, <1>2
  <2> QED
    BY <2>1, Zenon
<1>5. ASSUME NEW j \in 1..Len(b) PROVE \E k \in DOMAIN ans : ans[k] = b[j]
  <2>1. Len(a) + j \in DOMAIN ans /\ ~(Len(a) + j <= Len(a)) /\ (Len(a) + j) - Len(a) = j
    BY <1>2
  <2>2. ans[Len(a) + j] = b[j]
    BY <1>1, <1>2, <2>1, Zenon
  <2> QED
    BY <2>1, <2>2, Zenon
<1> QED
  BY <1>1, <1>3, <1>4, <1>5, Zenon DEF ans

(***************************************************************************)
(* A batch response has one entry for each entry of the request: a refusal *)
(* for each invalid one, and its result for each of the others.            *)
(***************************************************************************)
Joined(items, results) == InvalidEntries(items) \o Entries(Envelopes(items), results)

LEMMA BatchAnswer ==
    ASSUME NEW items \in ItemLists, NEW results \in Seq(Results),
           Len(results) = Len(Envelopes(items))
    PROVE  LET ans == Joined(items, results) IN
           /\ ans \in Seq(AnswerEntries) /\ Len(ans) = Len(items)
           /\ \A k \in DOMAIN ans : ans[k].index \in DOMAIN items
           /\ \A i \in DOMAIN items : \E k \in DOMAIN ans : ans[k].index = i
           /\ \A k \in DOMAIN ans :
                 \/ ans[k].verdict = "invalid" /\ Invalid(items, ans[k].index)
                 \/ \E j \in DOMAIN results : ans[k] = Entry(Envelopes(items)[j], results[j])
           /\ \A j \in DOMAIN results : \E k \in DOMAIN ans :
                 ans[k] = Entry(Envelopes(items)[j], results[j])
<1> DEFINE ans == Joined(items, results)
<1> HIDE DEF ans
<1>i. Len(items) \in Nat /\ DOMAIN items = 1..Len(items)
  BY DEF ItemLists
<1>0. /\ Envelopes(items) \in Seq(DOMAIN items) /\ Refused(items) \in Seq(DOMAIN items)
      /\ \A k \in DOMAIN Refused(items) : Invalid(items, Refused(items)[k])
      /\ \A i \in DOMAIN items : ~Invalid(items, i) =>
            \E k \in DOMAIN Envelopes(items) : Envelopes(items)[k] = i
      /\ \A i \in DOMAIN items : Invalid(items, i) =>
            \E k \in DOMAIN Refused(items) : Refused(items)[k] = i
      /\ Len(Refused(items)) + Len(Envelopes(items)) = Len(items)
  BY <1>i, BatchSplit, Zenon
<1> DEFINE env == Envelopes(items)
           ref == Refused(items)
           a == InvalidEntries(items)
           b == Entries(env, results)
<1>1. /\ env \in Seq(DOMAIN items) /\ ref \in Seq(DOMAIN items)
      /\ \A k \in DOMAIN ref : Invalid(items, ref[k])
      /\ \A i \in DOMAIN items : ~Invalid(items, i) => \E k \in DOMAIN env : env[k] = i
      /\ \A i \in DOMAIN items : Invalid(items, i) => \E k \in DOMAIN ref : ref[k] = i
      /\ Len(ref) + Len(env) = Len(items)
  BY <1>0, Zenon
<1>2. env \in Seq(Nat) /\ DOMAIN items \in SUBSET Nat
  BY <1>1, <1>i
<1>3. /\ a \in Seq(AnswerEntries) /\ Len(a) = Len(ref)
      /\ \A k \in DOMAIN a : a[k] = Entry(ref[k], "invalid")
  BY <1>i, InvalidEntriesFacts, Zenon
<1>4. /\ b \in Seq(AnswerEntries) /\ Len(b) = Len(env)
      /\ \A k \in DOMAIN env : b[k] = Entry(env[k], results[k])
  BY <1>2, EntriesFacts, Zenon
<1>5. /\ Len(a) \in Nat /\ Len(b) \in Nat /\ DOMAIN a = 1..Len(a) /\ DOMAIN b = 1..Len(b)
      /\ DOMAIN ref = 1..Len(a) /\ DOMAIN env = 1..Len(b) /\ DOMAIN results = 1..Len(b)
  BY <1>1, <1>3, <1>4
<1>6. \A j \in 1..Len(a) : a[j] = Entry(ref[j], "invalid") /\ ref[j] \in DOMAIN items
  <2>1. \A j \in 1..Len(a) : ref[j] \in DOMAIN items
    BY <1>1, <1>5, <1>i
  <2> QED
    BY <1>3, <1>5, <2>1, Zenon
<1> HIDE DEF env, ref, a, b
<1>7. \A j \in 1..Len(b) : b[j] = Entry(env[j], results[j]) /\ env[j] \in DOMAIN items
  <2>1. \A j \in 1..Len(b) : env[j] \in DOMAIN items
    BY <1>1, <1>5, <1>i
  <2> QED
    BY <1>4, <1>5, <2>1, Zenon
<1>8. /\ ans \in Seq(AnswerEntries) /\ Len(ans) = Len(a) + Len(b)
      /\ \A k \in DOMAIN ans : \/ \E j \in 1..Len(a) : ans[k] = a[j]
                               \/ \E j \in 1..Len(b) : ans[k] = b[j]
      /\ \A j \in 1..Len(a) : \E k \in DOMAIN ans : ans[k] = a[j]
      /\ \A j \in 1..Len(b) : \E k \in DOMAIN ans : ans[k] = b[j]
  <2>1. ans = a \o b
    BY Zenon DEF a, b, env, ans, Joined
  <2>2. a \in Seq(AnswerEntries) /\ b \in Seq(AnswerEntries)
    BY <1>3, <1>4, Zenon
  <2>3. /\ a \o b \in Seq(AnswerEntries) /\ Len(a \o b) = Len(a) + Len(b)
        /\ \A k \in DOMAIN (a \o b) : \/ \E j \in 1..Len(a) : (a \o b)[k] = a[j]
                                      \/ \E j \in 1..Len(b) : (a \o b)[k] = b[j]
        /\ \A j \in 1..Len(a) : \E k \in DOMAIN (a \o b) : (a \o b)[k] = a[j]
        /\ \A j \in 1..Len(b) : \E k \in DOMAIN (a \o b) : (a \o b)[k] = b[j]
    BY <2>2, ConcatFacts, Zenon
  <2> QED
    BY <2>1, <2>3, Zenon
<1>9. ASSUME NEW k \in DOMAIN ans
      PROVE  /\ \/ ans[k].verdict = "invalid" /\ Invalid(items, ans[k].index)
                \/ \E j \in DOMAIN results : ans[k] = Entry(env[j], results[j])
             /\ ans[k].index \in DOMAIN items
  <2>1. CASE \E j \in 1..Len(a) : ans[k] = a[j]
    <3>1. PICK j \in 1..Len(a) : ans[k] = Entry(ref[j], "invalid") /\ ref[j] \in DOMAIN items
      BY <1>6, <2>1, Zenon
    <3>2. ans[k].verdict = "invalid" /\ ans[k].index = ref[j]
      BY <3>1 DEF Entry
    <3> QED
      BY <1>1, <1>5, <3>1, <3>2, Zenon
  <2>2. CASE \E j \in 1..Len(b) : ans[k] = b[j]
    <3>1. PICK j \in 1..Len(b) : ans[k] = Entry(env[j], results[j]) /\ env[j] \in DOMAIN items
      BY <1>7, <2>2, Zenon
    <3>2. ans[k].index = env[j]
      BY <3>1 DEF Entry
    <3> QED
      BY <1>5, <3>1, <3>2, Zenon
  <2> QED
    BY <1>8, <2>1, <2>2, Zenon
<1>10. \A j \in DOMAIN results : \E k \in DOMAIN ans : ans[k] = Entry(env[j], results[j])
  <2> TAKE j \in DOMAIN results
  <2>1. j \in 1..Len(b)
    BY <1>5, Zenon
  <2>2. PICK k \in DOMAIN ans : ans[k] = b[j]
    BY <1>8, <2>1, Zenon
  <2>3. b[j] = Entry(env[j], results[j])
    BY <1>7, <2>1, Zenon
  <2> QED
    BY <2>2, <2>3, Zenon
<1>11. ASSUME NEW i \in DOMAIN items PROVE \E k \in DOMAIN ans : ans[k].index = i
  <2>1. CASE Invalid(items, i)
    <3>1. PICK j \in 1..Len(a) : ref[j] = i
      BY <1>1, <1>5, <2>1, Zenon
    <3>2. PICK k \in DOMAIN ans : ans[k] = a[j]
      BY <1>8, Zenon
    <3>3. ans[k] = Entry(i, "invalid")
      BY <1>6, <3>1, <3>2, Zenon
    <3> QED
      BY <3>3 DEF Entry
  <2>2. CASE ~Invalid(items, i)
    <3>1. PICK j \in 1..Len(b) : env[j] = i
      BY <1>1, <1>5, <2>2, Zenon
    <3>2. PICK k \in DOMAIN ans : ans[k] = b[j]
      BY <1>8, Zenon
    <3>3. ans[k] = Entry(i, results[j])
      BY <1>7, <3>1, <3>2, Zenon
    <3> QED
      BY <3>3 DEF Entry
  <2> QED
    BY <2>1, <2>2, Zenon
<1> QED
  BY <1>1, <1>3, <1>4, <1>8, <1>9, <1>10, <1>11, Zenon DEF env, ans

-----------------------------------------------------------------------------
(* The counter of acknowledged records. *)

Quiet(c) == \A i \in Nat : Reported(c, i)' <=> Reported(c, i)

\* What AckInv says of the reports.
Founded(c) == \A i \in Nat : Reported(c, i) => i \in Items(c) /\ i \notin GivenUp(c)

LEMMA FoundedFromAck ==
    ASSUME NEW c \in Clients, AckInv(c)
    PROVE  Founded(c)
<1>1. ASSUME NEW i \in Nat, NEW k \in DOMAIN answer[c], answer[c][k] = Entry(i, "ok")
      PROVE  i \in Items(c) /\ i \notin GivenUp(c)
  <2>1. answer[c][k].verdict = "ok" /\ answer[c][k].index = i
    BY <1>1 DEF Entry
  <2> QED
    BY <2>1, Zenon DEF AckInv
<1> QED
  BY <1>1, Zenon DEF Founded, Reported

\* And from what follows AckInv, in the state after a step.
LEMMA AckNext ==
    ASSUME NEW c \in Clients, ProxyTypeOK', req' = req,
           \A i \in Nat : Reported(c, i)' => i \in Items(c) /\ i \notin GivenUp(c)',
           \A i \in Items(c) : outcome'[c][i] = "ok" =>
              Reported(c, i)' \/ AtHand(c, i)' \/ i \in GivenUp(c)',
           ret'[c].err = "ctxErr" => pc'[c] \in {"returned"} \cup Over
    PROVE  AckInv(c)'
<1>1. Items(c)' = Items(c)
  BY Zenon DEF Items
<1>2. answer'[c] \in Seq(AnswerEntries)
  BY Zenon DEF ProxyTypeOK
<1>3. ASSUME NEW k \in DOMAIN answer'[c], answer'[c][k].verdict = "ok"
      PROVE  answer'[c][k].index \in Items(c)' /\ answer'[c][k].index \notin GivenUp(c)'
  <2>1. answer'[c][k] \in AnswerEntries
    BY <1>2
  <2>2. answer'[c][k].index \in Nat /\ answer'[c][k] = Entry(answer'[c][k].index, "ok")
    BY <1>3, <2>1 DEF AnswerEntries, Entry
  <2>3. ASSUME NEW i \in Nat, answer'[c][k] = Entry(i, "ok")
        PROVE  i \in Items(c) /\ i \notin GivenUp(c)'
    BY <2>3, Zenon DEF Reported
  <2> QED
    BY <1>1, <2>2, <2>3, Zenon
<1> QED
  BY <1>1, <1>3, Zenon DEF AckInv

\* A step that neither hears from Kafka nor reports an acknowledgement.
LEMMA AckKept ==
    ASSUME ProxyInv, ProxyTypeOK', NEW c \in Clients, AckInv(c), req' = req,
           outcome'[c] = outcome[c], GivenUp(c)' = GivenUp(c), Quiet(c),
           ~(pc[c] = "returned" /\ ret[c].err = "nil"),
           ret'[c].err = "ctxErr" => pc'[c] \in {"returned"} \cup Over
    PROVE  AckInv(c)'
<1>1. Founded(c)
  BY FoundedFromAck, Zenon
<1>2. \A i \in Items(c) : i \in Nat
  BY RequestFacts DEF ProxyInv
<1>3. \A i \in Nat : Reported(c, i)' => i \in Items(c) /\ i \notin GivenUp(c)'
  BY <1>1, Zenon DEF Founded, Quiet
<1>4. \A i \in Items(c) : outcome'[c][i] = "ok" => Reported(c, i)' \/ i \in GivenUp(c)'
  BY <1>2, Zenon DEF AckInv, AtHand, Quiet
<1> QED
  BY <1>3, <1>4, AckNext, Zenon

LEMMA AckOthers ==
    ASSUME NEW d \in Clients, Same(d), req' = req, AckInv(d)
    PROVE  AckInv(d)'
<1>1. /\ Items(d)' = Items(d) /\ GivenUp(d)' = GivenUp(d)
      /\ \A i : (Reported(d, i)' <=> Reported(d, i)) /\ (AtHand(d, i)' <=> AtHand(d, i))
  <2>1. Items(d)' = Items(d) /\ GivenUp(d)' = GivenUp(d) /\ Passed(d)' = Passed(d)
    BY Zenon DEF Same, Items, GivenUp, Passed
  <2>2. \A i : Reported(d, i)' <=> Reported(d, i)
    BY Zenon DEF Same, Reported
  <2>3. \A i : AtHand(d, i)' <=> AtHand(d, i)
    BY <2>1, Zenon DEF Same, AtHand
  <2> QED
    BY <2>1, <2>2, <2>3, Zenon
<1> QED
  BY <1>1, ZenonT(30) DEF Same, AckInv

\* A step that leaves the answer and the call alone.
LEMMA AckSilent ==
    ASSUME ProxyInv, ProxyTypeOK', NEW c \in Clients, AckInv(c),
           UNCHANGED <<req, answer, arg, ret, outcome>>,
           ~(pc[c] = "returned" /\ ret[c].err = "nil"),
           pc[c] \in {"returned"} \cup Over => pc'[c] \in Over
    PROVE  AckInv(c)'
<1>1. GivenUp(c)' = GivenUp(c) /\ Quiet(c)
  BY Zenon DEF GivenUp, Quiet, Reported
<1>2. ret'[c].err = "ctxErr" => pc'[c] \in {"returned"} \cup Over
  BY Zenon DEF AckInv
<1> QED
  BY <1>1, <1>2, AckKept, Zenon

\* A step of a handler that has not called Produce, or not again.
LEMMA AckBefore ==
    ASSUME ProxyInv, ProxyTypeOK', NEW c \in Clients, AckInv(c),
           pc[c] \in BeforeDecoding \cup Streaming \cup {"produce", "admit"},
           Quiet(c), UNCHANGED <<req, outcome>>, ret'[c] = ret[c] \/ ret'[c].err # "ctxErr"
    PROVE  AckInv(c)'
<1>1. pc[c] \notin {"returned"} \cup Over
  BY Zenon DEF BeforeDecoding, Streaming, Over
<1>2. ret[c].err # "ctxErr" /\ ret'[c].err # "ctxErr"
  BY <1>1, Zenon DEF AckInv
<1>3. GivenUp(c)' = GivenUp(c)
  BY <1>2, Zenon DEF GivenUp
<1> QED
  BY <1>1, <1>2, <1>3, AckKept, Zenon

\* While a call runs, nothing that it passes has been reported.
LEMMA PassedUnreported ==
    ASSUME ProxyInv, NEW c \in Clients, pc[c] \in Calling
    PROVE  \A i \in Passed(c) : ~Reported(c, i)
<1>1. ProxyTypeOK /\ RequestInv(c) /\ CallInv(c)
  BY Zenon DEF ProxyInv, RequestInv
<1>2. CASE req[c].route # "stream"
  <2>1. answer[c] = <<>>
    BY <1>1, <1>2, Zenon DEF RequestInv, WholeInv
  <2>2. DOMAIN answer[c] = {}
    BY <2>1
  <2> QED
    BY <2>2, Zenon DEF Reported
<1>3. CASE req[c].route = "stream"
  <2>1. StreamInv(c) /\ arg[c] = <<pos[c]>> /\ answer[c] \in Seq(AnswerEntries) /\ pos[c] \in Nat
    BY <1>1, <1>3, Zenon DEF RequestInv, CallInv, ProxyTypeOK
  <2>2. /\ Len(answer[c]) = pos[c] - 1
        /\ \A k \in DOMAIN answer[c] : answer[c][k].index = k
    BY <2>1, Zenon DEF StreamInv
  <2>3. Passed(c) = {pos[c]}
    BY <2>1, SMTT(30) DEF Passed
  <2>4. ASSUME NEW k \in DOMAIN answer[c] PROVE answer[c][k] # Entry(pos[c], "ok")
    <3>1. k # pos[c] /\ answer[c][k].index = k
      BY <2>1, <2>2
    <3> QED
      BY <3>1, SMTT(30) DEF Entry
  <2> QED
    BY <2>3, <2>4, Zenon DEF Reported
<1> QED
  BY <1>2, <1>3, Zenon

\* Kafka answers for the records of a call, in time or too late, or the call
\* gives up.
LEMMA AckCall ==
    ASSUME ProxyInv, ProxyTypeOK', NEW c \in Clients, AckInv(c),
           ProduceResults(c) \/ ProduceExpired(c) \/ AcknowledgedLate(c)
    PROVE  AckInv(c)'
<1>0. /\ Founded(c) /\ req' = req /\ arg' = arg /\ answer' = answer
      /\ \A i \in Items(c) : i \in Nat
  <2>1. \A i \in Items(c) : i \in Nat
    BY RequestFacts DEF ProxyInv
  <2> QED
    BY <2>1, FoundedFromAck, Zenon
       DEF ProduceResults, ProduceExpired, AcknowledgedLate, handlerVars
<1>1. Passed(c)' = Passed(c) /\ \A i : Reported(c, i)' <=> Reported(c, i)
  BY <1>0, Zenon DEF Passed, Reported
<1>2. pc \in [Clients -> Stages] /\ ret \in [Clients -> Returns] /\ outcome \in [Clients -> Seq(Outcomes)]
  BY Zenon DEF ProxyInv, ProxyTypeOK
<1>3. CASE ProduceResults(c)
  <2>1. /\ pc[c] = "waiting" /\ pc'[c] = "returned" /\ ret'[c].err = "nil"
    <3>1. PICK results : Return(c, "nil", results)
      BY <1>3, Zenon DEF ProduceResults
    <3> QED
      BY <1>2, <1>3, <3>1 DEF ProduceResults, Return, Goto
  <2>2. ASSUME NEW i \in Items(c), i \notin Passed(c) PROVE outcome'[c][i] = outcome[c][i]
    <3>1. PICK results : outcome' = [outcome EXCEPT ![c] =
                [j \in DOMAIN outcome[c] |-> IF \E k \in DOMAIN arg[c] : arg[c][k] = j
                                     THEN results[CHOOSE k \in DOMAIN arg[c] : arg[c][k] = j]
                                     ELSE outcome[c][j]]]
      BY <1>3, Zenon DEF ProduceResults
    <3>2. i \in DOMAIN outcome[c]
      BY Zenon DEF ProxyInv, RequestInv
    <3>3. ~ \E k \in DOMAIN arg[c] : arg[c][k] = i
      BY <2>2, Zenon DEF Passed
    <3> QED
      BY <1>2, <3>1, <3>2, <3>3, Zenon
  <2>3. GivenUp(c) = {} /\ GivenUp(c)' = {}
    <3>1. ret[c].err # "ctxErr"
      BY <2>1, Zenon DEF AckInv, Over
    <3> QED
      BY <2>1, <3>1 DEF GivenUp
  <2>4. ASSUME NEW i \in Items(c), outcome'[c][i] = "ok" PROVE Reported(c, i)' \/ AtHand(c, i)'
    <3>1. CASE i \in Passed(c)
      BY <1>1, <2>1, <3>1, Zenon DEF AtHand
    <3>2. CASE i \notin Passed(c)
      BY <1>1, <2>1, <2>2, <2>3, <2>4, <3>2, Zenon DEF AckInv, AtHand
    <3> QED
      BY <3>1, <3>2, Zenon
  <2> QED
    BY <1>0, <1>1, <2>1, <2>3, <2>4, AckNext, Zenon DEF Founded
<1>4. CASE ProduceExpired(c)
  <2>1. /\ pc[c] = "waiting" /\ pc[c] \in Calling /\ pc'[c] = "returned" /\ ret'[c].err = "ctxErr"
        /\ outcome' = outcome
    BY <1>2, <1>4 DEF ProduceExpired, Return, Goto, Calling
  <2>2. GivenUp(c) = {} /\ GivenUp(c)' = Passed(c)
    <3>1. ret[c].err # "ctxErr"
      BY <2>1, Zenon DEF AckInv, Over
    <3> QED
      BY <1>0, <2>1, <3>1 DEF GivenUp, Passed
  <2>3. \A i \in Passed(c) : ~Reported(c, i)
    BY <2>1, PassedUnreported, Zenon
  <2>4. \A i \in Items(c) : outcome'[c][i] = "ok" => Reported(c, i)'
    BY <1>1, <2>1, <2>2, Zenon DEF AckInv, AtHand
  <2>5. \A i \in Nat : Reported(c, i)' => i \in Items(c) /\ i \notin GivenUp(c)'
    BY <1>0, <1>1, <2>2, <2>3, Zenon DEF Founded
  <2> QED
    BY <1>0, <2>1, <2>4, <2>5, AckNext, Zenon
<1>5. CASE AcknowledgedLate(c)
  <2>1. UNCHANGED <<pc, ret>>
    BY <1>5, Zenon DEF AcknowledgedLate
  <2>2. PICK i \in GivenUp(c) : outcome' = [outcome EXCEPT ![c][i] = "ok"]
    BY <1>5, Zenon DEF AcknowledgedLate
  <2>3. GivenUp(c)' = GivenUp(c)
    BY <1>0, <2>1, Zenon DEF GivenUp
  <2>4. ret[c].err = "ctxErr"
    BY <2>2 DEF GivenUp
  <2>5. ASSUME NEW j \in Items(c), outcome'[c][j] = "ok"
        PROVE  Reported(c, j)' \/ j \in GivenUp(c)'
    <3>1. CASE j = i
      BY <2>2, <2>3, <3>1, Zenon
    <3>2. CASE j # i
      <4>1. outcome'[c][j] = outcome[c][j]
        BY <1>2, <2>2, <3>2, SMTT(30)
      <4> QED
        BY <1>1, <2>3, <2>4, <2>5, <4>1, Zenon DEF AckInv, AtHand
    <3> QED
      BY <3>1, <3>2, Zenon
  <2>6. ret'[c].err = "ctxErr" => pc'[c] \in {"returned"} \cup Over
    BY <2>1, Zenon DEF AckInv
  <2>7. \A k \in Nat : Reported(c, k)' => k \in Items(c) /\ k \notin GivenUp(c)'
    BY <1>0, <1>1, <2>3, Zenon DEF Founded
  <2> QED
    BY <1>0, <2>5, <2>6, <2>7, AckNext, Zenon
<1> QED
  BY <1>3, <1>4, <1>5, Zenon

=============================================================================
