---------------------------- MODULE CommandProofs ----------------------------
(***************************************************************************)
(* A run of a load generator counts every post and every record, never     *)
(* sends on a closed channel and keeps to its request limit, for any       *)
(* number of workers, any buffer and any scenario; the soak tool's exit    *)
(* code judges the measured run, whatever the warm-up did, for any         *)
(* thresholds; and the license bundle of a run that succeeded is that of   *)
(* the current modules, whatever earlier runs left, for any modules.       *)
(***************************************************************************)
EXTENDS SoakTool, LicenseBundle, CountingTheorems

Pcs == {"loop", "select", "post", "send", "gone"}
Sent == Answers \cup {NoAnswer}

LoadTypeOK ==
    /\ scenario \in Scenario
    /\ done \in BOOLEAN /\ closed \in BOOLEAN
    /\ started \in Nat /\ begun \in Nat
    /\ wpc \in [Workers -> Pcs]
    /\ held \in [Workers -> Sent]
    /\ results \in Seq(Sent)
    /\ totals.requests \in Nat /\ totals.succeeded \in Nat /\ totals.failed \in Nat
    /\ DOMAIN totals = DOMAIN NoTotals
    /\ ended \in [Answers -> Nat]

\* How many workers are at one of these points.
At(p, K) == Cardinality({w \in Workers : p[w] \in K})

Posting == {"post", "send"}
Sending == {"send"}
Admitted == {"select"}

(***************************************************************************)
(* Where every post is: with a worker, in the channel, or counted.         *)
(***************************************************************************)
CountInv ==
    /\ begun = totals.requests + Len(results) + At(wpc, Posting)
    /\ Weight(Answers, ended) = totals.requests + Len(results) + At(wpc, Sending)
    /\ totals.requests = totals.succeeded + totals.failed
    /\ collector = "summarized" => closed /\ results = <<>>

(***************************************************************************)
(* The counter of bench: a post begun or about to begin has drawn a number *)
(* up to the limit; as long as the timer has not fired every such number   *)
(* was used, and a client leaves only when they are drawn.                 *)
(***************************************************************************)
LimitInv ==
    Tool = "bench" /\ RequestLimit > 0 =>
        /\ begun + At(wpc, Admitted) <= started
        /\ begun + At(wpc, Admitted) <= RequestLimit
        /\ ~done => \/ begun + At(wpc, Admitted) = started
                    \/ begun + At(wpc, Admitted) = RequestLimit
        /\ ~done => \A w \in scenario.clients : wpc[w] = "gone" => started >= RequestLimit

LoadInvariant == LoadTypeOK /\ NoSendAfterClose /\ CountInv /\ LimitInv

-----------------------------------------------------------------------------
(***************************************************************************)
(* One worker moves: the number of those in K goes up, down, or stays.     *)
(***************************************************************************)
LEMMA AtType ==
    ASSUME NEW p, NEW K
    PROVE  At(p, K) \in Nat
<1>1. IsFiniteSet({w \in Workers : p[w] \in K})
  BY FS_Subset, LoadAssumption, Zenon
<1> QED
  BY <1>1, FS_CardinalityType, Zenon DEF At

\* A worker that enters K makes one more there.
LEMMA AtUp ==
    ASSUME NEW p, NEW q, NEW K, NEW w \in Workers, p[w] \notin K, q[w] \in K,
           \A v \in Workers \ {w} : q[v] = p[v]
    PROVE  At(q, K) = At(p, K) + 1
<1> DEFINE P == {v \in Workers : p[v] \in K}
<1>1. {v \in Workers : q[v] \in K} = P \cup {w} /\ w \notin P
  OBVIOUS
<1>2. IsFiniteSet(P)
  BY FS_Subset, LoadAssumption, Zenon
<1>3. Cardinality(P \cup {w}) = Cardinality(P) + 1
  BY <1>1, <1>2, FS_AddElement, Zenon
<1> QED
  BY <1>1, <1>3, Zenon DEF At

\* A worker that leaves K makes one less there.
LEMMA AtDown ==
    ASSUME NEW p, NEW q, NEW K, NEW w \in Workers, p[w] \in K, q[w] \notin K,
           \A v \in Workers \ {w} : q[v] = p[v]
    PROVE  At(q, K) = At(p, K) - 1
<1>1. At(p, K) = At(q, K) + 1
  BY AtUp, Zenon
<1> QED
  BY <1>1, AtType

\* A worker that neither enters nor leaves K does not change the count.
LEMMA AtSame ==
    ASSUME NEW p, NEW q, NEW K, NEW w \in Workers, p[w] \in K <=> q[w] \in K,
           \A v \in Workers \ {w} : q[v] = p[v]
    PROVE  At(q, K) = At(p, K)
<1>1. {v \in Workers : q[v] \in K} = {v \in Workers : p[v] \in K}
  OBVIOUS
<1> QED
  BY <1>1, Zenon DEF At

\* No worker in K counts zero.
LEMMA AtNone ==
    ASSUME NEW p, NEW K, \A w \in Workers : p[w] \notin K
    PROVE  At(p, K) = 0
<1>1. {w \in Workers : p[w] \in K} = {}
  BY Zenon
<1> QED
  BY <1>1, FS_EmptySet, Zenon DEF At

\* There are finitely many ways for a post to end.
LEMMA AnswersFinite == IsFiniteSet(Answers)
<1> DEFINE T == (Endings \X (0..MaxRecords)) \X Latencies
           f == [x \in T |-> [ending |-> x[1][1], bad |-> x[1][2], latency |-> x[2]]]
<1>1. f \in Surjection(T, Answers)
  <2>1. f \in [T -> Answers]
    BY Zenon DEF Answers
  <2>2. ASSUME NEW a \in Answers PROVE \E x \in T : f[x] = a
    <3>1. /\ a = [ending |-> a.ending, bad |-> a.bad, latency |-> a.latency]
          /\ a.ending \in Endings /\ a.bad \in 0..MaxRecords /\ a.latency \in Latencies
      BY Zenon DEF Answers
    <3>2. <<<<a.ending, a.bad>>, a.latency>> \in T
      BY <3>1, Zenon
    <3>3. f[<<<<a.ending, a.bad>>, a.latency>>] = a
      BY <3>1, <3>2, Zenon
    <3> QED
      BY <3>2, <3>3, Zenon
  <2> QED
    BY <2>1, <2>2, Zenon DEF Surjection
<1>2. IsFiniteSet(Endings)
  <2>1. /\ IsFiniteSet({"offsets"}) /\ IsFiniteSet({"badBody"})
        /\ IsFiniteSet({"badStatus"}) /\ IsFiniteSet({"noResponse"})
    BY FS_Singleton, Zenon
  <2>2. Endings = {"offsets"} \cup {"badBody"} \cup {"badStatus"} \cup {"noResponse"}
    BY Zenon DEF Endings
  <2> QED
    BY <2>1, <2>2, FS_Union, Zenon
<1>3. IsFiniteSet(0..MaxRecords)
  <2>1. 0 \in Int /\ MaxRecords \in Int
    BY LoadAssumption
  <2> QED
    BY <2>1, FS_Interval, Zenon
<1>4. IsFiniteSet(T)
  BY <1>2, <1>3, FS_Product, LoadAssumption, Zenon
<1> QED
  BY <1>1, <1>4, FS_Surjection, Zenon

-----------------------------------------------------------------------------
(***************************************************************************)
(* The collector's accounts: one request more, succeeded or failed.        *)
(***************************************************************************)
LEMMA AccountStep ==
    ASSUME LoadTypeOK, NEW a
    PROVE  LET t == Account(totals, a) IN
           /\ DOMAIN t = DOMAIN NoTotals
           /\ t.requests = totals.requests + 1
           /\ \/ t.succeeded = totals.succeeded + 1 /\ t.failed = totals.failed
              \/ t.succeeded = totals.succeeded /\ t.failed = totals.failed + 1
<1>1. ASSUME NEW s \in BOOLEAN, NEW n, NEW p, NEW l
      PROVE  /\ DOMAIN Add(totals, s, n, p, l) = DOMAIN NoTotals
             /\ Add(totals, s, n, p, l).requests = totals.requests + 1
             /\ Add(totals, s, n, p, l).succeeded = IF s THEN totals.succeeded + 1 ELSE totals.succeeded
             /\ Add(totals, s, n, p, l).failed = IF s THEN totals.failed ELSE totals.failed + 1
  <2>1. DOMAIN totals = {"requests", "succeeded", "failed", "attempted", "produced", "lost"}
    BY Zenon DEF LoadTypeOK, NoTotals
  <2> QED
    BY <2>1, Zenon DEF Add, NoTotals
<1>2. \/ SoakAccount(totals, a) = Add(totals, TRUE, Records, Records - a.bad, a.bad)
      \/ SoakAccount(totals, a) = Add(totals, FALSE, Records, Records - a.bad, a.bad)
      \/ SoakAccount(totals, a) = Add(totals, FALSE, Records, 0, Records)
  <2>1. (a.bad = 0) = TRUE \/ (a.bad = 0) = FALSE
    OBVIOUS
  <2>2. \/ SoakAccount(totals, a) = Add(totals, a.bad = 0, Records, Records - a.bad, a.bad)
        \/ SoakAccount(totals, a) = Add(totals, FALSE, Records, 0, Records)
    BY Zenon DEF SoakAccount
  <2> QED
    BY <2>1, <2>2, Zenon
<1>3. \/ BenchAccount(totals, a) = Add(totals, FALSE, Records, 0, 0)
      \/ BenchAccount(totals, a) = Add(totals, FALSE, 0, 0, 0)
      \/ BenchAccount(totals, a) = Add(totals, TRUE, Records, Records, 0)
  BY Zenon DEF BenchAccount
<1>4. Account(totals, a) \in {SoakAccount(totals, a), BenchAccount(totals, a)}
  BY Zenon DEF Account
<1>5. ASSUME NEW s \in BOOLEAN, NEW n, NEW p, NEW l, Account(totals, a) = Add(totals, s, n, p, l)
      PROVE  LET t == Account(totals, a) IN
             /\ DOMAIN t = DOMAIN NoTotals
             /\ t.requests = totals.requests + 1
             /\ \/ t.succeeded = totals.succeeded + 1 /\ t.failed = totals.failed
                \/ t.succeeded = totals.succeeded /\ t.failed = totals.failed + 1
  BY <1>1, <1>5
<1>7. CASE Account(totals, a) = SoakAccount(totals, a)
  BY <1>2, <1>5, <1>7, Zenon
<1>8. CASE Account(totals, a) = BenchAccount(totals, a)
  BY <1>3, <1>5, <1>8, Zenon
<1> QED
  BY <1>4, <1>7, <1>8, Zenon

-----------------------------------------------------------------------------
(***************************************************************************)
(* A worker that has not gone moves: the channel is open and stays safe.   *)
(***************************************************************************)
LEMMA MoveStep ==
    ASSUME LoadInvariant, NEW w \in Workers, wpc[w] # "gone", NEW to \in Pcs,
           wpc' = [wpc EXCEPT ![w] = to], closed' = closed, collector' = collector
    PROVE  /\ wpc' \in [Workers -> Pcs] /\ wpc'[w] = to
           /\ \A v \in Workers \ {w} : wpc'[v] = wpc[v]
           /\ NoSendAfterClose'
           /\ (collector # "summarized")'
<1>1. wpc \in [Workers -> Pcs]
  BY Zenon DEF LoadInvariant, LoadTypeOK
<1>2. ~closed /\ collector # "summarized"
  BY Zenon DEF LoadInvariant, NoSendAfterClose, CountInv
<1> QED
  BY <1>1, <1>2, Zenon DEF NoSendAfterClose

\* What a scenario's fields are.
LEMMA ScenarioShape ==
    ASSUME LoadTypeOK
    PROVE  /\ RequestLimit \in Nat /\ scenario.answers \subseteq Answers
           /\ scenario.clients \subseteq Workers /\ scenario.clients # {}
           /\ scenario.answers \subseteq AnswersTo(Records)
           /\ Records \in Nat \ {0} /\ scenario.samples \in Nat
<1>1. /\ scenario.limit \in Nat /\ scenario.answers \subseteq Answers
      /\ scenario.clients \subseteq Workers /\ scenario.clients # {}
      /\ scenario.records \in 1..MaxRecords /\ scenario.samples \in Nat
      /\ scenario.answers \subseteq AnswersTo(scenario.records)
  BY Zenon DEF LoadTypeOK, Scenario
<1>2. scenario.records \in Nat \ {0}
  BY <1>1, LoadAssumption
<1> QED
  BY <1>1, <1>2, Zenon DEF RequestLimit, Records

\* The head of soak's loop preserves the invariant.
LEMMA SoakLoopStep ==
    ASSUME LoadInvariant, NEW w \in Workers, SoakLoop(w)
    PROVE  LoadInvariant'
<1>1. /\ wpc' = [wpc EXCEPT ![w] = "select"] /\ wpc[w] = "loop" /\ Tool = "soak"
      /\ UNCHANGED <<scenario, done, started, held, results, closed, totals, collector, begun, ended>>
  BY Zenon DEF SoakLoop
<1>2. /\ wpc' \in [Workers -> Pcs] /\ wpc'[w] = "select"
      /\ \A v \in Workers \ {w} : wpc'[v] = wpc[v]
      /\ NoSendAfterClose'
  BY <1>1, MoveStep, Zenon DEF Pcs
<1>3. At(wpc', Posting) = At(wpc, Posting) /\ At(wpc', Sending) = At(wpc, Sending)
  BY <1>1, <1>2, AtSame, Zenon DEF Posting, Sending
<1>4. LoadTypeOK'
  BY <1>1, <1>2, Zenon DEF LoadInvariant, LoadTypeOK
<1>5. CountInv'
  BY <1>1, <1>3, Zenon DEF LoadInvariant, CountInv
<1>6. LimitInv'
  BY <1>1, Zenon DEF LimitInv, Tool
<1> QED
  BY <1>2, <1>4, <1>5, <1>6, Zenon DEF LoadInvariant

\* The head of bench's loop, which raises the counter, preserves the invariant.
LEMMA BenchLoopStep ==
    ASSUME LoadInvariant, NEW w \in Workers, BenchLoop(w)
    PROVE  LoadInvariant'
<1> DEFINE to == IF RequestLimit > 0 /\ started + 1 > RequestLimit THEN "gone" ELSE "select"
<1>1. /\ wpc' = [wpc EXCEPT ![w] = to] /\ wpc[w] = "loop"
      /\ started' = IF RequestLimit > 0 THEN started + 1 ELSE started
      /\ UNCHANGED <<scenario, done, held, results, closed, totals, collector, begun, ended>>
  BY Zenon DEF BenchLoop
<1>2. /\ wpc' \in [Workers -> Pcs] /\ wpc'[w] = to
      /\ \A v \in Workers \ {w} : wpc'[v] = wpc[v]
      /\ NoSendAfterClose'
  BY <1>1, MoveStep, Zenon DEF Pcs
<1>3. At(wpc', Posting) = At(wpc, Posting) /\ At(wpc', Sending) = At(wpc, Sending)
  BY <1>1, <1>2, AtSame, ZenonT(30) DEF Posting, Sending
<1>4. LoadTypeOK /\ LoadTypeOK'
  BY <1>1, <1>2 DEF LoadInvariant, LoadTypeOK
<1>5. CountInv'
  BY <1>1, <1>3, Zenon DEF LoadInvariant, CountInv
<1>6. ASSUME Tool = "bench", RequestLimit > 0
      PROVE  /\ begun' + At(wpc', Admitted) <= started'
             /\ begun' + At(wpc', Admitted) <= RequestLimit
             /\ ~done => \/ begun' + At(wpc', Admitted) = started'
                         \/ begun' + At(wpc', Admitted) = RequestLimit
             /\ ~done => \A v \in scenario.clients : wpc'[v] = "gone" => started' >= RequestLimit
  <2>1. /\ begun \in Nat /\ started \in Nat /\ RequestLimit \in Nat /\ At(wpc, Admitted) \in Nat
        /\ begun' = begun /\ started' = started + 1
    BY <1>1, <1>4, <1>6, ScenarioShape, AtType, Zenon DEF LoadTypeOK
  <2>2. /\ begun + At(wpc, Admitted) <= started
        /\ begun + At(wpc, Admitted) <= RequestLimit
        /\ ~done => \/ begun + At(wpc, Admitted) = started
                    \/ begun + At(wpc, Admitted) = RequestLimit
        /\ ~done => \A v \in scenario.clients : wpc[v] = "gone" => started >= RequestLimit
    BY <1>6, Zenon DEF LoadInvariant, LimitInv
  <2>3. CASE started + 1 > RequestLimit
    <3>1. At(wpc', Admitted) = At(wpc, Admitted)
      BY <1>1, <1>2, <1>6, <2>3, AtSame, Zenon DEF Admitted
    <3> QED
      BY <2>1, <2>2, <2>3, <3>1
  <2>4. CASE ~(started + 1 > RequestLimit)
    <3>1. At(wpc', Admitted) = At(wpc, Admitted) + 1
      BY <1>1, <1>2, <1>6, <2>4, AtUp, Zenon DEF Admitted
    <3>2. ~done => \A v \in scenario.clients : wpc'[v] # "gone"
      BY <1>2, <1>4, <2>1, <2>2, <2>4, ScenarioShape
    <3> QED
      BY <2>1, <2>2, <2>4, <3>1, <3>2
  <2> QED
    BY <2>3, <2>4, Zenon
<1>7. LimitInv'
  BY <1>1, <1>6, Zenon DEF LimitInv, Tool, RequestLimit
<1> QED
  BY <1>2, <1>4, <1>5, <1>7, Zenon DEF LoadInvariant

\* The look at done, which begins a post or ends the worker, preserves the invariant.
LEMMA SelectStep ==
    ASSUME LoadInvariant, NEW w \in Workers, Select(w)
    PROVE  LoadInvariant'
<1> DEFINE to == IF done THEN "gone" ELSE "post"
           n == IF done THEN 0 ELSE 1
<1>0. LoadTypeOK /\ begun \in Nat
  BY Zenon DEF LoadInvariant, LoadTypeOK
<1>1. /\ wpc' = [wpc EXCEPT ![w] = to] /\ wpc[w] = "select" /\ begun' = begun + n
      /\ UNCHANGED <<scenario, done, started, held, results, closed, totals, collector, ended>>
  BY <1>0 DEF Select
<1>2. /\ wpc' \in [Workers -> Pcs] /\ wpc'[w] = to
      /\ \A v \in Workers \ {w} : wpc'[v] = wpc[v]
      /\ NoSendAfterClose'
  BY <1>1, MoveStep, Zenon DEF Pcs
<1>3. At(wpc', Sending) = At(wpc, Sending)
  BY <1>1, <1>2, AtSame, Zenon DEF Sending
<1>4. At(wpc', Posting) = At(wpc, Posting) + n
  <2>1. CASE done
    <3>1. At(wpc', Posting) = At(wpc, Posting)
      BY <1>1, <1>2, <2>1, AtSame, Zenon DEF Posting
    <3> QED
      BY <2>1, <3>1, AtType
  <2>2. CASE ~done
    BY <1>1, <1>2, <2>2, AtUp, Zenon DEF Posting
  <2> QED
    BY <2>1, <2>2, Zenon
<1>5. At(wpc', Admitted) = At(wpc, Admitted) - 1
  BY <1>1, <1>2, AtDown, Zenon DEF Admitted
<1>6. LoadTypeOK'
  BY <1>0, <1>1, <1>2 DEF LoadTypeOK
<1>7. CountInv'
  <2>1. /\ totals.requests \in Nat /\ Len(results) \in Nat /\ At(wpc, Posting) \in Nat /\ n \in Nat
    BY <1>0, AtType DEF LoadTypeOK
  <2>2. begun' = totals.requests + Len(results) + At(wpc', Posting)
    BY <1>0, <1>1, <1>4, <2>1 DEF LoadInvariant, CountInv
  <2> QED
    BY <1>1, <1>3, <2>2, Zenon DEF LoadInvariant, CountInv
<1>8. LimitInv'
  <2>1. /\ At(wpc, Admitted) \in Nat /\ started \in Nat /\ RequestLimit \in Nat
        /\ scenario.clients \subseteq Workers
    BY <1>0, AtType, ScenarioShape, Zenon DEF LoadTypeOK
  <2>2. begun' + At(wpc', Admitted) <= begun + At(wpc, Admitted)
        /\ (~done => begun' + At(wpc', Admitted) = begun + At(wpc, Admitted))
    BY <1>0, <1>1, <1>5, <2>1
  <2>3. ~done => \A v \in scenario.clients : wpc'[v] = "gone" => wpc[v] = "gone"
    BY <1>2, <2>1, Zenon
  <2>4. begun' + At(wpc', Admitted) \in Int
    BY <1>0, <1>1, <1>5, <2>1
  <2> QED
    BY <1>0, <1>1, <2>1, <2>2, <2>3, <2>4 DEF LoadInvariant, LimitInv, Tool, RequestLimit
<1> QED
  BY <1>2, <1>6, <1>7, <1>8, Zenon DEF LoadInvariant

\* The end of a post preserves the invariant.
LEMMA PostOnceStep ==
    ASSUME LoadInvariant, NEW w \in Workers, NEW a \in scenario.answers, PostOnce(w, a)
    PROVE  LoadInvariant'
<1>0. LoadTypeOK /\ a \in Answers /\ ended \in [Answers -> Nat]
  BY ScenarioShape, Zenon DEF LoadInvariant, LoadTypeOK
<1>1. /\ wpc' = [wpc EXCEPT ![w] = "send"] /\ wpc[w] = "post"
      /\ held' = [held EXCEPT ![w] = a] /\ ended' = [ended EXCEPT ![a] = @ + 1]
      /\ UNCHANGED <<scenario, done, started, results, closed, totals, collector, begun>>
  BY Zenon DEF PostOnce
<1>2. /\ wpc' \in [Workers -> Pcs] /\ wpc'[w] = "send"
      /\ \A v \in Workers \ {w} : wpc'[v] = wpc[v]
      /\ NoSendAfterClose'
  BY <1>1, MoveStep, Zenon DEF Pcs
<1>3. At(wpc', Posting) = At(wpc, Posting) /\ At(wpc', Admitted) = At(wpc, Admitted)
  BY <1>1, <1>2, AtSame, ZenonT(30) DEF Posting, Admitted
<1>4. At(wpc', Sending) = At(wpc, Sending) + 1
  BY <1>1, <1>2, AtUp, Zenon DEF Sending
<1>5. Weight(Answers, ended') = Weight(Answers, ended) + 1
  <2>1. /\ ended' \in [Answers -> Nat] /\ ended'[a] = ended[a] + 1
        /\ \A b \in Answers \ {a} : ended'[b] = ended[b]
    BY <1>0, <1>1
  <2> QED
    BY <1>0, <2>1, AnswersFinite, WeightRaise
<1>6. LoadTypeOK'
  BY <1>0, <1>1, <1>2 DEF LoadTypeOK, Sent
<1>7. CountInv'
  <2>1. totals.requests \in Nat /\ Len(results) \in Nat /\ At(wpc, Sending) \in Nat
    BY <1>0, AtType DEF LoadTypeOK
  <2>2. Weight(Answers, ended') = totals.requests + Len(results) + At(wpc', Sending)
    BY <1>4, <1>5, <2>1 DEF LoadInvariant, CountInv
  <2> QED
    BY <1>1, <1>3, <2>2, Zenon DEF LoadInvariant, CountInv
<1>8. LimitInv'
  <2>1. \A v \in scenario.clients : wpc'[v] = "gone" => wpc[v] = "gone"
    BY <1>0, <1>2, ScenarioShape, Zenon
  <2> QED
    BY <1>1, <1>3, <2>1, Zenon DEF LoadInvariant, LimitInv, Tool, RequestLimit
<1> QED
  BY <1>2, <1>6, <1>7, <1>8, Zenon DEF LoadInvariant

\* The send of a result preserves the invariant.
LEMMA SendStep ==
    ASSUME LoadInvariant, NEW w \in Workers, Send(w)
    PROVE  LoadInvariant'
<1>0. LoadTypeOK
  BY Zenon DEF LoadInvariant
<1>1. /\ wpc' = [wpc EXCEPT ![w] = "loop"] /\ wpc[w] = "send"
      /\ held' = [held EXCEPT ![w] = NoAnswer] /\ results' = Append(results, held[w])
      /\ UNCHANGED <<scenario, done, started, closed, totals, collector, begun, ended>>
  BY Zenon DEF Send
<1>2. /\ wpc' \in [Workers -> Pcs] /\ wpc'[w] = "loop"
      /\ \A v \in Workers \ {w} : wpc'[v] = wpc[v]
      /\ NoSendAfterClose' /\ (collector # "summarized")'
  BY <1>1, MoveStep, Zenon DEF Pcs
<1>3. At(wpc', Admitted) = At(wpc, Admitted)
  BY <1>1, <1>2, AtSame, Zenon DEF Admitted
<1>4. At(wpc', Posting) = At(wpc, Posting) - 1
  BY <1>1, <1>2, AtDown, Zenon DEF Posting
<1>5. At(wpc', Sending) = At(wpc, Sending) - 1
  BY <1>1, <1>2, AtDown, Zenon DEF Sending
<1>6. results' \in Seq(Sent) /\ Len(results') = Len(results) + 1 /\ Len(results) \in Nat
  BY <1>0, <1>1 DEF LoadTypeOK
<1>7. LoadTypeOK'
  BY <1>0, <1>1, <1>2, <1>6, Zenon DEF LoadTypeOK, Sent
<1>8. CountInv'
  <2>1. totals.requests \in Nat /\ At(wpc, Sending) \in Nat /\ At(wpc, Posting) \in Nat
    BY <1>0, AtType, Zenon DEF LoadTypeOK
  <2>2. /\ totals.requests + Len(results') + At(wpc', Posting)
               = totals.requests + Len(results) + At(wpc, Posting)
        /\ totals.requests + Len(results') + At(wpc', Sending)
               = totals.requests + Len(results) + At(wpc, Sending)
    <3>1. \A i, j, k \in Nat : i + (j + 1) + (k - 1) = i + j + k
      OBVIOUS
    <3>2. Len(results') = Len(results) + 1 /\ Len(results) \in Nat
      BY <1>6, Zenon
    <3>3. /\ totals.requests + (Len(results) + 1) + (At(wpc, Posting) - 1)
                = totals.requests + Len(results) + At(wpc, Posting)
          /\ totals.requests + (Len(results) + 1) + (At(wpc, Sending) - 1)
                = totals.requests + Len(results) + At(wpc, Sending)
      BY SMTT(40), <2>1, <3>1, <3>2
    <3> QED
      BY <1>4, <1>5, <3>2, <3>3, Zenon
  <2> QED
    BY <1>1, <1>2, <2>2, Zenon DEF LoadInvariant, CountInv
<1>9. LimitInv'
  <2>1. \A v \in scenario.clients : wpc'[v] = "gone" => wpc[v] = "gone"
    BY <1>0, <1>2, ScenarioShape, Zenon
  <2> QED
    BY <1>1, <1>3, <2>1, Zenon DEF LoadInvariant, LimitInv, Tool, RequestLimit
<1> QED
  BY <1>2, <1>7, <1>8, <1>9, Zenon DEF LoadInvariant

\* The collector's receipt of a result preserves the invariant.
LEMMA ReceiveStep ==
    ASSUME LoadInvariant, Receive
    PROVE  LoadInvariant'
<1>0. LoadTypeOK
  BY Zenon DEF LoadInvariant
<1>1. /\ results # <<>> /\ results' = Tail(results) /\ collector = "collecting"
      /\ totals' = Account(totals, Head(results))
      /\ UNCHANGED <<scenario, done, started, wpc, held, closed, collector, begun, ended>>
  BY Zenon DEF Receive
<1>2. results' \in Seq(Sent) /\ Len(results') = Len(results) - 1 /\ Len(results) \in Nat
  BY <1>0, <1>1 DEF LoadTypeOK
<1>3. /\ DOMAIN totals' = DOMAIN NoTotals
      /\ totals'.requests = totals.requests + 1
      /\ \/ totals'.succeeded = totals.succeeded + 1 /\ totals'.failed = totals.failed
         \/ totals'.succeeded = totals.succeeded /\ totals'.failed = totals.failed + 1
  BY <1>0, <1>1, AccountStep, Zenon
<1>4. totals.requests \in Nat /\ totals.succeeded \in Nat /\ totals.failed \in Nat
  BY <1>0, Zenon DEF LoadTypeOK
<1>5. LoadTypeOK'
  BY <1>0, <1>1, <1>2, <1>3, <1>4, SMTT(30) DEF LoadTypeOK
<1>6. CountInv'
  <2>1. totals'.requests + Len(results') = totals.requests + Len(results)
    BY <1>2, <1>3, <1>4
  <2>2. totals'.requests = totals'.succeeded + totals'.failed
    BY <1>3, <1>4, SMTT(30) DEF LoadInvariant, CountInv
  <2> QED
    BY <1>1, <2>1, <2>2, Zenon DEF LoadInvariant, CountInv
<1>7. LimitInv'
  BY <1>1, Zenon DEF LoadInvariant, LimitInv, Tool, RequestLimit
<1>8. NoSendAfterClose'
  BY <1>1, Zenon DEF LoadInvariant, NoSendAfterClose
<1> QED
  BY <1>5, <1>6, <1>7, <1>8, Zenon DEF LoadInvariant

-----------------------------------------------------------------------------
\* A run begins in the invariant.
LEMMA LoadStarts ==
    ASSUME NEW s \in Scenario, Fresh(s)
    PROVE  LoadInvariant
<1>1. LoadTypeOK
  <2>1. /\ scenario \in Scenario /\ done \in BOOLEAN /\ closed \in BOOLEAN
        /\ started \in Nat /\ begun \in Nat /\ ended \in [Answers -> Nat]
    BY Zenon DEF Fresh
  <2>2. wpc \in [Workers -> Pcs]
    BY Zenon DEF Fresh, Pcs
  <2>3. held \in [Workers -> Sent] /\ results \in Seq(Sent)
    BY DEF Fresh, Sent
  <2>4. /\ totals.requests \in Nat /\ totals.succeeded \in Nat /\ totals.failed \in Nat
        /\ DOMAIN totals = DOMAIN NoTotals
    BY Zenon DEF Fresh, NoTotals
  <2> QED
    BY <2>1, <2>2, <2>3, <2>4, Zenon DEF LoadTypeOK
<1>2. At(wpc, Posting) = 0 /\ At(wpc, Sending) = 0 /\ At(wpc, Admitted) = 0
  BY AtNone, Zenon DEF Fresh, Posting, Sending, Admitted
<1>3. Weight(Answers, ended) = 0
  BY WeightZero, Zenon DEF Fresh
<1>4. CountInv /\ NoSendAfterClose
  BY <1>2, <1>3 DEF Fresh, CountInv, NoSendAfterClose, NoTotals
<1>5. LimitInv
  <2>1. \A w \in scenario.clients : wpc[w] # "gone"
    BY <1>1, ScenarioShape, Zenon DEF Fresh
  <2> QED
    BY <1>1, <1>2, <2>1, ScenarioShape DEF Fresh, LimitInv
<1> QED
  BY <1>1, <1>4, <1>5, Zenon DEF LoadInvariant

\* Every step of a run preserves it.
LEMMA LoadGoesOn ==
    ASSUME LoadInvariant, [LoadNext]_loadVars
    PROVE  LoadInvariant'
<1>1. CASE UNCHANGED loadVars
  BY <1>1, Zenon DEF loadVars, LoadInvariant, LoadTypeOK, NoSendAfterClose, CountInv, LimitInv,
              Tool, RequestLimit
<1>2. CASE TimerFires
  BY <1>2, Zenon DEF TimerFires, LoadInvariant, LoadTypeOK, NoSendAfterClose, CountInv, LimitInv,
              Tool, RequestLimit
<1>3. CASE CloseResults
  BY <1>3, Zenon DEF CloseResults, LoadInvariant, LoadTypeOK, NoSendAfterClose, CountInv, LimitInv,
              Tool, RequestLimit
<1>4. CASE Summarize
  BY <1>4, Zenon DEF Summarize, LoadInvariant, LoadTypeOK, NoSendAfterClose, CountInv, LimitInv,
              Tool, RequestLimit
<1>5. ASSUME NEW w \in Workers, Worker(w) PROVE LoadInvariant'
  BY <1>5, SoakLoopStep, BenchLoopStep, SelectStep, PostOnceStep, SendStep, Zenon DEF Worker
<1> QED
  BY <1>1, <1>2, <1>3, <1>4, <1>5, ReceiveStep, Zenon DEF LoadNext, Collector

\* A run that is summed up has counted every post.
LEMMA Summed ==
    ASSUME LoadInvariant
    PROVE  SummaryCountsEveryPost
<1> SUFFICES ASSUME collector = "summarized" PROVE SummaryCountsEveryPost
  BY Zenon DEF SummaryCountsEveryPost
<1>1. results = <<>> /\ \A w \in Workers : wpc[w] = "gone"
  BY Zenon DEF LoadInvariant, CountInv, NoSendAfterClose
<1>2. At(wpc, Posting) = 0 /\ At(wpc, Sending) = 0 /\ Len(results) = 0
  BY <1>1, AtNone, Zenon DEF Posting, Sending
<1> QED
  BY <1>2 DEF LoadInvariant, LoadTypeOK, CountInv, SummaryCountsEveryPost

\* The posts begun are as many as the counter lets through.
LEMMA Limited ==
    ASSUME LoadInvariant
    PROVE  RequestLimitExact
<1> SUFFICES ASSUME Tool = "bench", RequestLimit > 0
             PROVE  /\ begun <= RequestLimit
                    /\ collector = "summarized" /\ ~done => begun = RequestLimit
  BY Zenon DEF RequestLimitExact
<1>1. /\ begun \in Nat /\ started \in Nat /\ RequestLimit \in Nat /\ At(wpc, Admitted) \in Nat
      /\ scenario.clients \subseteq Workers /\ scenario.clients # {}
  BY ScenarioShape, AtType, Zenon DEF LoadInvariant, LoadTypeOK
<1>2. begun <= RequestLimit
  BY <1>1 DEF LoadInvariant, LimitInv
<1>3. ASSUME collector = "summarized", ~done PROVE begun = RequestLimit
  <2>1. \A w \in Workers : wpc[w] = "gone"
    BY <1>3, Zenon DEF LoadInvariant, CountInv, NoSendAfterClose
  <2>2. At(wpc, Admitted) = 0
    BY <2>1, AtNone, Zenon DEF Admitted
  <2>3. started >= RequestLimit
    BY <1>1, <1>3, <2>1, Zenon DEF LoadInvariant, LimitInv
  <2> QED
    BY <1>1, <1>2, <1>3, <2>2, <2>3 DEF LoadInvariant, LimitInv
<1> QED
  BY <1>2, <1>3, Zenon

-----------------------------------------------------------------------------
(***************************************************************************)
(* What has become of the posts that ended in a given way: their answers   *)
(* are held by a worker that is about to send them, in the channel, or     *)
(* received.  K is a set of answers.                                       *)
(***************************************************************************)
Well == {a \in Answers : a.ending = "offsets" /\ a.bad = 0}
UpTo(l) == {a \in Answers : a.latency <= l}

Slots(s, K) == {i \in 1..Len(s) : s[i] \in K}
InChannel(s, K) == Cardinality(Slots(s, K))
Carries(p, h, K) == [w \in Workers |-> IF p[w] = "send" /\ h[w] \in K THEN "in" ELSE "out"]
Carried(p, h, K) == At(Carries(p, h, K), {"in"})

Received ==
    [K \in SUBSET Answers |-> Weight(K, ended) - (InChannel(results, K) + Carried(wpc, held, K))]

\* What it is before and after a step.
LEMMA ReceivedAt ==
    ASSUME NEW K \in SUBSET Answers
    PROVE  /\ Received[K] = Weight(K, ended) - (InChannel(results, K) + Carried(wpc, held, K))
           /\ Received'[K] = Weight(K, ended') - (InChannel(results', K) + Carried(wpc', held', K))
BY Zenon DEF Received

\* The answers in a channel are finitely many.
LEMMA SlotsType ==
    ASSUME NEW s \in Seq(Sent), NEW K
    PROVE  IsFiniteSet(Slots(s, K)) /\ InChannel(s, K) \in Nat
<1>1. 1 \in Int /\ Len(s) \in Int
  OBVIOUS
<1>2. IsFiniteSet(1..Len(s))
  BY <1>1, FS_Interval, Zenon
<1>3. Slots(s, K) \subseteq 1..Len(s)
  BY Zenon DEF Slots
<1> QED
  BY <1>2, <1>3, FS_Subset, FS_CardinalityType, Zenon DEF InChannel

\* There is none in an empty channel.
LEMMA SlotsEmpty ==
    ASSUME NEW K
    PROVE  InChannel(<<>>, K) = 0
<1>1. Slots(<<>>, K) = {}
  BY DEF Slots
<1> QED
  BY <1>1, FS_EmptySet, Zenon DEF InChannel

\* A send adds the answer it sends.
LEMMA SlotsAppend ==
    ASSUME NEW s \in Seq(Sent), NEW e \in Sent, NEW K
    PROVE  InChannel(Append(s, e), K) = InChannel(s, K) + (IF e \in K THEN 1 ELSE 0)
<1> DEFINE n == Len(s)
<1>1. /\ n \in Nat /\ Len(Append(s, e)) = n + 1 /\ Append(s, e)[n + 1] = e
      /\ \A i \in 1..n : Append(s, e)[i] = s[i]
  OBVIOUS
<1>2. IsFiniteSet(Slots(s, K)) /\ InChannel(s, K) \in Nat
  BY SlotsType, Zenon
<1>3. CASE e \in K
  <2>1. Slots(Append(s, e), K) = Slots(s, K) \cup {n + 1} /\ n + 1 \notin Slots(s, K)
    BY <1>1, <1>3 DEF Slots
  <2>2. Cardinality(Slots(s, K) \cup {n + 1}) = Cardinality(Slots(s, K)) + 1
    BY <1>2, <2>1, OneMore, Zenon
  <2> QED
    BY <1>3, <2>1, <2>2, Zenon DEF InChannel
<1>4. CASE e \notin K
  <2>1. Slots(Append(s, e), K) = Slots(s, K)
    BY <1>1, <1>4 DEF Slots
  <2> QED
    BY <1>2, <1>4, <2>1 DEF InChannel
<1> QED
  BY <1>3, <1>4, Zenon

\* A receipt takes the answer at the head.
LEMMA SlotsTail ==
    ASSUME NEW s \in Seq(Sent), s # <<>>, NEW K
    PROVE  InChannel(s, K) = InChannel(Tail(s), K) + (IF Head(s) \in K THEN 1 ELSE 0)
<1> DEFINE n == Len(s)
           T == Slots(s, K) \ {1}
           f == [i \in Slots(Tail(s), K) |-> i + 1]
<1>1. /\ n \in Nat /\ n > 0 /\ Len(Tail(s)) = n - 1 /\ Head(s) = s[1]
      /\ Tail(s) \in Seq(Sent) /\ \A i \in 1..(n - 1) : Tail(s)[i] = s[i + 1]
  OBVIOUS
<1>2. /\ IsFiniteSet(Slots(s, K)) /\ IsFiniteSet(Slots(Tail(s), K))
      /\ InChannel(Tail(s), K) \in Nat
  BY <1>1, SlotsType, Zenon
<1>3. Cardinality(T) = InChannel(Tail(s), K)
  <2>1. \A i \in Slots(Tail(s), K) : i \in 1..(n - 1) /\ s[i + 1] \in K
    BY <1>1, Zenon DEF Slots
  <2>2. \A i \in Slots(Tail(s), K) : i \in Nat /\ i + 1 \in T
    BY <1>1, <2>1 DEF Slots
  <2>3. \A j \in T : j - 1 \in Slots(Tail(s), K) /\ (j - 1) + 1 = j
    BY <1>1 DEF Slots
  <2>4. /\ f \in [Slots(Tail(s), K) -> T]
        /\ \A j \in T : \E i \in Slots(Tail(s), K) : f[i] = j
    BY <2>2, <2>3, Zenon
  <2>5. \A i, j \in Slots(Tail(s), K) : f[i] = f[j] => i = j
    BY <2>2
  <2> HIDE DEF f, T
  <2>6. f \in Bijection(Slots(Tail(s), K), T)
    BY <2>4, <2>5, Zenon DEF Bijection, Injection, Surjection, IsInjective
  <2>7. ExistsBijection(Slots(Tail(s), K), T)
    BY <2>6, Zenon DEF ExistsBijection
  <2> QED
    BY <1>2, <2>7, FS_Bijection, Zenon DEF InChannel
<1>4. CASE Head(s) \in K
  <2>1. 1 \in Slots(s, K)
    BY <1>1, <1>4 DEF Slots
  <2>2. Cardinality(T) = Cardinality(Slots(s, K)) - 1 /\ Cardinality(Slots(s, K)) \in Nat
    BY <1>2, <2>1, FS_RemoveElement, FS_CardinalityType, Zenon
  <2> QED
    BY <1>2, <1>3, <1>4, <2>2 DEF InChannel
<1>5. CASE Head(s) \notin K
  <2>1. T = Slots(s, K)
    BY <1>1, <1>5, Zenon DEF Slots
  <2>2. InChannel(s, K) = InChannel(Tail(s), K)
    BY <1>3, <2>1, Zenon DEF InChannel
  <2> QED
    BY <1>2, <1>5, <2>2
<1> QED
  BY <1>4, <1>5, Zenon

\* One more of y is one more in every set that has y.
LEMMA WeightBump ==
    ASSUME NEW S, IsFiniteSet(S), NEW w \in [S -> Nat], NEW v \in [S -> Nat], NEW y \in S,
           v[y] = w[y] + 1, \A x \in S \ {y} : v[x] = w[x], NEW K \in SUBSET S
    PROVE  /\ Weight(K, w) \in Nat
           /\ Weight(K, v) = Weight(K, w) + (IF y \in K THEN 1 ELSE 0)
<1>1. IsFiniteSet(K)
  BY FS_Subset, Zenon
<1>2. /\ \A b \in K : w[b] \in Nat /\ v[b] \in Nat
      /\ \A b \in K \ {y} : v[b] = w[b]
      /\ v[y] = w[y] + 1 /\ w[y] \in Nat
  OBVIOUS
<1>3. \A b \in K : v[b] \in Nat
  BY <1>2, Zenon
<1>4. Weight(K, w) \in Nat /\ Weight(K, v) \in Nat
  BY <1>1, <1>2, WeightType, Zenon
<1>5. CASE y \in K
  <2>2. Weight(K \ {y}, v) = Weight(K \ {y}, w)
    BY <1>2, WeightSame, Zenon
  <2>3. Weight(K \ {y}, w) = Weight(K, w) - w[y]
    BY <1>1, <1>2, <1>5, WeightRemove, Zenon
  <2>4. Weight(K \ {y}, v) = Weight(K, v) - (w[y] + 1)
    <3>1. Weight(K \ {y}, v) = Weight(K, v) - v[y]
      BY <1>1, <1>3, <1>5, WeightRemove, Zenon
    <3> QED
      BY <1>2, <3>1, Zenon
  <2>5. Weight(K, v) - (w[y] + 1) = Weight(K, w) - w[y]
    BY <2>2, <2>3, <2>4, Zenon
  <2>6. \A i, j, k \in Nat : i - (k + 1) = j - k => i = j + 1
    OBVIOUS
  <2> QED
    BY <1>2, <1>4, <1>5, <2>5, <2>6
<1>6. CASE y \notin K
  <2>1. \A b \in K : v[b] = w[b]
    BY <1>2, <1>6, Zenon
  <2>2. Weight(K, v) = Weight(K, w)
    BY <2>1, WeightSame, Zenon
  <2> QED
    BY <1>4, <1>6, <2>2
<1> QED
  BY <1>5, <1>6, Zenon

\* All the numbers of an account.
LEMMA ReceivedType ==
    ASSUME LoadTypeOK, NEW K \in SUBSET Answers
    PROVE  /\ Weight(K, ended) \in Nat /\ InChannel(results, K) \in Nat
           /\ Carried(wpc, held, K) \in Nat /\ Received[K] \in Int
<1>1. IsFiniteSet(K) /\ \A a \in K : ended[a] \in Nat
  BY AnswersFinite, FS_Subset, Zenon DEF LoadTypeOK
<1>2. Weight(K, ended) \in Nat
  BY <1>1, WeightType, Zenon
<1>3. InChannel(results, K) \in Nat /\ Carried(wpc, held, K) \in Nat
  BY SlotsType, AtType, Zenon DEF LoadTypeOK, Carried
<1> QED
  BY <1>2, <1>3, ReceivedAt

\* A worker that moves between points where it has nothing to send.
LEMMA ReceivedMove ==
    ASSUME wpc \in [Workers -> Pcs], NEW w \in Workers, NEW to, to # "send", wpc[w] # "send",
           wpc' = [wpc EXCEPT ![w] = to], held' = held, results' = results, ended' = ended,
           NEW K \in SUBSET Answers
    PROVE  Received'[K] = Received[K]
<1>1. wpc'[w] = to /\ \A v \in Workers \ {w} : wpc'[v] = wpc[v]
  BY Zenon
<1> DEFINE p == Carries(wpc, held, K)
           q == Carries(wpc', held, K)
<1>2. p[w] = "out" /\ q[w] = "out" /\ \A v \in Workers \ {w} : q[v] = p[v]
  BY <1>1, Zenon DEF Carries
<1> HIDE DEF p, q
<1>3. At(q, {"in"}) = At(p, {"in"})
  BY <1>2, AtSame
<1> QED
  BY <1>3, ReceivedAt, Zenon DEF Carried, p, q

\* The end of a post: its worker holds the answer.
LEMMA ReceivedPost ==
    ASSUME LoadTypeOK, NEW w \in Workers, NEW a \in scenario.answers, PostOnce(w, a),
           NEW K \in SUBSET Answers
    PROVE  Received'[K] = Received[K]
<1>1. /\ a \in Answers /\ ended \in [Answers -> Nat] /\ wpc \in [Workers -> Pcs]
      /\ held \in [Workers -> Sent]
  BY ScenarioShape, Zenon DEF LoadTypeOK
<1>2. /\ wpc' = [wpc EXCEPT ![w] = "send"] /\ wpc[w] = "post"
      /\ held' = [held EXCEPT ![w] = a] /\ ended' = [ended EXCEPT ![a] = @ + 1]
      /\ results' = results
  BY Zenon DEF PostOnce
<1> DEFINE p == Carries(wpc, held, K)
           q == Carries(wpc', held', K)
           one == IF a \in K THEN 1 ELSE 0
<1>3. p[w] = "out" /\ (q[w] = "in" <=> a \in K) /\ \A v \in Workers \ {w} : q[v] = p[v]
  BY <1>1, <1>2, Zenon DEF Carries
<1>4. Weight(K, ended) \in Nat /\ Weight(K, ended') = Weight(K, ended) + one
  <2>1. /\ ended' \in [Answers -> Nat] /\ ended'[a] = ended[a] + 1
        /\ \A b \in Answers \ {a} : ended'[b] = ended[b]
    BY <1>1, <1>2
  <2> QED
    BY <1>1, <2>1, AnswersFinite, WeightBump
<1> HIDE DEF p, q
<1>5. At(q, {"in"}) = At(p, {"in"}) + one /\ At(p, {"in"}) \in Nat
  <2>1. CASE a \in K
    <3>1. At(q, {"in"}) = At(p, {"in"}) + 1
      BY <1>3, <2>1, AtUp
    <3> QED
      BY <2>1, <3>1, AtType, Zenon
  <2>2. CASE a \notin K
    <3>1. At(q, {"in"}) = At(p, {"in"}) /\ At(p, {"in"}) \in Nat
      BY <1>3, <2>2, AtSame, AtType
    <3> QED
      BY <2>2, <3>1
  <2> QED
    BY <2>1, <2>2, Zenon
<1>6. Received[K] = Weight(K, ended) - (InChannel(results, K) + At(p, {"in"}))
      /\ Received'[K] = Weight(K, ended') - (InChannel(results, K) + At(q, {"in"}))
  BY <1>2, ReceivedAt, Zenon DEF Carried, p, q
<1>7. one \in Nat /\ InChannel(results, K) \in Nat
  BY ReceivedType, Zenon
<1> HIDE DEF one
<1> QED
  BY <1>4, <1>5, <1>6, <1>7

\* The send of an answer, which moves it from its worker to the channel.
LEMMA ReceivedSend ==
    ASSUME LoadTypeOK, NEW w \in Workers, Send(w), NEW K \in SUBSET Answers
    PROVE  Received'[K] = Received[K]
<1>1. /\ wpc \in [Workers -> Pcs] /\ held \in [Workers -> Sent] /\ held[w] \in Sent
      /\ results \in Seq(Sent) /\ InChannel(results, K) \in Nat /\ Weight(K, ended) \in Nat
  BY ReceivedType, Zenon DEF LoadTypeOK
<1>2. /\ wpc' = [wpc EXCEPT ![w] = "loop"] /\ wpc[w] = "send"
      /\ held' = [held EXCEPT ![w] = NoAnswer] /\ results' = Append(results, held[w])
      /\ ended' = ended
  BY Zenon DEF Send
<1> DEFINE p == Carries(wpc, held, K)
           q == Carries(wpc', held', K)
           one == IF held[w] \in K THEN 1 ELSE 0
<1>3. (p[w] = "in" <=> held[w] \in K) /\ q[w] = "out" /\ \A v \in Workers \ {w} : q[v] = p[v]
  BY <1>1, <1>2, Zenon DEF Carries
<1>4. InChannel(results', K) = InChannel(results, K) + one
  <2>1. InChannel(Append(results, held[w]), K) = InChannel(results, K) + one
    BY <1>1, SlotsAppend
  <2> QED
    BY <1>2, <2>1, Zenon
<1> HIDE DEF p, q
<1>5. At(p, {"in"}) = At(q, {"in"}) + one /\ At(q, {"in"}) \in Nat
  <2>1. CASE held[w] \in K
    <3>1. At(p, {"in"}) = At(q, {"in"}) + 1
      BY <1>3, <2>1, AtUp
    <3> QED
      BY <2>1, <3>1, AtType, Zenon
  <2>2. CASE held[w] \notin K
    <3>1. At(p, {"in"}) = At(q, {"in"}) /\ At(q, {"in"}) \in Nat
      BY <1>3, <2>2, AtSame, AtType
    <3> QED
      BY <2>2, <3>1
  <2> QED
    BY <2>1, <2>2, Zenon
<1>6. Received[K] = Weight(K, ended) - (InChannel(results, K) + At(p, {"in"}))
      /\ Received'[K] = Weight(K, ended) - (InChannel(results', K) + At(q, {"in"}))
  BY <1>2, ReceivedAt, Zenon DEF Carried, p, q
<1>7. one \in Nat
  BY Zenon
<1> HIDE DEF one
<1> QED
  BY <1>1, <1>4, <1>5, <1>6, <1>7

\* No other step receives anything.
LEMMA ReceivedSame ==
    ASSUME LoadTypeOK,
           \/ UNCHANGED loadVars \/ TimerFires \/ CloseResults \/ Summarize
           \/ \E w \in Workers : Worker(w)
    PROVE  Received' = Received
<1>1. CASE UNCHANGED loadVars \/ TimerFires \/ CloseResults \/ Summarize
  <2>1. results' = results /\ ended' = ended /\ wpc' = wpc /\ held' = held
    BY <1>1, Zenon DEF loadVars, TimerFires, CloseResults, Summarize
  <2> QED
    BY <2>1, Zenon DEF Received
<1>2. ASSUME NEW w \in Workers, SoakLoop(w) \/ BenchLoop(w) \/ Select(w), NEW K \in SUBSET Answers
      PROVE  Received'[K] = Received[K]
  <2>1. /\ wpc[w] # "send" /\ held' = held /\ results' = results /\ ended' = ended
        /\ \E to \in {"select", "post", "gone"} : wpc' = [wpc EXCEPT ![w] = to]
    BY <1>2, Zenon DEF SoakLoop, BenchLoop, Select
  <2>2. wpc \in [Workers -> Pcs]
    BY Zenon DEF LoadTypeOK
  <2> QED
    BY <2>1, <2>2, ReceivedMove, Zenon
<1>3. ASSUME NEW w \in Workers, Worker(w), NEW K \in SUBSET Answers
      PROVE  Received'[K] = Received[K]
  BY <1>2, <1>3, ReceivedPost, ReceivedSend, Zenon DEF Worker
<1>4. CASE \E w \in Workers : Worker(w)
  <2>1. \A K \in SUBSET Answers : Received'[K] = Received[K]
    BY <1>3, <1>4, Zenon
  <2> QED
    BY <2>1, Zenon DEF Received
<1> QED
  BY <1>1, <1>4, Zenon

\* A receipt moves the answer at the head.
LEMMA ReceivedMore ==
    ASSUME LoadTypeOK, NEW K \in SUBSET Answers, Receive
    PROVE  Received'[K] = Received[K] + (IF Head(results) \in K THEN 1 ELSE 0)
<1> DEFINE one == IF Head(results) \in K THEN 1 ELSE 0
<1>1. /\ results # <<>> /\ results' = Tail(results)
      /\ wpc' = wpc /\ held' = held /\ ended' = ended
  BY Zenon DEF Receive
<1>2. results \in Seq(Sent) /\ Tail(results) \in Seq(Sent)
  BY <1>1 DEF LoadTypeOK
<1>3. InChannel(results, K) = InChannel(results', K) + one /\ InChannel(results', K) \in Nat
  BY <1>1, <1>2, SlotsTail, SlotsType, Zenon
<1>4. Weight(K, ended) \in Nat /\ Carried(wpc, held, K) \in Nat /\ one \in Nat
  BY ReceivedType, Zenon
<1>5. /\ Received[K] = Weight(K, ended) - (InChannel(results, K) + Carried(wpc, held, K))
      /\ Received'[K] = Weight(K, ended) - (InChannel(results', K) + Carried(wpc, held, K))
  BY <1>1, ReceivedAt, Zenon
<1> HIDE DEF one
<1>6. Received'[K] = Received[K] + one
  BY <1>3, <1>4, <1>5
<1> QED
  BY <1>6, Zenon DEF one

\* At the beginning of a run nothing has been received.
LEMMA ReceivedNone ==
    ASSUME NEW s \in Scenario, Fresh(s), NEW K \in SUBSET Answers
    PROVE  Received[K] = 0
<1>1. Weight(K, ended) = 0
  BY WeightZero, Zenon DEF Fresh
<1>2. InChannel(results, K) = 0
  BY SlotsEmpty, Zenon DEF Fresh
<1>3. Carried(wpc, held, K) = 0
  <2> DEFINE p == Carries(wpc, held, K)
  <2>1. \A w \in Workers : p[w] \notin {"in"}
    BY Zenon DEF Fresh, Carries
  <2> HIDE DEF p
  <2>2. At(p, {"in"}) = 0
    BY <2>1, AtNone, Zenon
  <2> QED
    BY <2>2, Zenon DEF p, Carried
<1> QED
  BY <1>1, <1>2, <1>3, ReceivedAt

\* When a run is summed up everything has been received.
LEMMA ReceivedAll ==
    ASSUME LoadInvariant, collector = "summarized", NEW K \in SUBSET Answers
    PROVE  Received[K] = Weight(K, ended)
<1>1. results = <<>> /\ LoadTypeOK /\ \A w \in Workers : wpc[w] = "gone"
  BY Zenon DEF LoadInvariant, CountInv, NoSendAfterClose
<1>2. InChannel(results, K) = 0
  BY <1>1, SlotsEmpty, Zenon
<1>3. Carried(wpc, held, K) = 0
  <2> DEFINE p == Carries(wpc, held, K)
  <2>1. \A w \in Workers : p[w] \notin {"in"}
    BY <1>1, Zenon DEF Carries
  <2> HIDE DEF p
  <2>2. At(p, {"in"}) = 0
    BY <2>1, AtNone, Zenon
  <2> QED
    BY <2>2, Zenon DEF p, Carried
<1>4. Weight(K, ended) \in Nat
  BY <1>1, ReceivedType, Zenon
<1> QED
  BY <1>2, <1>3, <1>4, ReceivedAt

-----------------------------------------------------------------------------
(***************************************************************************)
(* The collector's tally.  Of a soak run: every record of a post that was  *)
(* received is produced or lost, the records lost are those of the posts   *)
(* received that ended badly, and some are lost exactly when a post failed.*)
(* Of either: while there is room for samples, the latencies kept are      *)
(* those of the posts received.                                            *)
(***************************************************************************)
Got == [a \in Answers |-> Received[{a}]]
Losses == [a \in Answers |-> Got[a] * Loss(a)]

SoakInv ==
    Tool = "soak" =>
        /\ totals.produced \in Nat /\ totals.lost \in Nat
        /\ totals.attempted = Records * totals.requests
        /\ totals.attempted = totals.produced + totals.lost
        /\ totals.lost = 0 <=> totals.failed = 0
        /\ totals.succeeded = Received[Well]
        /\ totals.lost = Weight(Answers, Losses)

SampleInv ==
    /\ sampled \in [Latencies -> Nat]
    /\ totals.requests <= scenario.samples =>
          /\ Weight(Latencies, sampled) = totals.requests
          /\ \A l \in Nat : Weight({m \in Latencies : m <= l}, sampled) = Received[UpTo(l)]

TallyInv ==
    /\ results \in Seq(AnswersTo(Records))
    /\ \A w \in Workers : wpc[w] = "send" => held[w] \in AnswersTo(Records)
    /\ Got \in [Answers -> Nat]
    /\ SoakInv
    /\ SampleInv

\* The sets of answers it speaks of.
LEMMA Kinds ==
    /\ Well \in SUBSET Answers
    /\ \A l : UpTo(l) \in SUBSET Answers
    /\ \A a \in Answers : /\ a.latency \in Latencies /\ a.bad \in Nat
                          /\ {a} \in SUBSET Answers
                          /\ a \in Well <=> a.ending = "offsets" /\ a.bad = 0
                          /\ \A l : a \in UpTo(l) <=> a.latency <= l
    /\ \A n : AnswersTo(n) \in SUBSET Answers /\ \A a \in AnswersTo(n) : a.bad <= n
<1>1. \A a \in Answers : a.latency \in Latencies /\ a.bad \in 0..MaxRecords
  BY Zenon DEF Answers
<1>2. \A a \in Answers : a.bad \in Nat
  BY <1>1, LoadAssumption
<1> QED
  BY <1>1, <1>2, Zenon DEF Well, UpTo, AnswersTo

\* What a proper answer loses.
LEMMA LossType ==
    ASSUME LoadTypeOK, NEW a \in Answers
    PROVE  Loss(a) \in Nat
<1>1. a.bad \in Nat /\ Records \in Nat
  BY Kinds, ScenarioShape
<1> QED
  BY <1>1, Zenon DEF Loss

\* The numbers of an empty tally.
LEMMA TallyStarts ==
    ASSUME NEW s \in Scenario, Fresh(s)
    PROVE  TallyInv
<1>1. \A K \in SUBSET Answers : Received[K] = 0
  BY ReceivedNone, Zenon
<1>2. Records \in Nat
  <2>1. scenario = s /\ s.records \in 1..MaxRecords
    BY Zenon DEF Fresh, Scenario
  <2> QED
    BY <2>1, LoadAssumption DEF Records
<1>3. /\ totals.requests = 0 /\ totals.succeeded = 0 /\ totals.failed = 0
      /\ totals.attempted = 0 /\ totals.produced = 0 /\ totals.lost = 0
  BY Zenon DEF Fresh, NoTotals
<1>4. SoakInv
  <2>1. Received[Well] = 0
    BY <1>1, Kinds, Zenon
  <2>2. \A a \in Answers : Losses[a] = 0
    <3>1. \A a \in Answers : Loss(a) \in Int /\ Losses[a] = 0 * Loss(a)
      <4>1. \A a \in Answers : a.bad \in Int
        BY Kinds
      <4>2. \A a \in Answers : Loss(a) \in Int
        BY <1>2, <4>1 DEF Loss
      <4>3. \A a \in Answers : Losses[a] = 0 * Loss(a)
        BY <1>1, Kinds, Zenon DEF Losses, Got
      <4> QED
        BY <4>2, <4>3, Zenon
    <3> QED
      BY <3>1
  <2>3. Weight(Answers, Losses) = 0
    BY <2>2, WeightZero, Zenon
  <2> QED
    BY <1>2, <1>3, <2>1, <2>3 DEF SoakInv
<1>5. SampleInv
  <2>1. sampled \in [Latencies -> Nat] /\ \A m \in Latencies : sampled[m] = 0
    BY DEF Fresh
  <2>2. Weight(Latencies, sampled) = 0
    BY <2>1, WeightZero, Zenon
  <2>3. \A l \in Nat : Weight({m \in Latencies : m <= l}, sampled) = 0 /\ Received[UpTo(l)] = 0
    BY <1>1, <2>1, Kinds, WeightZero, Zenon
  <2> QED
    BY <1>3, <2>1, <2>2, <2>3, Zenon DEF SampleInv
<1>6. results \in Seq(AnswersTo(Records)) /\ \A w \in Workers : wpc[w] # "send"
  BY DEF Fresh
<1>7. Got \in [Answers -> Nat]
  <2>1. \A a \in Answers : Received[{a}] = 0
    BY <1>1, Kinds, Zenon
  <2> QED
    BY <2>1 DEF Got
<1> QED
  BY <1>4, <1>5, <1>6, <1>7, Zenon DEF TallyInv

\* A step that receives nothing leaves the tally alone.
LEMMA TallyQuiet ==
    ASSUME LoadTypeOK, TallyInv,
           \/ UNCHANGED loadVars \/ TimerFires \/ CloseResults \/ Summarize
           \/ \E w \in Workers : Worker(w)
    PROVE  TallyInv'
<1>1. Received' = Received
  BY ReceivedSame, Zenon
<1>2. totals' = totals /\ sampled' = sampled /\ scenario' = scenario
  BY Zenon DEF loadVars, TimerFires, CloseResults, Summarize, Worker, SoakLoop, BenchLoop, Select,
               PostOnce, Send
<1>3. SoakInv' /\ SampleInv' /\ Got' = Got
  BY <1>1, <1>2, Zenon DEF TallyInv, SoakInv, SampleInv, Tool, Records, Losses, Got, Loss
<1> DEFINE A == AnswersTo(Records)
           Good == results \in Seq(A) /\ \A w \in Workers : wpc[w] = "send" => held[w] \in A
<1>0. A' = A
  BY <1>2, Zenon DEF Records
<1> HIDE DEF A
<1>4. Good'
  <2>0. /\ results \in Seq(A) /\ \A w \in Workers : wpc[w] = "send" => held[w] \in A
        /\ wpc \in [Workers -> Pcs] /\ held \in [Workers -> Sent] /\ A' = A
    BY <1>0, Zenon DEF TallyInv, LoadTypeOK, A
  <2>1. CASE UNCHANGED loadVars \/ TimerFires \/ CloseResults \/ Summarize
    <3>1. results' = results /\ wpc' = wpc /\ held' = held
      BY <2>1, Zenon DEF loadVars, TimerFires, CloseResults, Summarize
    <3> QED
      BY <2>0, <3>1, Zenon
  <2>2. ASSUME NEW w \in Workers, SoakLoop(w) \/ BenchLoop(w) \/ Select(w) PROVE Good'
    <3>1. /\ held' = held /\ results' = results
          /\ \E to \in {"select", "post", "gone"} : wpc' = [wpc EXCEPT ![w] = to]
      BY <2>2, Zenon DEF SoakLoop, BenchLoop, Select
    <3> QED
      BY <2>0, <3>1, Zenon
  <2>3. ASSUME NEW w \in Workers, NEW a \in scenario.answers, PostOnce(w, a) PROVE Good'
    <3>1. a \in A
      BY ScenarioShape, Zenon DEF A
    <3> QED
      BY <2>0, <2>3, <3>1, Zenon DEF PostOnce
  <2>4. ASSUME NEW w \in Workers, Send(w) PROVE Good'
    <3>1. /\ wpc[w] = "send" /\ results' = Append(results, held[w])
          /\ wpc' = [wpc EXCEPT ![w] = "loop"] /\ held' = [held EXCEPT ![w] = NoAnswer]
      BY <2>4, Zenon DEF Send
    <3>2. results' \in Seq(A)
      BY <2>0, <3>1
    <3> QED
      BY <2>0, <3>1, <3>2, Zenon
  <2> QED
    BY <2>1, <2>2, <2>3, <2>4, Zenon DEF Worker
<1> QED
  BY <1>3, <1>4, Zenon DEF TallyInv, A

\* What SoakAccount adds for a post.
LEMMA SoakAccountStep ==
    ASSUME LoadTypeOK, SoakInv, Tool = "soak", NEW a \in AnswersTo(Records)
    PROVE  LET t == Account(totals, a) IN
           /\ t.produced \in Nat /\ t.lost \in Nat
           /\ t.requests = totals.requests + 1
           /\ t.attempted = totals.attempted + Records
           /\ t.attempted = t.produced + t.lost
           /\ t.lost = 0 <=> t.failed = 0
           /\ t.succeeded = totals.succeeded + (IF a \in Well THEN 1 ELSE 0)
           /\ t.lost = totals.lost + Loss(a)
<1>0. /\ totals.requests \in Nat /\ totals.succeeded \in Nat /\ totals.failed \in Nat
      /\ totals.produced \in Nat /\ totals.lost \in Nat
      /\ totals.attempted = totals.produced + totals.lost
      /\ totals.lost = 0 <=> totals.failed = 0
      /\ Records \in Nat \ {0}
  BY ScenarioShape, Zenon DEF LoadTypeOK, SoakInv
<1>1. /\ a \in Answers /\ a.bad \in Nat /\ a.bad <= Records
      /\ a \in Well <=> a.ending = "offsets" /\ a.bad = 0
  BY Kinds, Zenon
<1> DEFINE t == Account(totals, a)
<1>2. DOMAIN totals = {"requests", "succeeded", "failed", "attempted", "produced", "lost"}
  BY Zenon DEF LoadTypeOK, NoTotals
<1>3. t = SoakAccount(totals, a)
  BY Zenon DEF Account
<1> HIDE DEF t
<1> SUFFICES /\ t.produced \in Nat /\ t.lost \in Nat
             /\ t.requests = totals.requests + 1
             /\ t.attempted = totals.attempted + Records
             /\ t.attempted = t.produced + t.lost
             /\ t.lost = 0 <=> t.failed = 0
             /\ t.succeeded = totals.succeeded + (IF a \in Well THEN 1 ELSE 0)
             /\ t.lost = totals.lost + Loss(a)
  BY Zenon DEF t
<1> DEFINE bad == a.bad
<1> HIDE DEF bad
<1>4. CASE a.ending = "offsets"
  <2>1. t = Add(totals, bad = 0, Records, Records - bad, bad) /\ Loss(a) = bad
    BY <1>3, <1>4, Zenon DEF SoakAccount, Loss, bad
  <2>2. /\ t.requests = totals.requests + 1 /\ t.attempted = totals.attempted + Records
        /\ t.produced = totals.produced + (Records - bad) /\ t.lost = totals.lost + bad
        /\ bad = 0 => t.succeeded = totals.succeeded + 1 /\ t.failed = totals.failed
        /\ bad # 0 => t.succeeded = totals.succeeded /\ t.failed = totals.failed + 1
    BY <1>2, <2>1, Zenon DEF Add
  <2>3. bad \in Nat /\ bad <= Records /\ (a \in Well <=> bad = 0)
    BY <1>1, <1>4, Zenon DEF bad
  <2> QED
    BY <1>0, <2>1, <2>2, <2>3
<1>5. CASE a.ending # "offsets"
  <2>1. t = Add(totals, FALSE, Records, 0, Records) /\ Loss(a) = Records
    BY <1>3, <1>5, Zenon DEF SoakAccount, Loss
  <2>2. /\ t.requests = totals.requests + 1 /\ t.succeeded = totals.succeeded
        /\ t.failed = totals.failed + 1 /\ t.attempted = totals.attempted + Records
        /\ t.produced = totals.produced + 0 /\ t.lost = totals.lost + Records
    BY <1>2, <2>1, Zenon DEF Add
  <2>3. (IF a \in Well THEN 1 ELSE 0) = 0
    BY <1>1, <1>5, Zenon
  <2>4. t.succeeded = totals.succeeded + 0
    BY <1>0, <2>2
  <2>5. /\ t.produced \in Nat /\ t.lost \in Nat /\ t.attempted = t.produced + t.lost
        /\ t.lost # 0 /\ t.failed # 0
    BY <1>0, <2>2
  <2> QED
    BY <2>1, <2>2, <2>3, <2>4, <2>5, Zenon
<1> QED
  BY <1>4, <1>5, Zenon

\* A receipt raises the count of the answer at the head, and no other.
LEMMA GotMore ==
    ASSUME LoadTypeOK, TallyInv, Receive
    PROVE  LET a == Head(results) IN
           /\ a \in AnswersTo(Records) /\ a \in Answers
           /\ Got' \in [Answers -> Nat] /\ Got'[a] = Got[a] + 1
           /\ \A b \in Answers \ {a} : Got'[b] = Got[b]
<1> DEFINE a == Head(results)
<1>1. a \in AnswersTo(Records)
  <2>1. results \in Seq(AnswersTo(Records)) /\ results # <<>>
    BY Zenon DEF Receive, TallyInv
  <2> QED
    BY <2>1
<1>2. a \in Answers
  BY <1>1, Kinds, Zenon
<1>3. ASSUME NEW b \in Answers
      PROVE  Received'[{b}] = Received[{b}] + (IF a \in {b} THEN 1 ELSE 0)
  BY Kinds, ReceivedMore, Zenon
<1> HIDE DEF a
<1>4. \A b \in Answers : Got[b] = Received[{b}] /\ Got'[b] = Received'[{b}] /\ Got[b] \in Nat
  BY Zenon DEF TallyInv, Got
<1>5. ASSUME NEW b \in Answers
      PROVE  /\ Got'[b] \in Nat /\ (b = a => Got'[b] = Got[b] + 1)
             /\ (b # a => Got'[b] = Got[b])
  <2>1. Got'[b] = Got[b] + (IF b = a THEN 1 ELSE 0) /\ Got[b] \in Nat
    BY <1>3, <1>4, Zenon
  <2> QED
    BY <2>1
<1>6. Got' \in [Answers -> Nat]
  BY <1>5, Zenon DEF Got
<1> QED
  BY <1>1, <1>2, <1>5, <1>6, Zenon DEF a

\* A receipt moves a post of a soak run from the channel to the counters.
LEMMA SoakReceive ==
    ASSUME LoadTypeOK, TallyInv, Receive
    PROVE  SoakInv'
<1> DEFINE a == Head(results)
<1>1. /\ totals' = Account(totals, a) /\ scenario' = scenario /\ SoakInv
      /\ Tool' = Tool /\ Records' = Records
  BY Zenon DEF Receive, TallyInv, Tool, Records
<1>2. /\ a \in AnswersTo(Records) /\ a \in Answers
      /\ Got \in [Answers -> Nat] /\ Got' \in [Answers -> Nat] /\ Got'[a] = Got[a] + 1
      /\ \A b \in Answers \ {a} : Got'[b] = Got[b]
  BY GotMore, Zenon DEF TallyInv
<1> SUFFICES ASSUME Tool = "soak"
             PROVE  /\ totals'.produced \in Nat /\ totals'.lost \in Nat
                    /\ totals'.attempted = Records * totals'.requests
                    /\ totals'.attempted = totals'.produced + totals'.lost
                    /\ totals'.lost = 0 <=> totals'.failed = 0
                    /\ totals'.succeeded = Received'[Well]
                    /\ totals'.lost = Weight(Answers, Losses')
  BY <1>1, Zenon DEF SoakInv
<1>3. Received'[Well] = Received[Well] + (IF a \in Well THEN 1 ELSE 0)
  BY Kinds, ReceivedMore, Zenon
<1> HIDE DEF a
<1>4. /\ totals'.produced \in Nat /\ totals'.lost \in Nat
      /\ totals'.requests = totals.requests + 1
      /\ totals'.attempted = totals.attempted + Records
      /\ totals'.attempted = totals'.produced + totals'.lost
      /\ totals'.lost = 0 <=> totals'.failed = 0
      /\ totals'.succeeded = totals.succeeded + (IF a \in Well THEN 1 ELSE 0)
      /\ totals'.lost = totals.lost + Loss(a)
  BY <1>1, <1>2, SoakAccountStep, Zenon
<1>5. /\ Records \in Nat /\ totals.requests \in Nat
      /\ totals.attempted = Records * totals.requests
      /\ totals.succeeded = Received[Well]
      /\ totals.lost = Weight(Answers, Losses)
  BY <1>1, ScenarioShape, Zenon DEF LoadTypeOK, SoakInv
<1>6. totals'.attempted = Records * totals'.requests
  <2>1. \A r, n \in Nat : r * (n + 1) = r * n + r
    OBVIOUS
  <2> QED
    BY <1>4, <1>5, <2>1, ZenonT(60)
<1>7. totals'.succeeded = Received'[Well]
  BY <1>3, <1>4, <1>5, Zenon
<1>8. totals'.lost = Weight(Answers, Losses')
  <2>1. \A b \in Answers : Loss(b) \in Nat
    BY LossType, Zenon
  <2>2. \A b \in Answers : Losses[b] = Got[b] * Loss(b) /\ Losses'[b] = Got'[b] * Loss(b)
    BY <1>1, Zenon DEF Losses, Loss
  <2>3. \A i, j \in Nat : i * j \in Nat /\ (i + 1) * j = i * j + j
    OBVIOUS
  <2>0. \A b \in Answers : Got[b] \in Nat /\ Got'[b] \in Nat
    BY <1>2, Zenon
  <2>4. Losses'[a] = Losses[a] + Loss(a) /\ \A b \in Answers \ {a} : Losses'[b] = Losses[b]
    <3>1. Losses'[a] = (Got[a] + 1) * Loss(a) /\ Losses[a] = Got[a] * Loss(a)
      BY <1>2, <2>2, Zenon
    <3>2. (Got[a] + 1) * Loss(a) = Got[a] * Loss(a) + Loss(a)
      BY <1>2, <2>0, <2>1, <2>3, Zenon
    <3>3. \A b \in Answers \ {a} : Losses'[b] = Losses[b]
      BY <1>2, <2>2, Zenon
    <3> QED
      BY <3>1, <3>2, <3>3, Zenon
  <2>5. Losses \in [Answers -> Nat] /\ Losses' \in [Answers -> Nat]
    <3>1. \A b \in Answers : Losses[b] \in Nat /\ Losses'[b] \in Nat
      BY <2>0, <2>1, <2>2, <2>3, Zenon
    <3> QED
      BY <3>1, Zenon DEF Losses
  <2> DEFINE w == Losses
             v == Losses'
             k == Loss(a)
  <2>6. /\ w \in [Answers -> Nat] /\ v \in [Answers -> Nat] /\ k \in Nat
        /\ v[a] = w[a] + k /\ \A b \in Answers \ {a} : v[b] = w[b]
    BY <1>2, <2>1, <2>4, <2>5, Zenon
  <2> HIDE DEF w, v, k
  <2>7. Weight(Answers, v) = Weight(Answers, w) + k
    BY <1>2, <2>6, AnswersFinite, WeightRaise
  <2> QED
    BY <1>4, <1>5, <2>7, Zenon DEF w, v, k
<1> QED
  BY <1>4, <1>6, <1>7, <1>8, Zenon

\* A receipt keeps the latency of the post, if there is room.
LEMMA SampleReceive ==
    ASSUME LoadTypeOK, TallyInv, Receive
    PROVE  SampleInv'
<1> DEFINE a == Head(results)
<1>1. /\ totals' = Account(totals, a) /\ scenario' = scenario /\ SampleInv
      /\ sampled' = IF totals.requests < scenario.samples
                      THEN [sampled EXCEPT ![a.latency] = @ + 1] ELSE sampled
  BY Zenon DEF Receive, TallyInv
<1>2. a \in Answers /\ a.latency \in Latencies
  <2>1. a \in Answers
    BY GotMore, Zenon
  <2> QED
    BY <2>1, Kinds, Zenon
<1>3. ASSUME NEW K \in SUBSET Answers
      PROVE  Received'[K] = Received[K] + (IF a \in K THEN 1 ELSE 0)
  BY ReceivedMore, Zenon
<1> HIDE DEF a
<1>4. totals'.requests = totals.requests + 1 /\ totals.requests \in Nat /\ scenario.samples \in Nat
  BY <1>1, AccountStep, ScenarioShape, Zenon DEF LoadTypeOK
<1>5. sampled \in [Latencies -> Nat] /\ sampled' \in [Latencies -> Nat]
  BY <1>1, <1>2 DEF SampleInv
<1>6. ASSUME totals'.requests <= scenario.samples
      PROVE  /\ Weight(Latencies, sampled') = totals'.requests
             /\ \A l \in Nat : Weight({m \in Latencies : m <= l}, sampled') = Received'[UpTo(l)]
  <2>1. totals.requests < scenario.samples /\ totals.requests <= scenario.samples
    BY <1>4, <1>6
  <2>2. sampled' = [sampled EXCEPT ![a.latency] = @ + 1] /\ IsFiniteSet(Latencies)
    BY <1>1, <2>1, LoadAssumption, Zenon
  <2>3. ASSUME NEW K \in SUBSET Latencies
        PROVE  Weight(K, sampled') = Weight(K, sampled) + (IF a.latency \in K THEN 1 ELSE 0)
    <3> DEFINE y == a.latency
    <3>1. /\ y \in Latencies /\ sampled'[y] = sampled[y] + 1
          /\ \A m \in Latencies \ {y} : sampled'[m] = sampled[m]
      BY <1>2, <1>5, <2>2
    <3>2. IsFiniteSet(Latencies) /\ sampled \in [Latencies -> Nat] /\ sampled' \in [Latencies -> Nat]
      BY <1>5, <2>2, Zenon
    <3> HIDE DEF y
    <3>3. Weight(K, sampled') = Weight(K, sampled) + (IF y \in K THEN 1 ELSE 0)
      BY <3>1, <3>2, WeightBump
    <3> QED
      BY <3>3, Zenon DEF y
  <2>4. /\ Weight(Latencies, sampled) = totals.requests
        /\ \A l \in Nat : Weight({m \in Latencies : m <= l}, sampled) = Received[UpTo(l)]
    BY <1>1, <2>1, Zenon DEF SampleInv
  <2>5. Weight(Latencies, sampled') = totals'.requests
    BY <1>2, <1>4, <2>3, <2>4, Zenon
  <2>6. ASSUME NEW l \in Nat
        PROVE  Weight({m \in Latencies : m <= l}, sampled') = Received'[UpTo(l)]
    <3> DEFINE K == {m \in Latencies : m <= l}
    <3>1. Weight(K, sampled') = Weight(K, sampled) + (IF a.latency \in K THEN 1 ELSE 0)
      BY <2>3, Zenon
    <3>2. Received'[UpTo(l)] = Received[UpTo(l)] + (IF a \in UpTo(l) THEN 1 ELSE 0)
      BY <1>3, Kinds, Zenon
    <3>3. a.latency \in K <=> a \in UpTo(l)
      BY <1>2, Kinds, Zenon
    <3>4. Weight(K, sampled) = Received[UpTo(l)]
      BY <2>4, Zenon
    <3> HIDE DEF K
    <3>5. Weight(K, sampled') = Received'[UpTo(l)]
      BY <3>1, <3>2, <3>3, <3>4, Zenon
    <3> QED
      BY <3>5, Zenon DEF K
  <2> QED
    BY <2>5, <2>6, Zenon
<1> QED
  BY <1>1, <1>5, <1>6, Zenon DEF SampleInv

\* The invariant of a run.
RunInvariant == LoadInvariant /\ TallyInv

\* It holds when a run begins.
LEMMA RunStarts ==
    ASSUME NEW s \in Scenario, Fresh(s)
    PROVE  RunInvariant
BY LoadStarts, TallyStarts, Zenon DEF RunInvariant

\* It is preserved as the run goes on.
LEMMA RunGoesOn ==
    ASSUME RunInvariant, [LoadNext]_loadVars
    PROVE  RunInvariant'
<1>1. LoadTypeOK /\ TallyInv /\ LoadInvariant
  BY Zenon DEF RunInvariant, LoadInvariant
<1>2. CASE Receive
  <2>1. SoakInv' /\ SampleInv' /\ Got' \in [Answers -> Nat]
    BY <1>1, <1>2, SoakReceive, SampleReceive, GotMore, Zenon
  <2>2. /\ results \in Seq(AnswersTo(Records)) /\ results # <<>> /\ results' = Tail(results)
        /\ wpc' = wpc /\ held' = held /\ Records' = Records
    BY <1>1, <1>2, Zenon DEF Receive, TallyInv, Records
  <2>3. results' \in Seq(AnswersTo(Records))
    BY <2>2
  <2> QED
    BY <1>1, <2>1, <2>2, <2>3, LoadGoesOn, Zenon DEF TallyInv, RunInvariant
<1>3. CASE \/ UNCHANGED loadVars \/ TimerFires \/ CloseResults \/ Summarize
           \/ \E w \in Workers : Worker(w)
  BY <1>1, <1>3, LoadGoesOn, TallyQuiet, Zenon DEF RunInvariant
<1> QED
  BY <1>2, <1>3, Zenon DEF LoadNext, Collector

(***************************************************************************)
(* The inductive invariant of a run.                                       *)
(***************************************************************************)
THEOREM RunInvariantHolds == LoadSafetySpec => []RunInvariant
<1>1. LoadInit => RunInvariant
  BY RunStarts, Zenon DEF LoadInit
<1>2. RunInvariant /\ [LoadNext]_loadVars => RunInvariant'
  BY RunGoesOn, Zenon
<1> QED
  BY <1>1, <1>2, PTL DEF LoadSafetySpec

\* When a run is summed up, what was received is what ended.
LEMMA LossesAll ==
    ASSUME LoadInvariant, collector = "summarized"
    PROVE  Received[Well] = EndedWell /\ Weight(Answers, Losses) = RecordsLost
<1>1. \A K \in SUBSET Answers : Received[K] = Weight(K, ended)
  BY ReceivedAll, Zenon
<1>2. Received[Well] = EndedWell
  BY <1>1, Kinds, Zenon DEF Well, EndedWell
<1>3. ASSUME NEW a \in Answers PROVE Got[a] = ended[a]
  <2>1. ended[a] \in Nat
    BY Zenon DEF LoadInvariant, LoadTypeOK
  <2>2. IsFiniteSet({}) /\ {} \cup {a} = {a} /\ a \notin {} /\ Weight({}, ended) = 0
    BY FS_EmptySet, WeightEmpty, Zenon
  <2>3. Weight({} \cup {a}, ended) = Weight({}, ended) + ended[a]
    <3>1. \A x \in {} \cup {a} : ended[x] \in Nat
      BY <2>1, Zenon
    <3> QED
      BY <2>2, <3>1, WeightAdd, Zenon
  <2>4. Weight({a}, ended) = 0 + ended[a]
    BY <2>2, <2>3, Zenon
  <2>5. Got[a] = Weight({a}, ended)
    BY <1>1, Kinds, Zenon DEF Got
  <2> QED
    BY <2>1, <2>4, <2>5
<1> DEFINE w == [a \in Answers |-> ended[a] * Loss(a)]
<1>4. \A a \in Answers : Losses[a] = w[a]
  BY <1>3, Zenon DEF Losses
<1>5. RecordsLost = Weight(Answers, w)
  BY Zenon DEF RecordsLost
<1> HIDE DEF w
<1>6. Weight(Answers, Losses) = Weight(Answers, w)
  BY <1>4, WeightSame, Zenon
<1> QED
  BY <1>2, <1>5, <1>6, Zenon

\* The counters of a soak run that is summed up mean what is documented.
LEMMA FailuresMeant ==
    ASSUME RunInvariant
    PROVE  SoakFailureSemantics
<1> SUFFICES ASSUME collector = "summarized", Tool = "soak" PROVE SoakFailureSemantics
  BY Zenon DEF SoakFailureSemantics
<1>1. LoadInvariant /\ SoakInv
  BY Zenon DEF RunInvariant, TallyInv
<1>2. totals.requests = begun
  BY <1>1, Summed, Zenon DEF SummaryCountsEveryPost
<1>3. Received[Well] = EndedWell /\ Weight(Answers, Losses) = RecordsLost
  BY <1>1, LossesAll, Zenon
<1> QED
  BY <1>1, <1>2, <1>3, Zenon DEF SoakInv, SoakFailureSemantics

(***************************************************************************)
(* No worker sends on the closed channel.                                  *)
(***************************************************************************)
THEOREM ChannelSafe == LoadSafetySpec => []NoSendAfterClose
<1>1. RunInvariant => NoSendAfterClose
  BY Zenon DEF RunInvariant, LoadInvariant
<1> QED
  BY <1>1, RunInvariantHolds, PTL

(***************************************************************************)
(* The summary has every post, once.                                       *)
(***************************************************************************)
THEOREM EveryPostCounted == LoadSafetySpec => []SummaryCountsEveryPost
<1>1. RunInvariant => SummaryCountsEveryPost
  BY Summed, Zenon DEF RunInvariant
<1> QED
  BY <1>1, RunInvariantHolds, PTL

(***************************************************************************)
(* -requests is met exactly unless the timer fires first.                  *)
(***************************************************************************)
THEOREM LimitExact == LoadSafetySpec => []RequestLimitExact
<1>1. RunInvariant => RequestLimitExact
  BY Limited, Zenon DEF RunInvariant
<1> QED
  BY <1>1, RunInvariantHolds, PTL

(***************************************************************************)
(* The summary of a soak run keeps to the failure semantics of its         *)
(* documentation.                                                          *)
(***************************************************************************)
THEOREM SoakFailuresMeant == LoadSafetySpec => []SoakFailureSemantics
<1>1. RunInvariant => SoakFailureSemantics
  BY FailuresMeant, Zenon
<1> QED
  BY <1>1, RunInvariantHolds, PTL

-----------------------------------------------------------------------------
(***************************************************************************)
(* The p99 of the samples.                                                 *)
(***************************************************************************)
\* A part weighs no more than the whole.
LEMMA WeightMono ==
    ASSUME NEW S, IsFiniteSet(S), NEW w, \A x \in S : w[x] \in Nat, NEW T \in SUBSET S
    PROVE  Weight(T, w) <= Weight(S, w)
<1>1. IsFiniteSet(Units(S, w))
  BY UnitsFinite, Zenon
<1>2. Units(T, w) \subseteq Units(S, w)
  BY Zenon DEF Units
<1> QED
  BY <1>1, <1>2, FS_Subset, Zenon DEF Weight

\* A finite set of integers has a greatest member.
LEMMA GreatestMember ==
    ASSUME NEW S \in SUBSET Int, IsFiniteSet(S), S # {}
    PROVE  \E x \in S : \A y \in S : y <= x
<1> DEFINE n == Cardinality(S) - 1
<1>1. Cardinality(S) \in Nat /\ Cardinality(S) # 0
  BY FS_CardinalityType, FS_EmptySet, Zenon
<1>2. n \in 0..(Cardinality(S) - 1)
  BY <1>1
<1> DEFINE x == Nth(S, n)
<1>3. x \in S /\ Rank(S, x) = n
  BY <1>2, RankTaken, Zenon
<1> HIDE DEF x
<1>4. ASSUME NEW y \in S PROVE y <= x
  <2>1. Rank(S, y) \in 0..(Cardinality(S) - 1) /\ (x < y => Rank(S, x) < Rank(S, y))
    BY <1>3, RankBounds, Zenon
  <2> QED
    BY <1>1, <1>3, <2>1
<1> QED
  BY <1>3, <1>4, Zenon

\* The p99 exceeds a limit just when no more samples than its index are within
\* the limit.
LEMMA IndexAbove ==
    ASSUME NEW kept \in [Latencies -> Nat], Weight(Latencies, kept) > 0, NEW limit \in Nat
    PROVE  Percentile(kept, 99) > limit <=>
               ~(CountUpTo(kept, limit) > ((Weight(Latencies, kept) - 1) * 99) \div 100)
<1> DEFINE n == Weight(Latencies, kept)
           idx == ((n - 1) * 99) \div 100
           Low(l) == {m \in Latencies : m <= l}
           above == {l \in Latencies : CountUpTo(kept, l) > idx}
           p == CHOOSE l \in above : \A m \in above : l <= m
<1>1. /\ DOMAIN kept = Latencies /\ IsFiniteSet(Latencies) /\ Latencies \subseteq Int
      /\ \A m \in Latencies : kept[m] \in Nat
  BY LoadAssumption
<1>2. n \in Nat
  BY <1>1, WeightType, Zenon
<1>3. \A l : CountUpTo(kept, l) = Weight(Low(l), kept)
  BY <1>1, Zenon DEF CountUpTo
<1>4. Percentile(kept, 99) = p
  <2>1. n # 0
    BY <1>2
  <2> QED
    BY <1>1, <2>1, Zenon DEF Percentile
<1> HIDE DEF n
<1>5. idx \in Nat /\ idx < n
  <2>1. \A k \in Nat : (k * 99) \div 100 \in Nat /\ (k * 99) \div 100 <= k
    OBVIOUS
  <2>2. n - 1 \in Nat
    BY <1>2 DEF n
  <2>3. idx \in Nat /\ idx <= n - 1
    BY <2>1, <2>2, Zenon
  <2> HIDE DEF idx
  <2> QED
    BY <1>2, <2>3
<1> HIDE DEF idx
<1>6. ASSUME NEW l PROVE IsFiniteSet(Low(l)) /\ CountUpTo(kept, l) \in Nat
  <2>1. IsFiniteSet(Low(l)) /\ \A m \in Low(l) : kept[m] \in Nat
    BY <1>1, FS_Subset, Zenon
  <2> HIDE DEF Low
  <2>2. Weight(Low(l), kept) \in Nat
    BY <2>1, WeightType, Zenon
  <2> QED
    BY <1>3, <2>1, <2>2, Zenon
<1>7. above # {}
  <2>1. Latencies # {}
    <3>1. Latencies = {} => n = 0
      BY WeightEmpty, Zenon DEF n
    <3> QED
      BY <1>2, <3>1 DEF n
  <2>2. PICK top \in Latencies : \A m \in Latencies : m <= top
    BY <1>1, <2>1, GreatestMember, Zenon
  <2>3. Low(top) = Latencies
    BY <2>2, Zenon
  <2>4. CountUpTo(kept, top) = n
    BY <1>3, <2>3, Zenon DEF n
  <2> QED
    BY <1>2, <1>5, <2>4
<1>8. p \in above /\ \A m \in above : p <= m
  <2>1. IsFiniteSet(above) /\ above \in SUBSET Int
    BY <1>1, FS_Subset, Zenon
  <2>2. \E l \in above : \A m \in above : l <= m
    BY <1>7, <2>1, LeastMember, Zenon
  <2> HIDE DEF above
  <2> QED
    BY <2>2, Zenon
<1> HIDE DEF p
<1>9. p \in Latencies /\ p \in Int /\ CountUpTo(kept, p) > idx
  BY <1>1, <1>8, Zenon
<1>10. ASSUME ~(CountUpTo(kept, limit) > idx) PROVE p > limit
  <2> SUFFICES ASSUME p <= limit PROVE FALSE
    BY <1>9
  <2>1. Low(p) \subseteq Low(limit)
    <3>1. \A i, j, k \in Int : i <= j /\ j <= k => i <= k
      OBVIOUS
    <3>2. limit \in Int /\ \A m \in Latencies : m \in Int
      BY <1>1
    <3> QED
      BY <1>9, <3>1, <3>2, Zenon
  <2>2. IsFiniteSet(Low(limit)) /\ \A m \in Low(limit) : kept[m] \in Nat
    <3>1. IsFiniteSet(Low(limit))
      BY <1>6, Zenon
    <3> QED
      BY <1>1, <3>1, Zenon
  <2>3. CountUpTo(kept, p) <= CountUpTo(kept, limit)
    <3> HIDE DEF Low
    <3> QED
      BY <1>3, <2>1, <2>2, WeightMono, Zenon
  <2>4. CountUpTo(kept, p) \in Nat /\ CountUpTo(kept, limit) \in Nat
    BY <1>6, Zenon
  <2> QED
    BY <1>5, <1>9, <1>10, <2>3, <2>4
<1>11. ASSUME CountUpTo(kept, limit) > idx PROVE ~(p > limit)
  <2>1. Low(limit) # {}
    <3>1. Low(limit) = {} => CountUpTo(kept, limit) = 0
      BY <1>3, WeightEmpty, Zenon
    <3> QED
      BY <1>5, <1>11, <3>1
  <2>2. IsFiniteSet(Low(limit)) /\ Low(limit) \in SUBSET Int
    <3>1. IsFiniteSet(Low(limit))
      BY <1>6, Zenon
    <3> QED
      BY <1>1, <3>1, Zenon
  <2>3. PICK top \in Low(limit) : \A m \in Low(limit) : m <= top
    <3> HIDE DEF Low
    <3> QED
      BY <2>1, <2>2, GreatestMember, Zenon
  <2>4. Low(top) = Low(limit) /\ top \in Latencies /\ top \in Int /\ top <= limit
    <3>1. \A i, j, k \in Int : i <= j /\ j <= k => i <= k
      OBVIOUS
    <3>2. limit \in Int /\ \A m \in Latencies : m \in Int
      BY <1>1
    <3>3. top \in Latencies /\ top <= limit
      BY <2>3, Zenon
    <3> QED
      BY <2>3, <3>1, <3>2, <3>3, Zenon
  <2>5. CountUpTo(kept, top) > idx
    BY <1>3, <1>11, <2>4, Zenon
  <2>6. p <= top
    BY <1>8, <2>4, <2>5, Zenon
  <2> QED
    BY <1>9, <2>4, <2>6
<1>12. p > limit <=> ~(CountUpTo(kept, limit) > idx)
  BY <1>10, <1>11, Zenon
<1> QED
  BY <1>4, <1>12, Zenon DEF idx, n

\* That is to say, the p99 is within a limit just when, one of the samples above
\* it left aside, less than 1% of the others is above it.
LEMMA PercentileWithin ==
    ASSUME NEW kept \in [Latencies -> Nat], Weight(Latencies, kept) > 0, NEW limit \in Nat,
           Weight(Latencies, kept) \in Nat, CountUpTo(kept, limit) \in Nat
    PROVE  ~(Percentile(kept, 99) > limit) <=>
               100 * ((Weight(Latencies, kept) - CountUpTo(kept, limit)) - 1)
                   < Weight(Latencies, kept) - 1
<1> DEFINE n == Weight(Latencies, kept)
           c == CountUpTo(kept, limit)
<1>1. ~(Percentile(kept, 99) > limit) <=> c > ((n - 1) * 99) \div 100
  BY IndexAbove, Zenon
<1>2. \A i, j \in Nat : i > 0 => (j > ((i - 1) * 99) \div 100 <=> 100 * ((i - j) - 1) < i - 1)
  OBVIOUS
<1>3. c \in Nat /\ n \in Nat /\ n > 0
  BY Zenon
<1> HIDE DEF n, c
<1>4. c > ((n - 1) * 99) \div 100 <=> 100 * ((n - c) - 1) < n - 1
  BY <1>2, <1>3, Zenon
<1> QED
  BY <1>1, <1>4, Zenon DEF n, c

-----------------------------------------------------------------------------
(***************************************************************************)
(* The programs around the runs.  A run that soak makes is one its command *)
(* line asks for; what it exits with is the verdict on the run that was    *)
(* just summed up, whose counters are still those of the last report; and  *)
(* nothing is posted for options that are invalid.                         *)
(***************************************************************************)
Planned == [for : {"warmup", "measured"}, scenario : Scenario]
Asked(s) == s.tool = "soak" /\ s.records = line.records /\ s.samples = line.samples
IsSeq(s) == s \in Seq({s[i] : i \in DOMAIN s})
Final == reports[Len(reports)]

VerdictInv ==
    IF ParseSoak(line)
      THEN /\ collector = "summarized" /\ Asked(scenario)
           /\ Final.elapsed \in Nat
           /\ Final.totals = totals /\ Final.sampled = sampled
           /\ exit = SoakExit(reports)
      ELSE exit = 2 /\ begun = 0

SoakToolInv ==
    /\ line \in CommandLines
    /\ RunInvariant
    /\ plan \in Seq(Planned) /\ IsSeq(reports)
    /\ plan # <<>> => /\ exit = -1 /\ ParseSoak(line) /\ Asked(scenario)
                      /\ \A i \in 1..Len(plan) : Asked(plan[i].scenario)
    /\ plan = <<>> /\ exit = -1 => begun = 0
    /\ exit # -1 => VerdictInv

\* A run may begin at any time.
LEMMA FreshNext == (\A s \in Scenario : Fresh(s) => RunInvariant)'
<1>1. \A s \in Scenario : Fresh(s) => RunInvariant
  BY RunStarts, Zenon
<1> QED
  BY <1>1, PTL

\* A run that begins satisfies the invariant of a run, whatever the last one left.
LEMMA RunStartsAgain ==
    ASSUME NEW s \in Scenario, StartRun(s)
    PROVE  RunInvariant' /\ scenario' = s
<1>1. Fresh(s)'
  BY Zenon DEF StartRun, Fresh
<1> QED
  BY <1>1, FreshNext, Zenon DEF StartRun

\* The runs of a soak command line are runs, and those it asks for.
LEMMA SoakPlanned ==
    ASSUME line \in CommandLines, line.tool = "soak", ParseSoak(line)
    PROVE  /\ SoakPlan(line) \in Seq(Planned) /\ SoakPlan(line) # <<>>
           /\ \A i \in 1..Len(SoakPlan(line)) : Asked(SoakPlan(line)[i].scenario)
<1>1. /\ line.duration \in Int /\ line.warmup \in Int /\ line.records \in Int /\ line.samples \in Int
      /\ line.clients \subseteq Workers /\ line.answers \subseteq AnswersTo(line.records)
      /\ line.records <= MaxRecords
      /\ line.duration > 0 /\ line.warmup >= 0 /\ line.clients # {} /\ line.records > 0 /\ line.samples > 0
  BY SoakLineAssumption, Zenon DEF ParseSoak, SoakTyped
<1>2. /\ line.duration \in Nat /\ line.warmup \in Nat
      /\ line.records \in 1..MaxRecords /\ line.samples \in Nat \ {0}
  BY <1>1, LoadAssumption
<1>3. ASSUME NEW n \in Nat, NEW for \in {"warmup", "measured"}
      PROVE  Job(for, SoakScenario(line, n)) \in Planned /\ Asked(SoakScenario(line, n))
  <2>1. SoakScenario(line, n) \in Scenario
    <3>1. line.answers \in SUBSET Answers
      BY <1>1, Kinds, Zenon
    <3> QED
      BY <1>1, <1>2, <3>1, Zenon DEF SoakScenario, Scenario
  <2>2. Asked(SoakScenario(line, n))
    BY Zenon DEF SoakScenario, Asked
  <2> QED
    BY <2>1, <2>2, Zenon DEF Job, Planned
<1> DEFINE j == Job("warmup", SoakScenario(line, line.warmup))
           k == Job("measured", SoakScenario(line, line.duration))
<1>4. /\ j \in Planned /\ Asked(j.scenario)
      /\ k \in Planned /\ Asked(k.scenario)
  BY <1>2, <1>3, Zenon DEF Job
<1>5. SoakPlan(line) = <<j, k>> \/ SoakPlan(line) = <<k>>
  BY Zenon DEF SoakPlan
<1> HIDE DEF j, k
<1>6. CASE SoakPlan(line) = <<j, k>>
  <2>1. /\ <<j, k>> \in Seq(Planned) /\ <<j, k>> # <<>> /\ Len(<<j, k>>) = 2
        /\ \A i \in 1..2 : <<j, k>>[i] = j \/ <<j, k>>[i] = k
    BY <1>4
  <2> QED
    BY <1>4, <1>6, <2>1, Zenon
<1>7. CASE SoakPlan(line) = <<k>>
  <2>1. /\ <<k>> \in Seq(Planned) /\ <<k>> # <<>> /\ Len(<<k>>) = 1
        /\ \A i \in 1..1 : <<k>>[i] = k
    BY <1>4
  <2> QED
    BY <1>4, <1>7, <2>1, Zenon
<1> QED
  BY <1>5, <1>6, <1>7, Zenon

\* A report more is still a sequence of reports, and the last of them.
LEMMA OneReportMore ==
    ASSUME NEW s, IsSeq(s), NEW r
    PROVE  IsSeq(Append(s, r)) /\ Append(s, r)[Len(Append(s, r))] = r
<1> DEFINE S == {s[i] : i \in DOMAIN s} \cup {r}
           t == Append(s, r)
<1>1. s \in Seq(S) /\ r \in S
  BY DEF IsSeq
<1> HIDE DEF S
<1>2. t \in Seq(S) /\ t[Len(t)] = r
  BY <1>1
<1> HIDE DEF t
<1>3. t \in Seq({t[i] : i \in DOMAIN t})
  BY <1>2
<1> QED
  BY <1>2, <1>3, Zenon DEF t, IsSeq

\* A step of a run changes nothing of its scenario.
LEMMA ScenarioKept ==
    ASSUME LoadNext
    PROVE  scenario' = scenario
BY Zenon DEF LoadNext, TimerFires, CloseResults, Collector, Receive, Summarize, Worker, SoakLoop,
             BenchLoop, Select, PostOnce, Send

\* main checks its options and begins, or exits.
LEMMA SoakMainStep ==
    ASSUME SoakToolInv, SoakMain
    PROVE  SoakToolInv'
<1>1. /\ line' = line /\ reports' = reports /\ exit = -1 /\ plan = <<>> /\ line.tool = "soak"
      /\ line \in CommandLines /\ RunInvariant /\ IsSeq(reports) /\ begun = 0
      /\ plan \in Seq(Planned)
  BY Zenon DEF SoakToolInv, SoakMain
<1>2. CASE ParseSoak(line)
  <2> DEFINE runs == SoakPlan(line)
  <2>1. plan' = runs /\ StartRun(runs[1].scenario) /\ exit' = exit
    BY <1>2, Zenon DEF SoakMain
  <2>2. /\ runs \in Seq(Planned) /\ runs # <<>>
        /\ \A i \in 1..Len(runs) : Asked(runs[i].scenario)
    BY <1>1, <1>2, SoakPlanned, Zenon
  <2> HIDE DEF runs
  <2>4. runs[1] \in Planned /\ 1 \in 1..Len(runs)
    BY <2>2
  <2>5. runs[1].scenario \in Scenario
    BY <2>4, Zenon DEF Planned
  <2>6. RunInvariant' /\ scenario' = runs[1].scenario
    BY <2>1, <2>5, RunStartsAgain, Zenon
  <2> QED
    BY <1>1, <1>2, <2>1, <2>2, <2>4, <2>6, Zenon DEF SoakToolInv, Asked
<1>3. CASE ~ParseSoak(line)
  <2>1. exit' = 2 /\ plan' = plan /\ UNCHANGED loadVars
    BY <1>3, Zenon DEF SoakMain
  <2>2. RunInvariant'
    BY <1>1, <2>1, RunGoesOn, Zenon
  <2>3. begun' = begun
    BY <2>1, Zenon DEF loadVars
  <2>4. VerdictInv'
    BY <1>1, <1>3, <2>1, <2>3, Zenon DEF VerdictInv
  <2>5. exit' # -1
    BY <2>1
  <2> QED
    BY <1>1, <2>1, <2>2, <2>4, <2>5, Zenon DEF SoakToolInv
<1> QED
  BY <1>2, <1>3, Zenon

\* A step of a run.
LEMMA RunningStep ==
    ASSUME SoakToolInv, Running
    PROVE  SoakToolInv'
<1>1. /\ line' = line /\ plan' = plan /\ reports' = reports /\ exit' = exit /\ LoadNext
      /\ exit = -1 /\ plan # <<>>
  BY Zenon DEF Running, mainVars
<1>2. RunInvariant' /\ scenario' = scenario
  BY <1>1, RunGoesOn, ScenarioKept, Zenon DEF SoakToolInv
<1> QED
  BY <1>1, <1>2, Zenon DEF SoakToolInv, Asked

\* From one run to the next.
LEMMA NextRunStep ==
    ASSUME SoakToolInv, NextRun
    PROVE  SoakToolInv'
<1>1. \E e \in Elapsed : reports' = Append(reports, Report(plan[1], e))
  BY Zenon DEF NextRun
<1>2. /\ line' = line /\ plan' = Tail(plan) /\ exit' = exit /\ exit = -1 /\ Len(plan) > 1
      /\ StartRun(plan[2].scenario)
  BY Zenon DEF NextRun
<1>3. line \in CommandLines /\ plan \in Seq(Planned) /\ IsSeq(reports)
  BY Zenon DEF SoakToolInv
<1>4. /\ plan # <<>> /\ plan[2] \in Planned /\ 2 \in 1..Len(plan)
      /\ Tail(plan) \in Seq(Planned) /\ Tail(plan) # <<>>
      /\ \A i \in 1..Len(Tail(plan)) : i + 1 \in 1..Len(plan) /\ Tail(plan)[i] = plan[i + 1]
  <2>1. plan \in Seq(Planned) /\ Len(plan) > 1
    BY <1>2, <1>3, Zenon
  <2> QED
    BY <2>1
<1>5. RunInvariant' /\ scenario' = plan[2].scenario
  <2>1. plan[2].scenario \in Scenario
    BY <1>4, Zenon DEF Planned
  <2> QED
    BY <1>2, <2>1, RunStartsAgain, Zenon
<1>6. IsSeq(reports')
  BY <1>1, <1>3, OneReportMore, Zenon
<1>7. ParseSoak(line) /\ \A i \in 1..Len(plan) : Asked(plan[i].scenario)
  BY <1>4, Zenon DEF SoakToolInv
<1>8. \A i \in 1..Len(plan') : Asked(plan'[i].scenario)
  BY <1>2, <1>4, <1>7, Zenon
<1> QED
  BY <1>2, <1>3, <1>4, <1>5, <1>6, <1>7, <1>8, Zenon DEF SoakToolInv, Asked

\* The verdict.
LEMMA ConcludeStep ==
    ASSUME SoakToolInv, SoakConclude
    PROVE  SoakToolInv'
<1>1. PICK e \in Elapsed : reports' = Append(reports, Report(plan[1], e))
  BY Zenon DEF SoakConclude
<1>2. /\ line' = line /\ plan' = <<>> /\ UNCHANGED loadVars /\ Len(plan) = 1
      /\ collector = "summarized" /\ exit' = SoakExit(reports')
  BY Zenon DEF SoakConclude
<1>3. line \in CommandLines /\ plan \in Seq(Planned) /\ RunInvariant /\ IsSeq(reports)
  BY Zenon DEF SoakToolInv
<1>4. RunInvariant'
  BY <1>2, <1>3, RunGoesOn, Zenon
<1>5. collector' = collector /\ scenario' = scenario /\ totals' = totals /\ sampled' = sampled
  BY <1>2, Zenon DEF loadVars
<1>6. IsSeq(reports') /\ Final' = Report(plan[1], e)
  BY <1>1, <1>3, OneReportMore, Zenon DEF Final
<1>7. plan # <<>> /\ <<>> \in Seq(Planned)
  <2>1. Len(plan) = 1
    BY <1>2, Zenon
  <2> QED
    BY <2>1
<1>8. ParseSoak(line) /\ Asked(scenario)
  BY <1>7, Zenon DEF SoakToolInv
<1>9. exit' \in {0, 1} /\ exit' = SoakExit(reports)'
  BY <1>2, Zenon DEF SoakExit
<1>10. Final'.elapsed \in Nat /\ Final'.totals = totals /\ Final'.sampled = sampled
  <2>1. /\ Report(plan[1], e).elapsed = e /\ Report(plan[1], e).totals = totals
        /\ Report(plan[1], e).sampled = sampled
    BY Zenon DEF Report
  <2>2. e \in Nat
    BY SoakLineAssumption, Zenon
  <2> QED
    BY <1>6, <2>1, <2>2, Zenon
<1>11. VerdictInv'
  BY <1>2, <1>5, <1>8, <1>9, <1>10, Zenon DEF VerdictInv, Asked
<1>12. exit' # -1
  BY <1>9
<1> QED
  BY <1>2, <1>3, <1>4, <1>6, <1>7, <1>11, <1>12, Zenon DEF SoakToolInv

\* When a soak run is summed up, what it counted is what became of its posts.
LEMMA SoakTotals ==
    ASSUME RunInvariant, collector = "summarized", Asked(scenario)
    PROVE  /\ begun \in Nat /\ begun = totals.requests
           /\ line.records \in Nat /\ line.samples \in Nat
           /\ totals.attempted = line.records * begun
           /\ totals.lost = RecordsLost
           /\ totals.attempted = totals.produced + totals.lost
           /\ totals.produced \in Nat /\ totals.lost \in Nat
           /\ sampled \in [Latencies -> Nat]
           /\ begun <= line.samples =>
                 /\ Weight(Latencies, sampled) = begun
                 /\ \A l \in Nat : /\ CountUpTo(sampled, l) \in Nat
                                   /\ SlowerThan(l) = begun - CountUpTo(sampled, l)
<1>1. /\ Tool = "soak" /\ Records = line.records /\ scenario.samples = line.samples
      /\ LoadInvariant /\ LoadTypeOK /\ SoakInv /\ SampleInv
  BY Zenon DEF RunInvariant, TallyInv, LoadInvariant, Asked, Tool, Records
<1>2. begun \in Nat /\ begun = totals.requests
  BY <1>1, Summed, Zenon DEF LoadTypeOK, SummaryCountsEveryPost
<1>5. totals.lost = RecordsLost
  BY <1>1, LossesAll, Zenon DEF SoakInv
<1>6. line.records \in Nat /\ line.samples \in Nat
  BY <1>1, ScenarioShape
<1>7. ASSUME begun <= line.samples
      PROVE  /\ Weight(Latencies, sampled) = begun
             /\ \A l \in Nat : /\ CountUpTo(sampled, l) \in Nat
                               /\ SlowerThan(l) = begun - CountUpTo(sampled, l)
  <2>1. /\ Weight(Latencies, sampled) = totals.requests
        /\ \A l \in Nat : Weight({m \in Latencies : m <= l}, sampled) = Received[UpTo(l)]
    BY <1>1, <1>2, <1>7, Zenon DEF SampleInv
  <2>2. \A l : /\ Received[UpTo(l)] = Weight(UpTo(l), ended) /\ Weight(UpTo(l), ended) \in Nat
               /\ SlowerThan(l) = begun - Weight(UpTo(l), ended)
    BY <1>1, ReceivedAll, ReceivedType, Kinds, Zenon DEF UpTo, SlowerThan
  <2>3. \A l : CountUpTo(sampled, l) = Weight({m \in Latencies : m <= l}, sampled)
    BY <1>1, Zenon DEF SampleInv, CountUpTo
  <2> QED
    BY <1>2, <2>1, <2>2, <2>3, Zenon
<1> QED
  BY <1>1, <1>2, <1>5, <1>6, <1>7, Zenon DEF SoakInv, SampleInv

\* The thresholds of a run that was summed up, in terms of its posts.
LEMMA VerdictRight ==
    ASSUME SoakToolInv
    PROVE  SoakVerdict
<1> SUFFICES ASSUME line.tool = "soak", exit # -1 PROVE SoakVerdict
  BY Zenon DEF SoakVerdict
<1>1. VerdictInv /\ RunInvariant /\ line \in CommandLines
  BY Zenon DEF SoakToolInv
<1>2. CASE ~ParseSoak(line)
  BY <1>1, <1>2, Zenon DEF VerdictInv, SoakVerdict
<1>3. CASE ParseSoak(line)
  <2> DEFINE rate == ParseFailureRate(line.maxFailure)
             clock == Final.elapsed
             ms == IF clock = 0 THEN 1 ELSE clock
             k == 1000 * totals.produced
             attempted == line.records * begun
             Fails == Exceeds(FailureRate(totals), rate)
             Slow == /\ line.minRate > 0
                     /\ Exceeds(<<line.minRate, 1>>, RecordsPerSecond(totals, clock))
             Late == line.maxP99 > 0 /\ Percentile(sampled, 99) > line.maxP99
  <2>1. /\ collector = "summarized" /\ Asked(scenario) /\ clock \in Nat
        /\ Final.totals = totals /\ Final.sampled = sampled
        /\ exit = SoakExit(reports)
    BY <1>1, <1>3, Zenon DEF VerdictInv
  <2>2. /\ line.minRate \in Int /\ line.maxP99 \in Int /\ line.maxFailure.n \in Int
        /\ line.minRate >= 0 /\ line.maxP99 >= 0 /\ line.maxFailure.n >= 0
    BY <1>1, <1>3, SoakLineAssumption, Zenon DEF ParseSoak, SoakTyped
  <2>3. /\ line.minRate \in Nat /\ line.maxP99 \in Nat /\ rate[1] \in Nat
        /\ rate[2] \in Nat
    BY <2>2 DEF ParseFailureRate
  <2>4. /\ begun \in Nat /\ begun = totals.requests
        /\ line.records \in Nat /\ line.samples \in Nat
        /\ totals.attempted = attempted /\ totals.lost = RecordsLost
        /\ totals.attempted = totals.produced + totals.lost
        /\ totals.produced \in Nat /\ totals.lost \in Nat
        /\ sampled \in [Latencies -> Nat]
        /\ begun <= line.samples =>
              /\ Weight(Latencies, sampled) = begun
              /\ \A l \in Nat : /\ CountUpTo(sampled, l) \in Nat
                                /\ SlowerThan(l) = begun - CountUpTo(sampled, l)
    BY <1>1, <2>1, SoakTotals, Zenon
  <2>5. /\ Thresholds(line).maxFailure = rate /\ Thresholds(line).minRate = line.minRate
        /\ Thresholds(line).maxP99 = line.maxP99
    BY Zenon DEF Thresholds
  <2>6. exit = IF ~Fails /\ ~Slow /\ ~Late THEN 0 ELSE 1
    <3> DEFINE broken == EvaluateThresholds(totals, clock, sampled, Thresholds(line))
    <3>1. broken = {} <=> ~Fails /\ ~Slow /\ ~Late
      <4>1. /\ "max_failure_rate" \in broken <=> Fails
            /\ "min_records_sec" \in broken <=> Slow
            /\ "max_p99" \in broken <=> Late
        <5> HIDE DEF rate, clock
        <5> QED
          BY <2>5, Zenon DEF EvaluateThresholds
      <4>2. broken \subseteq {"max_failure_rate", "min_records_sec", "max_p99"}
        BY Zenon DEF EvaluateThresholds
      <4> HIDE DEF broken, Fails, Slow, Late
      <4> QED
        BY <4>1, <4>2, Zenon
    <3>2. exit = IF broken = {} THEN 0 ELSE 1
      BY <2>1, Zenon DEF SoakExit, Final
    <3> HIDE DEF broken, Fails, Slow, Late
    <3> QED
      BY <3>1, <3>2, Zenon
  <2> HIDE DEF rate, clock, attempted
  <2>7. ~Fails <=> FewLost(rate)
    <3>0. FewLost(rate) <=> RecordsLost * rate[2] <= rate[1] * attempted
      BY Zenon DEF FewLost, attempted
    <3>1. CASE totals.attempted > 0
      <4>1. FailureRate(totals) = <<totals.lost, totals.attempted>>
        BY <3>1, Zenon DEF FailureRate
      <4>2. Fails <=> RecordsLost * rate[2] > rate[1] * attempted
        <5>1. \A x, y : Exceeds(<<x, y>>, rate) <=> x * rate[2] > rate[1] * y
          BY DEF Exceeds
        <5>2. Fails <=> totals.lost * rate[2] > rate[1] * totals.attempted
          BY <4>1, <5>1, Zenon
        <5> QED
          BY <2>4, <5>2, Zenon
      <4>3. RecordsLost * rate[2] \in Int /\ rate[1] * attempted \in Int
        BY <2>3, <2>4
      <4> QED
        BY <3>0, <4>2, <4>3
    <3>2. CASE ~(totals.attempted > 0)
      <4>1. attempted = 0 /\ RecordsLost = 0
        BY <2>4, <3>2
      <4>2. FailureRate(totals) = <<0, 1>>
        BY <3>2, Zenon DEF FailureRate
      <4>3. Fails <=> 0 * rate[2] > rate[1] * 1
        <5>1. \A x, y : Exceeds(<<x, y>>, rate) <=> x * rate[2] > rate[1] * y
          BY DEF Exceeds
        <5> QED
          BY <4>2, <5>1, Zenon
      <4> QED
        BY <2>3, <3>0, <4>1, <4>3
    <3> QED
      BY <3>1, <3>2, Zenon
  <2>8. ~Slow <=> (line.minRate > 0 => FastEnough(line.minRate, clock))
    <3>1. RecordsPerSecond(totals, clock) = <<k, ms>>
      BY DEF RecordsPerSecond
    <3>2. ms \in Nat /\ k \in Nat
      BY <2>1, <2>4
    <3>3. k = 1000 * (attempted - RecordsLost)
      BY <2>4
    <3>4. FastEnough(line.minRate, clock) <=> k >= line.minRate * ms
      BY <3>3 DEF FastEnough, attempted
    <3> HIDE DEF ms, k
    <3>5. \A x, y : Exceeds(<<line.minRate, 1>>, <<x, y>>) <=> line.minRate * y > x * 1
      BY DEF Exceeds
    <3>6. Slow <=> line.minRate > 0 /\ line.minRate * ms > k * 1
      BY <3>1, <3>5, Zenon
    <3>7. line.minRate * ms \in Int
      BY <2>3, <3>2
    <3> HIDE DEF Slow
    <3> QED
      BY <3>2, <3>4, <3>6, <3>7
  <2>9. ASSUME line.maxP99 = 0 \/ begun <= line.samples
        PROVE  ~Late <=> (line.maxP99 > 0 /\ begun > 0 => PromptEnough(line.maxP99))
    <3>1. CASE line.maxP99 = 0
      BY <3>1
    <3>2. CASE line.maxP99 > 0 /\ begun = 0
      <4>1. Weight(Latencies, sampled) = 0 /\ DOMAIN sampled = Latencies
        BY <2>4, <2>9, <3>2
      <4>2. Percentile(sampled, 99) = 0
        BY <4>1, Zenon DEF Percentile
      <4> QED
        BY <2>3, <3>2, <4>2
    <3>3. CASE line.maxP99 > 0 /\ begun > 0
      <4>1. line.maxP99 # 0 /\ begun > 0
        BY <2>3, <3>3
      <4>2. /\ Weight(Latencies, sampled) = begun /\ CountUpTo(sampled, line.maxP99) \in Nat
            /\ SlowerThan(line.maxP99) = begun - CountUpTo(sampled, line.maxP99)
        BY <2>3, <2>4, <2>9, <4>1, Zenon
      <4>3. ~(Percentile(sampled, 99) > line.maxP99) <=> PromptEnough(line.maxP99)
        <5> DEFINE c == CountUpTo(sampled, line.maxP99)
                   n == Weight(Latencies, sampled)
                   p == Percentile(sampled, 99)
        <5>1. ~(p > line.maxP99) <=> 100 * ((n - c) - 1) < n - 1
          BY <2>3, <2>4, <4>1, <4>2, PercentileWithin
        <5> HIDE DEF c, n, p
        <5>2. ~(p > line.maxP99) <=> 100 * (SlowerThan(line.maxP99) - 1) < begun - 1
          <6>1. n = begun /\ SlowerThan(line.maxP99) = begun - c
            BY <4>2, Zenon DEF c, n
          <6> QED
            BY <5>1, <6>1
        <5> QED
          BY <5>2 DEF PromptEnough, p
      <4> QED
        BY <3>3, <4>3, Zenon
    <3> QED
      BY <2>3, <2>4, <3>1, <3>2, <3>3
  <2> DEFINE Few == FewLost(rate)
             Fast == line.minRate > 0 => FastEnough(line.minRate, clock)
             Prompt == line.maxP99 > 0 /\ begun > 0 => PromptEnough(line.maxP99)
  <2>10. line.maxP99 = 0 \/ begun <= line.samples => exit = IF Few /\ Fast /\ Prompt THEN 0 ELSE 1
    <3> HIDE DEF Fails, Slow, Late, Few, Fast, Prompt
    <3>1. (Few <=> ~Fails) /\ (Fast <=> ~Slow)
      BY <2>7, <2>8, Zenon DEF Few, Fast
    <3>2. line.maxP99 = 0 \/ begun <= line.samples => (Prompt <=> ~Late)
      BY <2>9, Zenon DEF Prompt
    <3> QED
      BY <2>6, <3>1, <3>2, Zenon
  <2> HIDE DEF Fails, Slow, Late
  <2> QED
    BY <1>3, <2>5, <2>10, Zenon DEF SoakVerdict, clock, Final
<1> QED
  BY <1>2, <1>3, Zenon

(***************************************************************************)
(* The inductive invariant of soak-produce.                                *)
(***************************************************************************)
THEOREM SoakToolInvariant == SoakSafetySpec => []SoakToolInv
<1>1. SoakInit => SoakToolInv
  <2> SUFFICES ASSUME SoakInit PROVE SoakToolInv
    BY Zenon
  <2>1. Fresh(Idle) /\ line \in CommandLines /\ plan = <<>> /\ reports = <<>> /\ exit = -1
    BY Zenon DEF SoakInit
  <2>2. Idle \in Scenario
    <3>1. /\ {} \in SUBSET Answers /\ Workers \in (SUBSET Workers) \ {{}} /\ 0 \in Nat /\ 1 \in Nat \ {0}
          /\ 1 \in 1..MaxRecords /\ {} \subseteq AnswersTo(1)
      BY LoadAssumption
    <3> QED
      BY <3>1, Zenon DEF Idle, Scenario
  <2>3. RunInvariant /\ begun = 0
    BY <2>1, <2>2, RunStarts, Zenon DEF Fresh
  <2>4. plan \in Seq(Planned) /\ IsSeq(reports)
    BY <2>1 DEF IsSeq
  <2> QED
    BY <2>1, <2>3, <2>4, Zenon DEF SoakToolInv
<1>2. SoakToolInv /\ [SoakNext]_<<loadVars, mainVars>> => SoakToolInv'
  <2> SUFFICES ASSUME SoakToolInv, [SoakNext]_<<loadVars, mainVars>> PROVE SoakToolInv'
    BY Zenon
  <2>1. CASE SoakNext
    BY <2>1, SoakMainStep, RunningStep, NextRunStep, ConcludeStep, Zenon DEF SoakNext
  <2>2. CASE UNCHANGED <<loadVars, mainVars>>
    <3>1. RunInvariant'
      BY <2>2, RunGoesOn, Zenon DEF SoakToolInv
    <3>2. /\ line' = line /\ plan' = plan /\ reports' = reports /\ exit' = exit
          /\ scenario' = scenario /\ begun' = begun /\ collector' = collector
          /\ totals' = totals /\ sampled' = sampled
      BY <2>2, Zenon DEF loadVars, mainVars
    <3>3. VerdictInv => VerdictInv'
      BY <3>2, Zenon DEF VerdictInv, Asked, SoakExit, Final
    <3> QED
      BY <3>1, <3>2, <3>3, Zenon DEF SoakToolInv, Asked
  <2> QED
    BY <2>1, <2>2, Zenon
<1> QED
  BY <1>1, <1>2, PTL DEF SoakSafetySpec

(***************************************************************************)
(* The exit code of soak-produce is what its documentation says, for any   *)
(* command line: 2 with nothing posted for invalid options; else the       *)
(* verdict on the posts of the measured run alone.                         *)
(***************************************************************************)
THEOREM SoakVerdictRight == SoakSafetySpec => []SoakVerdict
<1>1. SoakToolInv => SoakVerdict
  BY VerdictRight, Zenon
<1> QED
  BY <1>1, SoakToolInvariant, PTL

-----------------------------------------------------------------------------
(***************************************************************************)
(* The license bundle.  While a run copies, the rows it has are those of   *)
(* the modules it is through with, each with the files that are there, and *)
(* no other module has files; a run that failed anywhere leaves succeeded  *)
(* FALSE, and the next one removes what it left.                           *)
(***************************************************************************)
RowsOf(M) == {Notice(m, modules[m]) : m \in M}
NoFilesBut(M) == \A m \in Dependencies \ M : modules[m] = {}

BundleInv ==
    /\ deps \subseteq Dependencies
    /\ modules = [m \in Dependencies |-> modules[m]]
    /\ stage # "idle" => ~succeeded
    /\ stage = "listed" => todo = deps /\ found = {}
    /\ stage = "copying" =>
           todo \subseteq deps /\ found = RowsOf(deps \ todo) /\ NoFilesBut(deps \ todo)
    /\ succeeded => notices = RowsOf(deps) /\ NoFilesBut(deps)

\* A step that copies a module whole adds its row; one that fails ends the run.
LEMMA CopyModuleStep ==
    ASSUME BundleInv, NEW m \in Dependencies, CopyModule(m)
    PROVE  BundleInv'
<1>1. /\ stage = "copying" /\ m \in todo /\ ~succeeded /\ todo \subseteq deps
      /\ deps \subseteq Dependencies /\ modules = [n \in Dependencies |-> modules[n]]
      /\ found = RowsOf(deps \ todo) /\ NoFilesBut(deps \ todo)
      /\ deps' = deps /\ notices' = notices /\ succeeded' = succeeded
  BY Zenon DEF BundleInv, CopyModule
<1>2. ASSUME NEW refs, modules' = [modules EXCEPT ![m] = @ \cup refs],
             found' = found \cup {Notice(m, refs)}, todo' = todo \ {m}, stage' = stage
      PROVE  BundleInv'
  <2>1. modules[m] = {}
    BY <1>1, Zenon DEF NoFilesBut
  <2>2. modules'[m] = refs /\ \A n \in Dependencies \ {m} : modules'[n] = modules[n]
    BY <1>1, <1>2, <2>1, Zenon
  <2>3. modules' = [n \in Dependencies |-> modules'[n]]
    BY <1>1, <1>2, Zenon
  <2>4. deps \ todo' = (deps \ todo) \cup {m} /\ m \notin deps \ todo /\ todo' \subseteq deps
    BY <1>1, <1>2, Zenon
  <2>5. found' = {Notice(n, modules'[n]) : n \in deps \ todo'}
    <3>1. \A n \in deps \ todo : Notice(n, modules'[n]) = Notice(n, modules[n])
      BY <1>1, <2>2, Zenon
    <3>2. {Notice(n, modules'[n]) : n \in (deps \ todo) \cup {m}}
              = {Notice(n, modules[n]) : n \in deps \ todo} \cup {Notice(m, refs)}
      BY <2>2, <3>1, Zenon
    <3> QED
      BY <1>1, <1>2, <2>4, <3>2, Zenon DEF RowsOf
  <2>6. \A n \in Dependencies \ (deps \ todo') : modules'[n] = {}
    BY <1>1, <2>2, <2>4, Zenon DEF NoFilesBut
  <2> QED
    BY <1>1, <1>2, <2>3, <2>4, <2>5, <2>6, Zenon DEF BundleInv, RowsOf, NoFilesBut
<1>3. ASSUME NEW some, modules' = [modules EXCEPT ![m] = @ \cup some], stage' = "idle"
      PROVE  BundleInv'
  <2>1. modules' = [n \in Dependencies |-> modules'[n]]
    BY <1>1, <1>3, Zenon
  <2> QED
    BY <1>1, <1>3, <2>1, Zenon DEF BundleInv
<1> QED
  BY <1>2, <1>3, Zenon DEF CopyModule

(***************************************************************************)
(* The inductive invariant of the license bundle.                          *)
(***************************************************************************)
THEOREM BundleCorrect == BundleSpec => []BundleInv
<1>1. BundleInit => BundleInv
  BY Zenon DEF BundleInit, BundleInv, NoFiles
<1>2. BundleInv /\ [BundleNext]_bundleVars => BundleInv'
  <2> SUFFICES ASSUME BundleInv, [BundleNext]_bundleVars PROVE BundleInv'
    BY Zenon
  <2>1. CASE UNCHANGED bundleVars
    BY <2>1, Zenon DEF bundleVars, BundleInv, RowsOf, NoFilesBut
  <2>2. CASE ChangeDeps
    BY <2>2, Zenon DEF ChangeDeps, BundleInv
  <2>3. CASE ListModules
    BY <2>3, Zenon DEF ListModules, BundleInv
  <2>4. CASE RemoveModules
    <3>1. ~succeeded' /\ deps' = deps /\ found' = found /\ todo' = todo /\ todo = deps /\ found = {}
      BY <2>4, Zenon DEF RemoveModules, BundleInv
    <3>2. CASE stage' = "copying" /\ modules' = NoFiles
      <4>1. modules' = [m \in Dependencies |-> modules'[m]]
            /\ \A m \in Dependencies : modules'[m] = {}
        BY <3>2, Zenon DEF NoFiles
      <4>2. deps \ todo = {}
        BY <3>1, Zenon
      <4> QED
        BY <3>1, <3>2, <4>1, <4>2, Zenon DEF BundleInv, RowsOf, NoFilesBut
    <3>3. CASE stage' = "idle" /\ modules' \in [Dependencies -> UNION {SUBSET modules[m] : m \in Dependencies}]
      <4>1. modules' = [m \in Dependencies |-> modules'[m]]
        BY <3>3, Zenon
      <4> QED
        BY <3>1, <3>3, <4>1, Zenon DEF BundleInv
    <3> QED
      BY <2>4, <3>2, <3>3, Zenon DEF RemoveModules
  <2>5. CASE WriteNotices
    <3>1. /\ stage = "copying" /\ todo = {} /\ stage' = "idle" /\ ~succeeded
          /\ deps' = deps /\ modules' = modules /\ found = RowsOf(deps) /\ NoFilesBut(deps)
          /\ succeeded' => notices' = found
      <4>1. deps \ {} = deps
        BY Zenon
      <4> QED
        BY <2>5, <4>1 DEF WriteNotices, BundleInv
    <3> QED
      BY <3>1, Zenon DEF BundleInv, RowsOf, NoFilesBut
  <2>6. CASE Stop
    BY <2>6, Zenon DEF Stop, BundleInv
  <2> QED
    BY <2>1, <2>2, <2>3, <2>4, <2>5, <2>6, CopyModuleStep, Zenon DEF BundleNext
<1> QED
  BY <1>1, <1>2, PTL DEF BundleSpec

(***************************************************************************)
(* After a run that succeeded the bundle is that of the current modules.   *)
(***************************************************************************)
THEOREM BundleIsExact == BundleSpec => []BundleExact
<1>1. BundleInv => BundleExact
  <2> SUFFICES ASSUME BundleInv, succeeded PROVE BundleExact
    BY Zenon DEF BundleExact
  <2>1. notices = RowsOf(deps) /\ NoFilesBut(deps) /\ deps \subseteq Dependencies
    BY Zenon DEF BundleInv
  <2>2. \A m : /\ Notice(m, modules[m]).module = m
               /\ Notice(m, modules[m]).refs = modules[m]
               /\ Notice(m, modules[m]).missing = (modules[m] = {})
    BY Zenon DEF Notice
  <2>3. {r.module : r \in notices} = deps
    BY <2>1, <2>2 DEF RowsOf
  <2>4. Cardinality(notices) = Cardinality(deps)
    <3> DEFINE f == [m \in deps |-> Notice(m, modules[m])]
    <3>1. f \in [deps -> notices] /\ \A r \in notices : \E m \in deps : f[m] = r
      BY <2>1, Zenon DEF RowsOf
    <3>2. \A m, n \in deps : f[m] = f[n] => m = n
      <4>1. \A m \in deps : f[m].module = m
        BY <2>2, Zenon
      <4> QED
        BY <4>1, Zenon
    <3> HIDE DEF f
    <3>3. f \in Bijection(deps, notices)
      BY <3>1, <3>2, Zenon DEF Bijection, Injection, Surjection, IsInjective
    <3>4. IsFiniteSet(deps)
      BY <2>1, BundleAssumption, FS_Subset, Zenon
    <3>5. ExistsBijection(deps, notices)
      BY <3>3, Zenon DEF ExistsBijection
    <3> QED
      BY <3>4, <3>5, FS_Bijection, Zenon
  <2>5. ASSUME NEW m \in Dependencies
        PROVE  modules[m] = UNION {r.refs : r \in {n \in notices : n.module = m}}
    <3>1. CASE m \in deps
      <4>1. {n \in notices : n.module = m} = {Notice(m, modules[m])}
        BY <2>1, <2>2, <3>1 DEF RowsOf
      <4> QED
        BY <2>2, <4>1
    <3>2. CASE m \notin deps
      <4>1. {n \in notices : n.module = m} = {} /\ modules[m] = {}
        BY <2>1, <2>2, <3>2 DEF RowsOf, NoFilesBut
      <4> QED
        BY <4>1, Zenon
    <3> QED
      BY <3>1, <3>2, Zenon
  <2>6. \A r \in notices : r.missing = (r.refs = {})
    BY <2>1, <2>2 DEF RowsOf
  <2> QED
    BY <2>3, <2>4, <2>5, <2>6, Zenon DEF BundleExact
<1> QED
  BY <1>1, BundleCorrect, PTL
=============================================================================
