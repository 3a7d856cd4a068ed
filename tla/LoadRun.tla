------------------------------ MODULE LoadRun ------------------------------
(***************************************************************************)
(* The load generators: runSoak of cmd/soak-produce and runScenario of     *)
(* cmd/bench-produce.  Workers post until the timer fires (bench: or until *)
(* a number of requests has been started) and send what they saw into a    *)
(* bounded channel; a goroutine closes it when the workers have gone; the  *)
(* collector adds up what it receives until the channel is closed.         *)
(*                                                                         *)
(* The two differ in the test at the head of a worker's loop and in what   *)
(* they count.  A post is abstracted to how it ended and how long it took. *)
(***************************************************************************)
EXTENDS Integers, Sequences, FiniteSets, Weights

CONSTANTS
    Workers,     \* goroutines there may be
    Latencies,   \* how long a post may take, in some unit
    MaxRecords,  \* records a post may carry
    Buffer       \* slots of the results channel per worker (4 in the code)

\* A response with an offset for every record, bad of them with an error; with a
\* body that is no such response; with a status outside 2xx; or no response.
Endings == {"offsets", "badBody", "badStatus", "noResponse"}
Answers == [ending : Endings, bad : 0..MaxRecords, latency : Latencies]

\* clients are the opts.Clients goroutines, limit the opts.Requests of bench (0:
\* none), samples -max-latency-samples; answers is what the target may do, and
\* posts a bound: the timer fires before more are begun.
AnswersTo(records) == {a \in Answers : a.bad <= records}
Scenario ==
    {s \in [tool : {"soak", "bench"}, limit : Nat, clients : (SUBSET Workers) \ {{}},
            records : 1..MaxRecords, samples : Nat \ {0}, answers : SUBSET Answers, posts : Nat] :
        s.answers \subseteq AnswersTo(s.records)}

ASSUME LoadAssumption ==
    /\ IsFiniteSet(Workers) /\ Workers # {}
    /\ IsFiniteSet(Latencies) /\ Latencies \subseteq Nat
    /\ Buffer \in Nat \ {0} /\ MaxRecords \in Nat \ {0}

VARIABLES
    scenario,   \* the one that is run
    done,       \* the channel done is closed
    started,    \* bench's counter started
    wpc,        \* where each worker is
    held,       \* the result a worker is about to send
    results,    \* the results channel
    closed,     \* it has been closed
    totals,     \* the collector's counters
    sampled,    \* the latencies it has kept: how many of each
    collector,  \* "collecting" or "summarized"
    begun,      \* history: posts begun
    ended       \* history: how many posts ended in each way

loadVars == <<scenario, done, started, wpc, held, results, closed, totals, sampled, collector,
              begun, ended>>

NoAnswer == [ending |-> "none", bad |-> 0, latency |-> 0]

Tool == scenario.tool
RequestLimit == scenario.limit
Records == scenario.records

Capacity == Buffer * Cardinality(scenario.clients)

NoTotals == [requests |-> 0, succeeded |-> 0, failed |-> 0,
             attempted |-> 0, produced |-> 0, lost |-> 0]

\* The locals of runSoak and runScenario.
Fresh(s) ==
    /\ scenario = s
    /\ done = FALSE
    /\ started = 0
    /\ wpc = [w \in Workers |-> IF w \in s.clients THEN "loop" ELSE "gone"]
    /\ held = [w \in Workers |-> NoAnswer]
    /\ results = <<>>
    /\ closed = FALSE
    /\ totals = NoTotals
    /\ sampled = [l \in Latencies |-> 0]
    /\ collector = "collecting"
    /\ begun = 0
    /\ ended = [a \in Answers |-> 0]

LoadInit == \E s \in Scenario : Fresh(s)

-----------------------------------------------------------------------------
\* The goroutine <-stop.C; close(done).
TimerFires ==
    /\ ~done
    /\ done' = TRUE
    /\ UNCHANGED <<scenario, started, wpc, held, results, closed, totals, sampled, collector,
                   begun, ended>>

SoakLoop(w) ==
    /\ Tool = "soak"
    /\ wpc[w] = "loop"
    /\ wpc' = [wpc EXCEPT ![w] = "select"]
    /\ UNCHANGED <<scenario, done, started, held, results, closed, totals, sampled, collector,
                   begun, ended>>

\* Mutant: the counter is tested before it is raised.
BenchLoopOffByOne(w) ==
    /\ Tool = "bench"
    /\ wpc[w] = "loop"
    /\ started' = IF RequestLimit > 0 THEN started + 1 ELSE started
    /\ wpc' = [wpc EXCEPT ![w] =
                  IF RequestLimit > 0 /\ started > RequestLimit THEN "gone" ELSE "select"]
    /\ UNCHANGED <<scenario, done, held, results, closed, totals, sampled, collector, begun, ended>>

\* started.Add(1) > opts.Requests
BenchLoop(w) ==
    /\ Tool = "bench"
    /\ wpc[w] = "loop"
    /\ started' = IF RequestLimit > 0 THEN started + 1 ELSE started
    /\ wpc' = [wpc EXCEPT ![w] =
                  IF RequestLimit > 0 /\ started + 1 > RequestLimit THEN "gone" ELSE "select"]
    /\ UNCHANGED <<scenario, done, held, results, closed, totals, sampled, collector, begun, ended>>

\* Mutant: the worker never looks at done.
SelectBlind(w) ==
    /\ wpc[w] = "select"
    /\ begun < scenario.posts
    /\ wpc' = [wpc EXCEPT ![w] = "post"]
    /\ begun' = begun + 1
    /\ UNCHANGED <<scenario, done, started, held, results, closed, totals, sampled, collector, ended>>

Select(w) ==
    /\ wpc[w] = "select"
    /\ \/ /\ done
          /\ wpc' = [wpc EXCEPT ![w] = "gone"]
          /\ UNCHANGED begun
       \/ /\ ~done
          /\ begun < scenario.posts
          /\ wpc' = [wpc EXCEPT ![w] = "post"]
          /\ begun' = begun + 1
    /\ UNCHANGED <<scenario, done, started, held, results, closed, totals, sampled, collector, ended>>

\* postOnce returns, at the latest when its context's deadline passes.
PostOnce(w, answer) ==
    /\ wpc[w] = "post"
    /\ wpc' = [wpc EXCEPT ![w] = "send"]
    /\ held' = [held EXCEPT ![w] = answer]
    /\ ended' = [ended EXCEPT ![answer] = @ + 1]
    /\ UNCHANGED <<scenario, done, started, results, closed, totals, sampled, collector, begun>>

\* Mutant: a full channel drops the result.
SendOrDrop(w) ==
    /\ wpc[w] = "send"
    /\ results' = IF Len(results) < Capacity THEN Append(results, held[w]) ELSE results
    /\ wpc' = [wpc EXCEPT ![w] = "loop"]
    /\ held' = [held EXCEPT ![w] = NoAnswer]
    /\ UNCHANGED <<scenario, done, started, closed, totals, sampled, collector, begun, ended>>

\* results <- ...: blocks while the channel is full.
Send(w) ==
    /\ wpc[w] = "send"
    /\ Len(results) < Capacity
    /\ results' = Append(results, held[w])
    /\ wpc' = [wpc EXCEPT ![w] = "loop"]
    /\ held' = [held EXCEPT ![w] = NoAnswer]
    /\ UNCHANGED <<scenario, done, started, closed, totals, sampled, collector, begun, ended>>

\* Mutant: the channel is closed when done is.
CloseOnDone ==
    /\ done
    /\ ~closed
    /\ closed' = TRUE
    /\ UNCHANGED <<scenario, done, started, wpc, held, results, totals, sampled, collector, begun, ended>>

\* wg.Wait(); close(results)
CloseResults ==
    /\ \A w \in Workers : wpc[w] = "gone"
    /\ ~closed
    /\ closed' = TRUE
    /\ UNCHANGED <<scenario, done, started, wpc, held, results, totals, sampled, collector, begun, ended>>

-----------------------------------------------------------------------------
Add(t, success, attempted, produced, lost) ==
    [t EXCEPT !.requests = @ + 1,
              !.succeeded = IF success THEN @ + 1 ELSE @,
              !.failed = IF success THEN @ ELSE @ + 1,
              !.attempted = @ + attempted,
              !.produced = @ + produced,
              !.lost = @ + lost]

\* Mutant: an offset with an error is not looked at.
SoakAccountStatusOnly(t, a) ==
    IF a.ending = "offsets" THEN Add(t, TRUE, Records, Records, 0)
                            ELSE Add(t, FALSE, Records, 0, Records)

\* Soak counts records: those whose offset has an error are lost, and so is every
\* record of a post without a proper response.
SoakAccount(t, a) ==
    IF a.ending = "offsets" THEN Add(t, a.bad = 0, Records, Records - a.bad, a.bad)
                            ELSE Add(t, FALSE, Records, 0, Records)

\* Bench never looks at the body, and a post without a response has no records.
BenchAccount(t, a) ==
    CASE a.ending = "badStatus" -> Add(t, FALSE, Records, 0, 0)
      [] a.ending = "noResponse" -> Add(t, FALSE, 0, 0, 0)
      [] OTHER -> Add(t, TRUE, Records, Records, 0)

Account(t, a) == IF Tool = "soak" THEN SoakAccount(t, a) ELSE BenchAccount(t, a)

\* The first -max-latency-samples latencies are kept.
Receive ==
    /\ collector = "collecting"
    /\ results # <<>>
    /\ totals' = Account(totals, Head(results))
    /\ sampled' = IF totals.requests < scenario.samples
                    THEN [sampled EXCEPT ![Head(results).latency] = @ + 1]
                    ELSE sampled
    /\ results' = Tail(results)
    /\ UNCHANGED <<scenario, done, started, wpc, held, closed, collector, begun, ended>>

\* The range loop ends on a closed and empty channel; summarize.
Summarize ==
    /\ collector = "collecting"
    /\ closed /\ results = <<>>
    /\ collector' = "summarized"
    /\ UNCHANGED <<scenario, done, started, wpc, held, results, closed, totals, sampled, begun, ended>>

Worker(w) ==
    \/ SoakLoop(w) \/ BenchLoop(w) \/ Select(w) \/ Send(w)
    \/ \E a \in scenario.answers : PostOnce(w, a)
Collector == Receive \/ Summarize

LoadNext ==
    \/ TimerFires \/ CloseResults \/ Collector
    \/ \E w \in Workers : Worker(w)

LoadSafetySpec == LoadInit /\ [][LoadNext]_loadVars

-----------------------------------------------------------------------------
(***************************************************************************)
(* No worker is, or can still come to be, about to send on the channel     *)
(* once it is closed (a send on a closed channel panics).                  *)
(***************************************************************************)
NoSendAfterClose == closed => \A w \in Workers : wpc[w] = "gone"

(***************************************************************************)
(* The summary counts every post that was made: none is lost in the        *)
(* channel, when the timer fires, or between the last worker and the close.*)
(***************************************************************************)
SummaryCountsEveryPost ==
    collector = "summarized" =>
        /\ totals.requests = begun
        /\ totals.requests = Weight(Answers, ended)
        /\ totals.requests = totals.succeeded + totals.failed

\* Posts that ended with every record produced, and records lost by the posts.
EndedWell == Weight({a \in Answers : a.ending = "offsets" /\ a.bad = 0}, ended)
Loss(a) == IF a.ending = "offsets" THEN a.bad ELSE Records
RecordsLost == Weight(Answers, [a \in Answers |-> ended[a] * Loss(a)])

(***************************************************************************)
(* docs/soak.md, "Failure semantics": a request fails when there is no     *)
(* response, the status is not 2xx, the body is no produce response or any *)
(* record has an error; and the record-level rate accounts for each record *)
(* of each post, produced or lost, however many of a response are bad.     *)
(***************************************************************************)
SoakFailureSemantics ==
    collector = "summarized" /\ Tool = "soak" =>
        /\ totals.succeeded = EndedWell
        /\ totals.lost = RecordsLost
        /\ totals.attempted = Records * begun
        /\ totals.attempted = totals.produced + totals.lost
        /\ (totals.lost = 0) = (totals.failed = 0)

(***************************************************************************)
(* -requests is "max HTTP requests per target/scenario": workers that race *)
(* on the counter never make more, and they make exactly as many when the  *)
(* timer does not fire first.                                              *)
(***************************************************************************)
RequestLimitExact ==
    Tool = "bench" /\ RequestLimit > 0 =>
        /\ begun <= RequestLimit
        /\ collector = "summarized" /\ ~done => begun = RequestLimit

=============================================================================
