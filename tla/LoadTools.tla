----------------------------- MODULE LoadTools -----------------------------
(***************************************************************************)
(* The load generators as programs: soak-produce, and main of              *)
(* cmd/bench-produce, which runs every scenario against every target, with *)
(* the runs of LoadRun, and compares the results.                          *)
(***************************************************************************)
EXTENDS SoakTool, BenchReport

VARIABLE
    rows       \* bench: the comparison

toolVars == <<mainVars, rows>>

-----------------------------------------------------------------------------
\* parseLabelList and, for a single scenario, firstLabel.
Labels(o, list) ==
    LET labels == IF list = <<>> THEN <<"runtime">> ELSE list
    IN IF o.suite THEN labels ELSE <<labels[1]>>

\* The nested loops of buildOptions, and main's loop over the targets.
Each(seq, F(_)) == FlattenSeq([i \in DOMAIN seq |-> F(seq[i])])
BenchPlan(o) ==
    Each(o.payloads, LAMBDA p : Each(o.records, LAMBDA n : Each(o.clients, LAMBDA c :
    Each(o.formats, LAMBDA f : Each(Labels(o, o.compressions), LAMBDA z : Each(Labels(o, o.acks), LAMBDA k :
    Each(o.targets, LAMBDA t :
        <<Job([target |-> t, spec |-> [payload |-> p, records |-> n, clients |-> c, format |-> f,
                                       compression |-> z, acks |-> k]],
              [tool |-> "bench", limit |-> o.requests, clients |-> c, records |-> n,
               samples |-> o.samples, answers |-> o.answers, posts |-> o.duration])>>)))))))

\* The tests of buildOptions.  parses: the flags and the targets do.  The lists of
\* a suite have no zero and are not empty; a single scenario, with lists of one,
\* may have an empty payload.
ParseBench(o) ==
    /\ o.parses /\ o.topic # ""
    /\ o.duration > 0 /\ o.timeout > 0 /\ o.samples > 0
    /\ o.capacity.target >= 0 /\ o.capacity.headroom >= 0
    /\ \A i \in DOMAIN o.clients : o.clients[i] # {}
    /\ \A i \in DOMAIN o.records : o.records[i] > 0
    /\ \A i \in DOMAIN o.payloads : o.payloads[i] >= IF o.suite THEN 1 ELSE 0
    /\ \A i \in DOMAIN o.formats : o.formats[i] \in {"json", "binary"}
    /\ BenchPlan(o) # <<>>

-----------------------------------------------------------------------------
ToolsInit == SoakInit /\ rows = {}

BenchMain ==
    /\ line.tool = "bench"
    /\ exit = -1 /\ plan = <<>>
    /\ IF ParseBench(line)
         THEN plan' = BenchPlan(line) /\ StartRun(BenchPlan(line)[1].scenario) /\ UNCHANGED exit
         ELSE exit' = 2 /\ UNCHANGED <<plan, loadVars>>
    /\ UNCHANGED <<line, reports, rows>>

BenchResult(r) ==
    LET rate == RecordsPerSecond(r.totals, r.elapsed)
    IN [target |-> r.for.target, spec |-> r.for.spec, rate |-> rate,
        nodes |-> EstimateNodes(line.capacity, rate)]

\* The end of bench's main.  Writing the HTML report may fail.
BenchConclude ==
    /\ line.tool = "bench"
    /\ exit = -1 /\ collector = "summarized" /\ Len(plan) = 1
    /\ plan' = <<>>
    /\ \E e \in Elapsed : reports' = Append(reports, Report(plan[1], e))
    /\ rows' = BuildComparisons([i \in DOMAIN reports' |-> BenchResult(reports'[i])])
    /\ exit' \in IF line.html THEN {0, 1} ELSE {0}
    /\ UNCHANGED <<line, loadVars>>

\* What either main does before, between and after the runs.
Main ==
    \/ (SoakMain \/ SoakConclude \/ NextRun) /\ UNCHANGED rows
    \/ BenchMain \/ BenchConclude

ToolsNext == Main \/ (Running /\ UNCHANGED rows)

\* The timer fires, posts have a deadline, and goroutines that can run do run.
ToolsFairness ==
    /\ WF_<<loadVars, toolVars>>(Main)
    /\ WF_<<loadVars, toolVars>>(UNCHANGED rows /\ Running /\ TimerFires)
    /\ WF_<<loadVars, toolVars>>(UNCHANGED rows /\ Running /\ CloseResults)
    /\ WF_<<loadVars, toolVars>>(UNCHANGED rows /\ Running /\ Collector)
    /\ \A w \in Workers : WF_<<loadVars, toolVars>>(UNCHANGED rows /\ Running /\ Worker(w))

-----------------------------------------------------------------------------
(***************************************************************************)
(* The comparison of bench: every run of the plan is in the row of its     *)
(* label and in no other; no result of a row is faster than its winner's;  *)
(* a node winner is named when there is an estimate, has the fewest nodes, *)
(* and needs as many as the throughput winner; the two results behind a    *)
(* "closest gap" are the two fastest of their row, and a gap is reported   *)
(* just when some row has two results that produced anything.              *)
(***************************************************************************)
ComparisonsSound ==
    line.tool = "bench" /\ exit \in {0, 1} =>
        LET all == {BenchResult(reports[i]) : i \in DOMAIN reports} IN
        /\ Len(reports) = Len(BenchPlan(line))
        /\ all = UNION {row.results : row \in rows}
        /\ \A row, other \in rows : row # other => row.results \cap other.results = {}
        /\ \A row \in rows :
              LET estimates == {r.nodes : r \in row.results} \ {0}
                  Of(t) == {r \in row.results : r.target = t}
                  two == TopTwo(row)
              IN /\ \E r \in Of(row.winner) : \A s \in row.results : ~Exceeds(s.rate, r.rate)
                 /\ IF estimates = {} THEN row.nodeWinner = 0
                    ELSE /\ \E r \in Of(row.nodeWinner) : \A n \in estimates : r.nodes > 0 /\ r.nodes <= n
                         /\ \E r \in Of(row.winner), s \in Of(row.nodeWinner) : r.nodes = s.nodes
                 /\ two # <<>> => /\ two[1].target = row.winner
                                  /\ \A r \in row.results \ {two[1]} : ~Exceeds(r.rate, two[2].rate)
        /\ LET closest == ClosestComparison(rows) IN
           /\ (closest = {}) = (\A row \in rows : TopTwo(row) = <<>>)
           /\ \A g \in closest : /\ ~Exceeds(<<1, 1>>, g.ratio)
                                 /\ \E row \in rows : row.winner = g.winner

(***************************************************************************)
(* The programs end, even when the channel of a run fills up.              *)
(***************************************************************************)
ToolEnds == line.tool \in {"soak", "bench"} => <>(exit # -1)

=============================================================================
