---------------------------- MODULE BenchReport ----------------------------
(***************************************************************************)
(* What cmd/bench-produce makes of its finished runs: capacity, comparison *)
(* rows and closest gap.                                                   *)
(*                                                                         *)
(* Targets are numbers, in the order of their names.  A result is [target, *)
(* spec, rate, nodes], with spec the scenario's [payload, records, clients,*)
(* format, compression, acks].                                             *)
(***************************************************************************)
EXTENDS SoakReport, Sequences, FiniteSets, SequencesExt

\* Nodes for capacity.target records per second and capacity.headroom percent
\* more, rounded up; 0 when there is no target or no rate.
EstimateNodes(capacity, rate) ==
    LET effective == capacity.target * (100 + capacity.headroom) * rate[2]
    IN IF capacity.target <= 0 \/ rate[1] <= 0 THEN 0
       ELSE (effective + 100 * rate[1] - 1) \div (100 * rate[1])

\* formatBytes, as <<number, unit>>: whole kibibytes, and mebibytes cut off.
FormatBytes(n) ==
    IF n % 1024 = 0 /\ n >= 1024 * 1024 THEN <<n \div (1024 * 1024), "MiB">>
    ELSE IF n % 1024 = 0 /\ n >= 1024 THEN <<n \div 1024, "KiB">>
    ELSE <<n, "B">>
ScenarioLabel(spec) ==
    <<spec.format, FormatBytes(spec.payload), spec.records, spec.clients, spec.compression, spec.acks>>

-----------------------------------------------------------------------------
\* Mutant: no nodes, which is no estimate, are fewer than any.
FewerNodesOrNone(acc, r) == acc.nodeWinner = 0 \/ r.nodes < acc.fewest

FewerNodes(acc, r) == r.nodes > 0 /\ (acc.nodeWinner = 0 \/ r.nodes < acc.fewest)
Faster(acc, r) == acc.winner = 0 \/ Exceeds(r.rate, acc.best)

\* One row of buildComparisons, from the results with one label in the order of
\* their targets.  0 is no winner.
Row(group) ==
    LET Best(acc, r) ==
            [winner |-> IF Faster(acc, r) THEN r.target ELSE acc.winner,
             best |-> IF Faster(acc, r) THEN r.rate ELSE acc.best,
             nodeWinner |-> IF FewerNodes(acc, r) THEN r.target ELSE acc.nodeWinner,
             fewest |-> IF FewerNodes(acc, r) THEN r.nodes ELSE acc.fewest]
        row == FoldLeft(Best, [winner |-> 0, best |-> <<0, 1>>, nodeWinner |-> 0, fewest |-> 0], group)
    IN [label |-> ScenarioLabel(group[1].spec), results |-> Range(group),
        winner |-> row.winner, nodeWinner |-> row.nodeWinner]

ByTarget(r, s) == r.target < s.target

BuildComparisons(results) ==
    {Row(SortSeq(SelectSeq(results, LAMBDA r : ScenarioLabel(r.spec) = label), ByTarget))
        : label \in {ScenarioLabel(results[i].spec) : i \in DOMAIN results}}

\* The two fastest of a row that produced anything, as closestComparison finds
\* them; <<>> without two.
TopTwo(row) ==
    LET fast == SetToSortSeq({r \in row.results : r.rate[1] > 0}, ByTarget)
        Two(acc, r) ==
            IF acc.best = <<>> \/ Exceeds(r.rate, acc.best[1].rate)
              THEN [best |-> <<r>>, second |-> acc.best]
            ELSE IF acc.second = <<>> \/ Exceeds(r.rate, acc.second[1].rate)
              THEN [acc EXCEPT !.second = <<r>>]
            ELSE acc
        two == FoldLeft(Two, [best |-> <<>>, second |-> <<>>], fast)
    IN IF two.second = <<>> THEN <<>> ELSE two.best \o two.second

Ratio(two) == <<two[1].rate[1] * two[2].rate[2], two[1].rate[2] * two[2].rate[1]>>

\* The row with the smallest ratio of the two, if any row has two: [winner,
\* runnerUp, ratio].
ClosestComparison(rows) ==
    LET gaps == {[winner |-> TopTwo(row)[1].target, runnerUp |-> TopTwo(row)[2].target,
                  ratio |-> Ratio(TopTwo(row))] : row \in {s \in rows : TopTwo(s) # <<>>}}
    IN {g \in gaps : \A h \in gaps : ~Exceeds(g.ratio, h.ratio)}

=============================================================================
