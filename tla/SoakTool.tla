------------------------------ MODULE SoakTool ------------------------------
(***************************************************************************)
(* main of cmd/soak-produce: it checks its options, runs once to warm up   *)
(* if asked to, runs again, and turns the second summary into an exit      *)
(* code.  The runs are those of LoadRun, with locals of their own.         *)
(***************************************************************************)
EXTENDS LoadRun, SoakReport

CONSTANTS
    CommandLines,   \* what the programs may be started with
    Elapsed         \* how long a run may take, in milliseconds

VARIABLES
    line,      \* the command line
    plan,      \* the runs still to be made, the current one first
    reports,   \* what the finished ones came to
    exit       \* the exit code, -1 while the program runs

mainVars == <<line, plan, reports, exit>>

-----------------------------------------------------------------------------
\* -max-failure-rate, in thousandths of one or of a percent.
ParseFailureRate(v) == IF v.percent THEN <<v.n, 100 * 1000>> ELSE <<v.n, 1000>>

\* The tests of parseOptions.  parses: every flag is known and has a value of its
\* type; args are the arguments left over, absolute tells of the URL.
ParseSoak(o) ==
    /\ o.parses /\ o.args = 0
    /\ o.absolute /\ o.topic # ""
    /\ o.duration > 0 /\ o.warmup >= 0
    /\ o.clients # {} /\ o.records > 0 /\ o.payload >= 0
    /\ o.timeout > 0 /\ o.samples > 0
    /\ o.minRate >= 0 /\ o.maxP99 >= 0
    /\ o.format \in {"json", "binary"}
    /\ o.maxFailure.n >= 0 /\ ~Exceeds(ParseFailureRate(o.maxFailure), <<1, 1>>)

\* A run and what it is for.  The durations bound the number of posts.
Job(for, scen) == [for |-> for, scenario |-> scen]
SoakScenario(o, posts) ==
    [tool |-> "soak", limit |-> 0, clients |-> o.clients, records |-> o.records,
     samples |-> o.samples, answers |-> o.answers, posts |-> posts]
SoakPlan(o) ==
    LET measured == Job("measured", SoakScenario(o, o.duration))
    IN IF o.warmup > 0 THEN <<Job("warmup", SoakScenario(o, o.warmup)), measured>> ELSE <<measured>>

\* A flag is a number, or says how many workers there are and what the target does.
SoakTyped(o) ==
    /\ o.duration \in Int /\ o.warmup \in Int /\ o.records \in Int /\ o.samples \in Int
    /\ o.minRate \in Int /\ o.maxP99 \in Int /\ o.maxFailure.n \in Int
    /\ o.clients \subseteq Workers /\ o.records <= MaxRecords
    /\ o.answers \subseteq AnswersTo(o.records)

ASSUME SoakLineAssumption ==
    /\ Elapsed \subseteq Nat
    /\ \A o \in CommandLines : o.tool = "soak" => SoakTyped(o)

-----------------------------------------------------------------------------
\* A run begins with locals of its own.
StartRun(s) ==
    /\ scenario' = s
    /\ done' = FALSE
    /\ started' = 0
    /\ wpc' = [w \in Workers |-> IF w \in s.clients THEN "loop" ELSE "gone"]
    /\ held' = [w \in Workers |-> NoAnswer]
    /\ results' = <<>>
    /\ closed' = FALSE
    /\ totals' = NoTotals
    /\ sampled' = [l \in Latencies |-> 0]
    /\ collector' = "collecting"
    /\ begun' = 0
    /\ ended' = [a \in Answers |-> 0]

Idle == [tool |-> "soak", limit |-> 0, clients |-> Workers, records |-> 1, samples |-> 1,
         answers |-> {}, posts |-> 0]

SoakInit ==
    /\ Fresh(Idle)
    /\ line \in CommandLines
    /\ plan = <<>>
    /\ reports = <<>>
    /\ exit = -1

SoakMain ==
    /\ line.tool = "soak"
    /\ exit = -1 /\ plan = <<>>
    /\ IF ParseSoak(line)
         THEN plan' = SoakPlan(line) /\ StartRun(SoakPlan(line)[1].scenario) /\ UNCHANGED exit
         ELSE exit' = 2 /\ UNCHANGED <<plan, loadVars>>
    /\ UNCHANGED <<line, reports>>

\* A run is under way.
Running ==
    /\ exit = -1 /\ plan # <<>> /\ collector = "collecting"
    /\ LoadNext
    /\ UNCHANGED mainVars

\* summarize, as far as what follows looks at it.
Report(job, elapsed) ==
    [for |-> job.for, elapsed |-> elapsed, totals |-> totals, sampled |-> sampled]

NextRun ==
    /\ exit = -1 /\ collector = "summarized" /\ Len(plan) > 1
    /\ \E e \in Elapsed : reports' = Append(reports, Report(plan[1], e))
    /\ plan' = Tail(plan)
    /\ StartRun(plan[2].scenario)
    /\ UNCHANGED <<line, exit>>

Thresholds(o) == [maxFailure |-> ParseFailureRate(o.maxFailure), minRate |-> o.minRate, maxP99 |-> o.maxP99]

\* Mutant: the warm-up counts as well.
SoakExitAll(all) ==
    IF \E i \in DOMAIN all : EvaluateThresholds(all[i].totals, all[i].elapsed, all[i].sampled,
                                                Thresholds(line)) # {}
      THEN 1 ELSE 0

\* The end of soak's main: only the last summary is evaluated.
SoakExit(all) ==
    LET r == all[Len(all)] IN
    IF EvaluateThresholds(r.totals, r.elapsed, r.sampled, Thresholds(line)) = {} THEN 0 ELSE 1

SoakConclude ==
    /\ line.tool = "soak"
    /\ exit = -1 /\ collector = "summarized" /\ Len(plan) = 1
    /\ plan' = <<>>
    /\ \E e \in Elapsed : reports' = Append(reports, Report(plan[1], e))
    /\ exit' = SoakExit(reports')
    /\ UNCHANGED <<line, loadVars>>

SoakNext == SoakMain \/ Running \/ NextRun \/ SoakConclude

SoakSafetySpec == SoakInit /\ [][SoakNext]_<<loadVars, mainVars>>

-----------------------------------------------------------------------------
\* Over the posts of the current run: the records lost are within their share; the
\* others, by a clock that is read as one millisecond if it stands still, are fast
\* enough; and, one slower post left aside, less than 1% of the others is slower.
FewLost(rate) == RecordsLost * rate[2] <= rate[1] * (line.records * begun)
FastEnough(rate, clock) ==
    1000 * (line.records * begun - RecordsLost) >= rate * (IF clock = 0 THEN 1 ELSE clock)
SlowerThan(l) == begun - Weight({a \in Answers : a.latency <= l}, ended)
PromptEnough(l) == 100 * (SlowerThan(l) - 1) < begun - 1

(***************************************************************************)
(* docs/soak.md: exit code 2 for options that are invalid, with nothing    *)
(* posted; else 0 when, over the posts of the measured run alone, whatever *)
(* the warm-up did, the share of lost records, the records per second and, *)
(* unless there were more posts than samples, the p99 latency are within   *)
(* the thresholds that are set; else 1.  The p99 is within its threshold   *)
(* when, one slower post left aside, less than 1% of the others is slower. *)
(***************************************************************************)
SoakVerdict ==
    line.tool = "soak" /\ exit # -1 =>
        LET limits == Thresholds(line)
            clock == reports[Len(reports)].elapsed
        IN IF ~ParseSoak(line) THEN exit = 2 /\ begun = 0
           ELSE limits.maxP99 = 0 \/ begun <= line.samples =>
                exit = IF /\ FewLost(limits.maxFailure)
                          /\ limits.minRate > 0 => FastEnough(limits.minRate, clock)
                          /\ limits.maxP99 > 0 /\ begun > 0 => PromptEnough(limits.maxP99)
                         THEN 0 ELSE 1

=============================================================================
