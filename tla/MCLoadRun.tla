----------------------------- MODULE MCLoadRun -----------------------------
(* Command lines for TLC. *)
EXTENDS Commands

\* Responses with bad errors among their offsets, and other endings.
Offsets(bad, latencies) == [ending : {"offsets"}, bad : bad, latency : latencies]
Other(endings) == [ending : endings, bad : {0}, latency : {1}]
AnyAnswer == Offsets(0..2, {1}) \cup Other(Endings \ {"offsets"})

Soak == [tool |-> "soak", parses |-> TRUE, args |-> 0, absolute |-> TRUE, topic |-> "t",
         duration |-> 3, warmup |-> 0, clients |-> Workers, records |-> 2,
         payload |-> 0, timeout |-> 1, samples |-> 9, minRate |-> 0, maxP99 |-> 0,
         format |-> "json", maxFailure |-> [n |-> 0, percent |-> FALSE], answers |-> AnyAnswer]
Bench == [tool |-> "bench", parses |-> TRUE, topic |-> "t", duration |-> 4, requests |-> 0,
          targets |-> <<1>>, payloads |-> <<512>>, records |-> <<2>>, clients |-> <<Workers>>,
          formats |-> <<"json">>, compressions |-> <<>>, acks |-> <<>>, samples |-> 9,
          timeout |-> 1, capacity |-> [target |-> 0, headroom |-> 0], html |-> FALSE, suite |-> FALSE,
          answers |-> Offsets({0}, {1}) \cup Other(Endings \ {"offsets"})]
One == {CHOOSE w \in Workers : TRUE}

\* Two clients race; one client runs twice, with thresholds on both sides of
\* what it may see.
SoakLines ==
    {Soak} \cup
    {[Soak EXCEPT !.warmup = 1, !.duration = 2, !.clients = One, !.maxFailure = f, !.maxP99 = p,
                  !.samples = IF p = 0 THEN 1 ELSE 3, !.minRate = m,
                  !.answers = Offsets(0..2, IF p = 0 THEN {1} ELSE {1, 3})]
        : f \in {[n |-> 0, percent |-> FALSE], [n |-> 25000, percent |-> TRUE]}, p \in {0, 2},
          m \in {0, 2000}}
BadLines ==
    {[Soak EXCEPT !.parses = FALSE], [Soak EXCEPT !.args = 1], [Soak EXCEPT !.absolute = FALSE],
     [Soak EXCEPT !.topic = ""],
     [Soak EXCEPT !.duration = 0], [Soak EXCEPT !.warmup = -1], [Soak EXCEPT !.clients = {}],
     [Soak EXCEPT !.records = 0, !.answers = {}], [Soak EXCEPT !.samples = 0], [Soak EXCEPT !.maxP99 = -1],
     [Soak EXCEPT !.maxFailure = [n |-> 1001, percent |-> FALSE]], [Soak EXCEPT !.format = "xml"],
     [Bench EXCEPT !.parses = FALSE], [Bench EXCEPT !.records = <<1, 0>>],
     [Bench EXCEPT !.suite = TRUE, !.payloads = <<>>], [Bench EXCEPT !.suite = TRUE, !.payloads = <<0>>]}

\* Clients race, without and with a limit; three targets meet in a scenario; two
\* targets meet in two scenarios, of two sizes or of two labels.
OneClient == [Bench EXCEPT !.duration = 1, !.requests = 1, !.clients = <<One>>,
                           !.capacity = [target |-> 3000, headroom |-> 30],
                           !.answers = Offsets({0}, {1}) \cup Other({"badStatus"})]
BenchLines ==
    {Bench, [Bench EXCEPT !.requests = 3],
     [OneClient EXCEPT !.duration = 2, !.requests = 2, !.targets = <<2, 3, 1>>,
                       !.answers = Offsets({0}, {1})],
     [OneClient EXCEPT !.targets = <<2, 1>>, !.payloads = <<512, 1024>>, !.suite = TRUE, !.html = TRUE],
     [OneClient EXCEPT !.targets = <<2, 1>>, !.acks = <<"all", "one">>, !.suite = TRUE]}
SomeLines == SoakLines \cup BadLines \cup BenchLines \cup {[tool |-> "license"]}

\* A module without license files, one with one and one with two.
SomeFiles == [d1 |-> {}, d2 |-> {"LICENSE"}, d3 |-> {"LICENSE", "NOTICE"}]

=============================================================================
