------------------------------ MODULE Metrics ------------------------------
(***************************************************************************)
(* The counters of internal/metrics that the produce handlers move, as     *)
(* functions from one state of the counters to the next.  Histograms and   *)
(* the byte counter are left out: no property looks at them.               *)
(***************************************************************************)
EXTENDS Integers

\* statusClass, for the statuses the handlers use.
StatusClass(status) == status \div 100

NoMetrics == [outstanding    |-> 0,
              requests       |-> [class \in 2..5 |-> 0],
              accepted       |-> 0,
              produced       |-> 0,
              failed         |-> 0,
              rejections     |-> 0,
              rateRejections |-> 0]

IncOutstanding(m) == [m EXCEPT !.outstanding = @ + 1]
DecOutstanding(m) == [m EXCEPT !.outstanding = @ - 1]

ObserveRequest(m, status, records) ==
    [m EXCEPT !.requests[StatusClass(status)] = @ + 1,
              !.accepted = IF records > 0 /\ status < 400 THEN @ + records ELSE @]

ObserveProduceResult(m, successes, failures) ==
    [m EXCEPT !.produced = @ + successes, !.failed = @ + failures]

ObserveAdmissionRejected(m) == [m EXCEPT !.rejections = @ + 1]
ObserveRateLimitRejected(m) == [m EXCEPT !.rateRejections = @ + 1]

=============================================================================
