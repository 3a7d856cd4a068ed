------------------------------- MODULE Claims -------------------------------
(***************************************************************************)
(* Statements about the produce routes that the repository makes in its    *)
(* metric descriptions and that the handlers do not meet.                  *)
(***************************************************************************)
EXTENDS Proxy

(***************************************************************************)
(* internal/metrics: kafka_rest_admission_rejections counts "Requests      *)
(* rejected because local producer admission capacity was exhausted."      *)
(* handleV3BatchBody does not count them.                                  *)
(***************************************************************************)
RejectionsCounted ==
    (\A c \in Clients : ~Active(c)) =>
        metrics.rejections = Cardinality({c \in Clients : ret[c].err = "overloaded"})

(***************************************************************************)
(* internal/metrics: kafka_rest_records_produced counts "Records           *)
(* successfully acknowledged by Kafka."  The handlers count results, and a *)
(* call that gives up has none, whatever Kafka does with its records.      *)
(***************************************************************************)
AcknowledgedIsCounted ==
    (\A c \in Clients : ~Active(c)) => metrics.produced = Cardinality(Acknowledged)

=============================================================================
