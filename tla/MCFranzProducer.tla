-------------------------- MODULE MCFranzProducer --------------------------
(* Small instances of FranzProducer for TLC. *)
EXTENDS FranzRefinement, FranzInvariant, TLC

\* With room for two records and three bytes: a pair and a single that do not
\* fit together, two singles that do, two that are one byte too many, and an
\* empty batch.
TwoCalls == {<< <<1, 2>>, <<1>> >>,
             << <<1>>, <<2>> >>,
             << <<2>>, <<2>> >>,
             << <<>>, <<1, 2>> >>}

\* One call of two records, or two calls of one.
TwoRecords == {<< <<1, 1>>, <<>> >>, << <<1>>, <<1>> >>}

\* Pointers, and nothing else, are interchangeable.
PointerSymmetry == Permutations(Pointers)

=============================================================================
