--------------------------- MODULE MCRateLimiter ---------------------------
(* A small byte limiter, and requests that share it, for TLC. *)
EXTENDS Throttle

\* Small, the whole bucket, and more than it can ever hold.
SomeCosts == {1, 2, 5, 6}

\* Streams with and without bytes after the last record; bodies that fit the
\* bucket, that do not, and that are too long.
SomeBodies ==
    {[stream |-> TRUE, len |-> 4, ends |-> <<1, 3>>],
     [stream |-> TRUE, len |-> 7, ends |-> <<2, 4, 7>>],
     [stream |-> FALSE, len |-> 3, ends |-> <<2, 3>>],
     [stream |-> FALSE, len |-> 6, ends |-> <<5>>],
     [stream |-> FALSE, len |-> 8, ends |-> <<8>>]}

=============================================================================
