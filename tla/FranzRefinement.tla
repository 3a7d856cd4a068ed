-------------------------- MODULE FranzRefinement --------------------------
(* FranzProducer implements the abstract contract of a bounded producer. *)
EXTENDS FranzProducer

\* What a caller, or one who watches admission and kgo, sees of the calls.
Counts == [q \in Requests |-> Count(q)]
Sizes == [q \in Requests |-> Bytes(batch[q])]
Reply == [q \in Requests |-> IF pc[q] \in Replies THEN pc[q] ELSE "none"]
Admitted == {q \in Requests : /\ pc[q] \notin {"start", "admit", "overloaded", "closed"}
                              /\ batch[q] # <<>>}
Unsettled == [q \in Requests |-> {i \in IndexesOf(q) : outcome[<<q, i>>] = "pending"}]

Contract == INSTANCE ProduceContract WITH
    Calls <- Requests,
    Limit <- MaxRecords,
    ByteLimit <- MaxBytes,
    records <- Counts,
    bytes <- Sizes,
    reply <- Reply,
    admitted <- Admitted,
    held <- Holders,
    expired <- ctxDone,
    unsettled <- Unsettled,
    shut <- closeFlag

(***************************************************************************)
(* Every behaviour of the franz producer is one the contract allows: in    *)
(* particular a call is refused with ErrOverloaded only when the calls     *)
(* holding reservations leave no room for it, results are returned only    *)
(* when every record is settled and the reservation is already back, and a *)
(* reservation comes back early only for a call whose context has ended.   *)
(***************************************************************************)
ImplementsContract == Contract!Spec

=============================================================================
