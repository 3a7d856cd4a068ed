--------------------------- MODULE FranzInvariant ---------------------------
(* The inductive invariant from which the safety of FranzProducer follows. *)
EXTENDS FranzProducer

\* The replies and stops of a call that has submitted nothing.
Unadmitted == {"start", "admit", "overloaded", "closed"}

\* The indexes of q whose promise has not decremented state.remaining.
Pending(q) == {i \in IndexesOf(q) : stage[<<q, i>>] \in Undecremented}

\* The stages of the promise that brought state.remaining to zero.
Closers == {"last", "releasing", "closing"}

Expected(s) == [err |-> outcome[s],
                offset |-> IF outcome[s] = "nil" THEN s ELSE Nil]

\* A prefix of the batch has been submitted, all of it once the loop is over.
LoopInv ==
    \A q \in Requests :
        /\ next[q] <= Count(q) + 1
        /\ pc[q] \in Unadmitted => next[q] = 1 /\ ~released[q]
        /\ pc[q] = "admit" => Count(q) > 0
        /\ pc[q] = "submit" => next[q] <= Count(q)
        /\ pc[q] \notin Unadmitted \cup {"submit"} => next[q] = Count(q) + 1
        /\ \A i \in 1..MaxBatch : stage[<<q, i>>] = "unsent" <=> next[q] <= i

\* state.remaining counts the promises still to come.
RemainingInv ==
    \A q \in Requests :
        /\ pc[q] \in Unadmitted => remaining[q] = 0
        /\ pc[q] \notin Unadmitted => remaining[q] = Cardinality(Pending(q))

\* One promise closes done, when all have run.
CloserInv ==
    /\ \A q \in Requests : done[q] => Pending(q) = {} /\ released[q]
    /\ \A q \in Requests, i \in 1..MaxBatch :
          stage[<<q, i>>] \in Closers =>
              /\ Pending(q) = {}
              /\ ~done[q]
              /\ \A j \in 1..MaxBatch : stage[<<q, j>>] \in Closers => j = i

\* Winning the swap of state.released is the right to release, once.
ReleaseInv ==
    \A q \in Requests :
        /\ Releasing(q) => released[q]
        /\ pc[q] = "releasing" => \A i \in 1..MaxBatch : stage[<<q, i>>] # "releasing"
        /\ pc[q] = "ctxErr" => released[q]
        /\ pc[q] = "ok" => done[q] \/ Count(q) = 0
        /\ \A i \in 1..MaxBatch : stage[<<q, i>>] = "closing" => released[q]

\* A record object in use carries its own slot's payload; a pooled one none.
PoolInv ==
    /\ \A p \in pool : heap[p] = Blank
    /\ \A s \in Slots : stage[s] \in Live =>
          /\ ptr[s] \in Pointers
          /\ heap[ptr[s]].payload = s
          /\ stage[s] = "queued" => heap[ptr[s]].offset = Nil
          /\ stage[s] = "called" => heap[ptr[s]].offset = Expected(s).offset

\* A result, once written, is the slot's own.
ResultInv ==
    \A s \in Slots :
        /\ outcome[s] = "pending" <=> stage[s] \in {"unsent", "queued"}
        /\ stage[s] \notin {"unsent", "queued", "called"} => results[s] = Expected(s)

(***************************************************************************)
(* All of the above, with the admission counters exact and bounded: what   *)
(* every step of the producer keeps, and what implies its safety.          *)
(***************************************************************************)
InductiveInvariant ==
    /\ TypeOK
    /\ AdmissionExact
    /\ AdmissionBounded
    /\ LoopInv
    /\ RemainingInv
    /\ CloserInv
    /\ ReleaseInv
    /\ PoolInv
    /\ ResultInv

=============================================================================
