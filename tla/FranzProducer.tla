--------------------------- MODULE FranzProducer ---------------------------
(***************************************************************************)
(* internal/producer/franz: concurrent Produce calls that share one        *)
(* franz-go client (kgo), one admission controller and one pool of         *)
(* *kgo.Record objects.                                                    *)
(*                                                                         *)
(* The processes are the goroutines of the Produce calls, the goroutines   *)
(* on which kgo runs one promise (callback) per record, kgo itself, the    *)
(* timer or client disconnect that ends a call's context, and Close.       *)
(* A step is one access to shared memory.                                  *)
(*                                                                         *)
(* kgo is external.  It is modelled by what producer.go relies on: every   *)
(* TryProduce leads to at most one call of its promise, on another         *)
(* goroutine, at any later time and in any order; a record is counted as   *)
(* buffered until after its promise has returned; a record beyond          *)
(* MaxBufferedRecords/Bytes is not buffered and its promise gets           *)
(* ErrMaxBuffered; Close fails what is still buffered.                     *)
(***************************************************************************)
EXTENDS Admission, Sequences

CONSTANTS
    Requests,   \* the Produce calls
    Workloads,  \* what the callers may pass: a batch (record sizes) for each call
    MaxBatch,   \* longest batch (the HTTP layer's records-per-request limit)
    Pointers,   \* addresses of *kgo.Record objects
    Nil         \* no pointer, no payload, no offset

Slots == Requests \X (1..MaxBatch)

ASSUME WorkloadAssumption ==
    /\ IsFiniteSet(Requests)
    /\ Workloads \subseteq [Requests -> Seq(Nat)]
    /\ MaxBatch \in Nat
    /\ \A w \in Workloads, q \in Requests : Len(w[q]) <= MaxBatch

ASSUME NilAssumption == Nil \notin Slots /\ Nil \notin Pointers

VARIABLES
    batch,       \* batch[q]: the sizes of the records of call q
    ctxDone,     \* the calls whose context has ended
    closeFlag,   \* p.closeFlag
    clientClosed,\* p.client.Close has taken effect
    pc,          \* where the goroutine of call q is; the last value is its reply
    next,        \* next[q]: index of the record the loop submits next
    remaining,   \* state.remaining
    released,    \* state.released
    done,        \* state.done is closed
    results,     \* state.results[index], by slot
    stage,       \* how far record index of call q has come
    outcome,     \* the err kgo settles on for a slot ("nil" is success)
    ptr,         \* the *kgo.Record handed to TryProduce for a slot
    counted,     \* the slots kgo counts as buffered
    heap,        \* contents of the *kgo.Record objects
    pool         \* p.recordPool

callVars == <<batch, ctxDone, closeFlag, clientClosed, pc, next>>
stateVars == <<remaining, released, done, results>>
kgoVars == <<stage, outcome, ptr, counted>>
poolVars == <<heap, pool>>
vars == <<admissionVars, callVars, stateVars, kgoVars, poolVars>>

-----------------------------------------------------------------------------
Replies == {"ok", "overloaded", "closed", "ctxErr"}
CallPcs == {"start", "admit", "submit", "select", "expired", "releasing"}

Stages == {"unsent", "queued", "called", "written", "last", "releasing",
           "closing", "recycle", "promised", "finished"}

\* The promise of the slot has been or will be run on the record at ptr.
Live == {"queued", "called", "written", "last", "releasing", "closing", "recycle"}

\* The stages before remaining.Add(-1).
Undecremented == {"unsent", "queued", "called", "written"}

Errors == {"nil", "failed", "maxBuffered"}

Blank == [payload |-> Nil, offset |-> Nil]
Record == [payload : Slots \cup {Nil}, offset : Slots \cup {Nil}]

\* The zero producer.Result: it reads as a success.
ZeroResult == [err |-> "nil", offset |-> Nil]
Result == [err : Errors, offset : Slots \cup {Nil}]

Count(q) == Len(batch[q])
Bytes(b) == Weight(DOMAIN b, b)
IndexesOf(q) == 1..Count(q)

Init ==
    /\ AdmissionInit
    /\ batch \in Workloads
    /\ ctxDone = {}
    /\ closeFlag = FALSE
    /\ clientClosed = FALSE
    /\ pc = [q \in Requests |-> "start"]
    /\ next = [q \in Requests |-> 1]
    /\ remaining = [q \in Requests |-> 0]
    /\ released = [q \in Requests |-> FALSE]
    /\ done = [q \in Requests |-> FALSE]
    /\ results = [s \in Slots |-> ZeroResult]
    /\ stage = [s \in Slots |-> "unsent"]
    /\ outcome = [s \in Slots |-> "pending"]
    /\ ptr = [s \in Slots |-> Nil]
    /\ counted = {}
    /\ heap = [p \in Pointers |-> Blank]
    /\ pool = {}

-----------------------------------------------------------------------------
(***************************************************************************)
(* The goroutine of a Produce call.                                        *)
(***************************************************************************)
CheckClosed(q) ==
    /\ pc[q] = "start"
    /\ pc' = [pc EXCEPT ![q] = IF closeFlag THEN "closed"
                               ELSE IF batch[q] = <<>> THEN "ok" ELSE "admit"]
    /\ UNCHANGED <<admissionVars, batch, ctxDone, closeFlag, clientClosed, next,
                   stateVars, kgoVars, poolVars>>

TryAcquire(q) ==
    /\ pc[q] = "admit"
    /\ Acquire(Count(q), Bytes(batch[q]))
    /\ pc' = [pc EXCEPT ![q] = "submit"]
    /\ remaining' = [remaining EXCEPT ![q] = Count(q)]      \* newRequestState
    /\ UNCHANGED <<batch, ctxDone, closeFlag, clientClosed, next,
                   released, done, results, kgoVars, poolVars>>

Overloaded(q) ==
    /\ pc[q] = "admit"
    /\ ~Fits(Count(q), Bytes(batch[q]))
    /\ pc' = [pc EXCEPT ![q] = "overloaded"]
    /\ UNCHANGED <<admissionVars, batch, ctxDone, closeFlag, clientClosed, next,
                   stateVars, kgoVars, poolVars>>

\* Pool.Get returns some pooled object or misses, and then a fresh object is
\* one that no live slot refers to.
Available == Pointers \ {ptr[s] : s \in {t \in Slots : stage[t] \in Live}}
Obtainable == pool \cup Available

\* kgo's own test of the buffer limits, with the record about to be added.
BufferFull(s) ==
    LET size == [t \in Slots |-> batch[t[1]][t[2]]]
    IN  \/ MaxRecords > 0 /\ Cardinality(counted) + 1 > MaxRecords
        \/ MaxBytes > 0 /\ Weight(counted \cup {s}, size) > MaxBytes

\* Mutant: the object handed out also stays in the pool.
SubmitRecordShared(q, p) ==
    LET s == <<q, next[q]>> IN
    /\ pc[q] = "submit"
    /\ p \in Obtainable
    /\ heap' = [heap EXCEPT ![p] = [payload |-> s, offset |-> Nil]]
    /\ ptr' = [ptr EXCEPT ![s] = p]
    /\ stage' = [stage EXCEPT ![s] = "queued"]
    /\ counted' = counted \cup {s}
    /\ next' = [next EXCEPT ![q] = @ + 1]
    /\ pc' = [pc EXCEPT ![q] = IF next[q] = Count(q) THEN "select" ELSE "submit"]
    /\ UNCHANGED <<admissionVars, batch, ctxDone, closeFlag, clientClosed,
                   stateVars, outcome, pool>>

\* One turn of the loop: acquireRecord and TryProduce.
SubmitRecord(q, p) ==
    LET s == <<q, next[q]>> IN
    /\ pc[q] = "submit"
    /\ p \in Obtainable
    /\ pool' = pool \ {p}
    /\ heap' = [heap EXCEPT ![p] = [payload |-> s, offset |-> Nil]]
    /\ ptr' = [ptr EXCEPT ![s] = p]
    /\ IF BufferFull(s)
         THEN /\ stage' = [stage EXCEPT ![s] = "called"]
              /\ outcome' = [outcome EXCEPT ![s] = "maxBuffered"]
              /\ UNCHANGED counted
         ELSE /\ stage' = [stage EXCEPT ![s] = "queued"]
              /\ counted' = counted \cup {s}
              /\ UNCHANGED outcome
    /\ next' = [next EXCEPT ![q] = @ + 1]
    /\ pc' = [pc EXCEPT ![q] = IF next[q] = Count(q) THEN "select" ELSE "submit"]
    /\ UNCHANGED <<admissionVars, batch, ctxDone, closeFlag, clientClosed, stateVars>>

\* The select statement; with both cases ready it takes either.
ReturnResults(q) ==
    /\ pc[q] = "select"
    /\ done[q]
    /\ pc' = [pc EXCEPT ![q] = "ok"]
    /\ UNCHANGED <<admissionVars, batch, ctxDone, closeFlag, clientClosed, next,
                   stateVars, kgoVars, poolVars>>

\* Mutant: the select has no case for the context once records are sent.
SelectIgnoresContext(q) ==
    /\ pc[q] = "select"
    /\ q \in ctxDone
    /\ done[q]
    /\ pc' = [pc EXCEPT ![q] = "expired"]
    /\ UNCHANGED <<admissionVars, batch, ctxDone, closeFlag, clientClosed, next,
                   stateVars, kgoVars, poolVars>>

SelectCtxDone(q) ==
    /\ pc[q] = "select"
    /\ q \in ctxDone
    /\ pc' = [pc EXCEPT ![q] = "expired"]
    /\ UNCHANGED <<admissionVars, batch, ctxDone, closeFlag, clientClosed, next,
                   stateVars, kgoVars, poolVars>>

\* state.release(), first half: the compare-and-swap of released.
CtxSwapReleased(q) ==
    /\ pc[q] = "expired"
    /\ pc' = [pc EXCEPT ![q] = IF released[q] THEN "ctxErr" ELSE "releasing"]
    /\ released' = [released EXCEPT ![q] = TRUE]
    /\ UNCHANGED <<admissionVars, batch, ctxDone, closeFlag, clientClosed, next,
                   remaining, done, results, kgoVars, poolVars>>

\* state.release(), second half, and the return of ctx.Err().
CtxRelease(q) ==
    /\ pc[q] = "releasing"
    /\ Release(Count(q), Bytes(batch[q]))
    /\ pc' = [pc EXCEPT ![q] = "ctxErr"]
    /\ UNCHANGED <<batch, ctxDone, closeFlag, clientClosed, next,
                   stateVars, kgoVars, poolVars>>

Call(q) ==
    \/ CheckClosed(q)
    \/ TryAcquire(q)
    \/ Overloaded(q)
    \/ \E p \in Pointers : SubmitRecord(q, p)
    \/ ReturnResults(q)
    \/ SelectCtxDone(q)
    \/ CtxSwapReleased(q)
    \/ CtxRelease(q)

-----------------------------------------------------------------------------
(***************************************************************************)
(* kgo (external): it settles a buffered record and calls its promise.  On *)
(* success it has written Partition and Offset into the record object; the *)
(* offset is named by the payload that the object held at that time.       *)
(***************************************************************************)
Deliver(s) ==
    /\ stage[s] = "queued"
    /\ ~clientClosed
    /\ heap' = [heap EXCEPT ![ptr[s]] = [payload |-> heap[ptr[s]].payload,
                                         offset |-> heap[ptr[s]].payload]]
    /\ outcome' = [outcome EXCEPT ![s] = "nil"]
    /\ stage' = [stage EXCEPT ![s] = "called"]
    /\ UNCHANGED <<admissionVars, callVars, stateVars, ptr, counted, pool>>

\* Broker error, delivery timeout, cancelled context or closed client.
Fail(s) ==
    /\ stage[s] = "queued"
    /\ outcome' = [outcome EXCEPT ![s] = "failed"]
    /\ stage' = [stage EXCEPT ![s] = "called"]
    /\ UNCHANGED <<admissionVars, callVars, stateVars, ptr, counted, poolVars>>

\* The promise has returned; kgo stops counting the record.
Unbuffer(s) ==
    /\ stage[s] = "promised"
    /\ stage' = [stage EXCEPT ![s] = "finished"]
    /\ counted' = counted \ {s}
    /\ UNCHANGED <<admissionVars, callVars, stateVars, outcome, ptr, poolVars>>

(***************************************************************************)
(* The promise: state.complete(index, rec, err), then releaseRecord.       *)
(***************************************************************************)
WriteResult(s) ==
    /\ stage[s] = "called"
    /\ results' = [results EXCEPT ![s] = [err |-> outcome[s],
                                          offset |-> heap[ptr[s]].offset]]
    /\ stage' = [stage EXCEPT ![s] = "written"]
    /\ UNCHANGED <<admissionVars, callVars, remaining, released, done,
                   outcome, ptr, counted, poolVars>>

\* Mutant: the promise before the last one takes itself for the last.
DecrementEarly(s) ==
    LET q == s[1] IN
    /\ stage[s] = "written"
    /\ remaining' = [remaining EXCEPT ![q] = @ - 1]
    /\ stage' = [stage EXCEPT ![s] = IF remaining[q] <= 2 THEN "last" ELSE "recycle"]
    /\ UNCHANGED <<admissionVars, callVars, released, done, results,
                   outcome, ptr, counted, poolVars>>

Decrement(s) ==
    LET q == s[1] IN
    /\ stage[s] = "written"
    /\ remaining' = [remaining EXCEPT ![q] = @ - 1]
    /\ stage' = [stage EXCEPT ![s] = IF remaining[q] = 1 THEN "last" ELSE "recycle"]
    /\ UNCHANGED <<admissionVars, callVars, released, done, results,
                   outcome, ptr, counted, poolVars>>

\* Mutant: the promise releases without winning the swap.
SwapReleasedAlways(s) ==
    LET q == s[1] IN
    /\ stage[s] = "last"
    /\ stage' = [stage EXCEPT ![s] = "releasing"]
    /\ released' = [released EXCEPT ![q] = TRUE]
    /\ UNCHANGED <<admissionVars, callVars, remaining, done, results,
                   outcome, ptr, counted, poolVars>>

\* state.release() by the promise that brought remaining to zero.
SwapReleased(s) ==
    LET q == s[1] IN
    /\ stage[s] = "last"
    /\ stage' = [stage EXCEPT ![s] = IF released[q] THEN "closing" ELSE "releasing"]
    /\ released' = [released EXCEPT ![q] = TRUE]
    /\ UNCHANGED <<admissionVars, callVars, remaining, done, results,
                   outcome, ptr, counted, poolVars>>

PromiseRelease(s) ==
    LET q == s[1] IN
    /\ stage[s] = "releasing"
    /\ Release(Count(q), Bytes(batch[q]))
    /\ stage' = [stage EXCEPT ![s] = "closing"]
    /\ UNCHANGED <<callVars, stateVars, outcome, ptr, counted, poolVars>>

CloseDone(s) ==
    /\ stage[s] = "closing"
    /\ done' = [done EXCEPT ![s[1]] = TRUE]
    /\ stage' = [stage EXCEPT ![s] = "recycle"]
    /\ UNCHANGED <<admissionVars, callVars, remaining, released, results,
                   outcome, ptr, counted, poolVars>>

\* Mutant: the object goes back to the pool with its old contents.
ReleaseRecordDirty(s) ==
    /\ stage[s] = "recycle"
    /\ pool' = pool \cup {ptr[s]}
    /\ ptr' = [ptr EXCEPT ![s] = Nil]
    /\ stage' = [stage EXCEPT ![s] = "promised"]
    /\ UNCHANGED <<admissionVars, callVars, stateVars, outcome, counted, heap>>

\* releaseRecord: the object is zeroed, then put back; the closure ends.
ReleaseRecord(s) ==
    /\ stage[s] = "recycle"
    /\ heap' = [heap EXCEPT ![ptr[s]] = Blank]
    /\ pool' = pool \cup {ptr[s]}
    /\ ptr' = [ptr EXCEPT ![s] = Nil]
    /\ stage' = [stage EXCEPT ![s] = "promised"]
    /\ UNCHANGED <<admissionVars, callVars, stateVars, outcome, counted>>

Promise(s) ==
    \/ WriteResult(s)
    \/ Decrement(s)
    \/ SwapReleased(s)
    \/ PromiseRelease(s)
    \/ CloseDone(s)
    \/ ReleaseRecord(s)

-----------------------------------------------------------------------------
\* The deadline that the HTTP layer puts on every call, or a disconnect.
EndContext(q) ==
    /\ pc[q] \notin Replies
    /\ ctxDone' = ctxDone \cup {q}
    /\ UNCHANGED <<admissionVars, batch, closeFlag, clientClosed, pc, next,
                   stateVars, kgoVars, poolVars>>

\* Close: the compare-and-swap of closeFlag, then client.Close().
SetCloseFlag ==
    /\ ~closeFlag
    /\ closeFlag' = TRUE
    /\ UNCHANGED <<admissionVars, batch, ctxDone, clientClosed, pc, next,
                   stateVars, kgoVars, poolVars>>

CloseClient ==
    /\ closeFlag
    /\ clientClosed' = TRUE
    /\ UNCHANGED <<admissionVars, batch, ctxDone, closeFlag, pc, next,
                   stateVars, kgoVars, poolVars>>

Next ==
    \/ \E q \in Requests : Call(q) \/ EndContext(q)
    \/ \E s \in Slots : Promise(s) \/ Deliver(s) \/ Fail(s) \/ Unbuffer(s)
    \/ SetCloseFlag
    \/ CloseClient

(***************************************************************************)
(* Goroutines that can run do run, and a context with a deadline ends.     *)
(* Nothing is assumed of kgo: it may never call a promise.                 *)
(***************************************************************************)
Fairness ==
    /\ \A q \in Requests : WF_vars(Call(q)) /\ WF_vars(EndContext(q))
    /\ \A s \in Slots : WF_vars(Promise(s))

Safety == Init /\ [][Next]_vars
Spec == Safety /\ Fairness

-----------------------------------------------------------------------------
\* Types; state.remaining and the loop index stay in range.
TypeOK ==
    /\ usedRecords \in Nat
    /\ usedBytes \in Nat
    /\ batch \in Workloads
    /\ ctxDone \subseteq Requests
    /\ closeFlag \in BOOLEAN
    /\ clientClosed \in BOOLEAN
    /\ pc \in [Requests -> CallPcs \cup Replies]
    /\ next \in [Requests -> 1..(MaxBatch + 1)]
    /\ remaining \in [Requests -> 0..MaxBatch]
    /\ released \in [Requests -> BOOLEAN]
    /\ done \in [Requests -> BOOLEAN]
    /\ results \in [Slots -> Result]
    /\ stage \in [Slots -> Stages]
    /\ outcome \in [Slots -> Errors \cup {"pending"}]
    /\ ptr \in [Slots -> Pointers \cup {Nil}]
    /\ counted \subseteq Slots
    /\ heap \in [Pointers -> Record]
    /\ pool \subseteq Pointers

Releasing(q) ==
    pc[q] = "releasing" \/ \E i \in 1..MaxBatch : stage[<<q, i>>] = "releasing"

\* The calls whose reservation has not been handed back yet.
Holders ==
    {q \in Requests : \/ pc[q] \in {"submit", "select", "expired"} /\ ~released[q]
                      \/ Releasing(q)}

(***************************************************************************)
(* What admission counts is exactly the records and bytes of the calls     *)
(* that hold a reservation: Produce neither leaks one nor hands one back   *)
(* twice, whichever of the last callback and the timeout gets to           *)
(* state.release() first, and the clamp in Admission.Release hides nothing.*)
(***************************************************************************)
AdmissionExact ==
    /\ usedRecords = Weight(Holders, [q \in Requests |-> Count(q)])
    /\ usedBytes = Weight(Holders, [q \in Requests |-> Bytes(batch[q])])

(***************************************************************************)
(* Admission never grants more than its limits, however the acquisitions   *)
(* and releases of the calls interleave.                                   *)
(***************************************************************************)
AdmissionBounded ==
    /\ MaxRecords > 0 => usedRecords <= MaxRecords
    /\ MaxBytes > 0 => usedBytes <= MaxBytes

(***************************************************************************)
(* The results Produce returns are complete and in the order of the        *)
(* records: result i is what kgo settled for record i, with the offset of  *)
(* that record's payload, never the zero Result of a callback that has     *)
(* not run (which would read as a success) nor that of another record.     *)
(***************************************************************************)
ResultsMatchRecords ==
    \A q \in Requests : pc[q] = "ok" =>
        \A i \in IndexesOf(q) :
            LET s == <<q, i>> IN
            /\ outcome[s] # "pending"
            /\ results[s] = [err |-> outcome[s],
                             offset |-> IF outcome[s] = "nil" THEN s ELSE Nil]

(***************************************************************************)
(* A *kgo.Record that some callback or kgo still uses is in no other use:  *)
(* two live slots never share one, and none is in the pool.                *)
(***************************************************************************)
NoSharedRecord ==
    \A s \in Slots : stage[s] \in Live =>
        /\ ptr[s] \in Pointers \ pool
        /\ \A t \in Slots : stage[t] \in Live /\ t # s => ptr[t] # ptr[s]

(***************************************************************************)
(* close(state.done) runs at most once (a second close would panic), and   *)
(* only after every callback of the request has written its result.        *)
(***************************************************************************)
DoneClosedOnce ==
    \A s \in Slots : stage[s] = "closing" =>
        /\ ~done[s[1]]
        /\ \A i \in IndexesOf(s[1]) : stage[<<s[1], i>>] \notin Undecremented
        /\ \A i \in IndexesOf(s[1]) : stage[<<s[1], i>>] = "closing" => <<s[1], i>> = s

(***************************************************************************)
(* The slice Produce returned is never written again: a late callback      *)
(* cannot change the results the HTTP layer is encoding.                   *)
(***************************************************************************)
ReturnedResultsStable ==
    [][\A q \in Requests : pc[q] = "ok" =>
          \A i \in IndexesOf(q) : results'[<<q, i>>] = results[<<q, i>>]]_results

(***************************************************************************)
(* Every Produce call returns, even when kgo never calls a promise.        *)
(***************************************************************************)
EveryCallReturns == \A q \in Requests : <>(pc[q] \in Replies)

(***************************************************************************)
(* Every reservation is handed back, even when kgo never calls a promise.  *)
(***************************************************************************)
ReservationsReturned == \A q \in Requests : q \in Holders ~> q \notin Holders

(***************************************************************************)
(* docs/performance-model.md lists "global outstanding record count" among *)
(* the limits applied before enqueueing into franz-go.  Read literally:    *)
(* a record outstanding in franz-go is covered by a reservation.  The code *)
(* hands the reservation of a timed-out call back while its records are    *)
(* still buffered, so this does not hold.                                  *)
(***************************************************************************)
OutstandingIsAdmitted ==
    \A s \in Slots : stage[s] = "queued" => s[1] \in Holders

=============================================================================
