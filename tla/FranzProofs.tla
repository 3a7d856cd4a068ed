----------------------------- MODULE FranzProofs -----------------------------
(***************************************************************************)
(* The franz producer keeps its inductive invariant, and what follows from *)
(* it, for any calls, batches, limits and pool; and it implements          *)
(* ProduceContract.                                                        *)
(***************************************************************************)
EXTENDS FranzInvariant, FranzRefinement, CountingTheorems

\* The initial states, the types, and the loop of Produce over its batch.

(***************************************************************************)
(* Every batch is a sequence of sizes no longer than MaxBatch, and its     *)
(* byte count is a natural.                                                *)
(***************************************************************************)
LEMMA BatchType ==
    ASSUME TypeOK, NEW q \in Requests
    PROVE  /\ batch[q] \in Seq(Nat)
           /\ Count(q) \in Nat
           /\ Count(q) <= MaxBatch
           /\ Bytes(batch[q]) \in Nat
<1>1. batch[q] \in Seq(Nat) /\ Len(batch[q]) <= MaxBatch
  BY WorkloadAssumption, Zenon DEF TypeOK
<1>2. IsFiniteSet(DOMAIN batch[q])
  BY <1>1, FS_Interval
<1>3. \A i \in DOMAIN batch[q] : batch[q][i] \in Nat
  BY <1>1
<1> QED
  BY <1>1, <1>2, <1>3, WeightType DEF Count, Bytes

(***************************************************************************)
(* A slot is a pair of a call and an index.                                *)
(***************************************************************************)
LEMMA SlotParts ==
    ASSUME NEW s \in Slots
    PROVE  /\ s[1] \in Requests
           /\ s[2] \in 1..MaxBatch
           /\ s = <<s[1], s[2]>>
BY DEF Slots

(***************************************************************************)
(* The initial states satisfy the invariant.                               *)
(***************************************************************************)
LEMMA InitInvariant == Init => InductiveInvariant
<1> SUFFICES ASSUME Init PROVE InductiveInvariant
  BY Zenon
<1> USE DEF Init, AdmissionInit
<1>1. TypeOK
  <2>1. ZeroResult \in Result /\ Blank \in Record
    BY Zenon DEF Result, ZeroResult, Errors, Record, Blank
  <2>2. results \in [Slots -> Result] /\ heap \in [Pointers -> Record]
    BY <2>1, Zenon
  <2>3. next \in [Requests -> 1..(MaxBatch + 1)] /\ remaining \in [Requests -> 0..MaxBatch]
    BY WorkloadAssumption
  <2> QED
    BY <2>2, <2>3, Zenon DEF TypeOK, CallPcs, Replies, Stages
<1>2. AdmissionExact
  <2>1. Holders = {}
    BY Zenon DEF Holders, Releasing, Slots
  <2> QED
    BY <2>1, WeightEmpty, Zenon DEF AdmissionExact
<1>3. AdmissionBounded
  BY LimitsAssumption DEF AdmissionBounded
<1>4. LoopInv
  BY <1>1, BatchType DEF LoopInv, Unadmitted, Slots
<1>5. RemainingInv /\ CloserInv /\ ReleaseInv
  BY Zenon DEF RemainingInv, CloserInv, ReleaseInv, Unadmitted, Closers, Releasing, Slots
<1>6. PoolInv /\ ResultInv
  BY Zenon DEF PoolInv, ResultInv, Live
<1> QED
  BY <1>1, <1>2, <1>3, <1>4, <1>5, <1>6, Zenon DEF InductiveInvariant

(***************************************************************************)
(* A slot that was submitted lies within its batch, and its call has been  *)
(* admitted.                                                               *)
(***************************************************************************)
LEMMA SentSlot ==
    ASSUME InductiveInvariant, NEW q \in Requests, NEW i \in 1..MaxBatch,
           stage[<<q, i>>] # "unsent"
    PROVE  /\ i \in IndexesOf(q)
           /\ i < next[q]
           /\ pc[q] \notin Unadmitted
<1>1. TypeOK /\ LoopInv
  BY Zenon DEF InductiveInvariant
<1>2. Count(q) \in Nat /\ Count(q) <= MaxBatch
  BY <1>1, BatchType, Zenon
<1>3. next[q] \in Int /\ MaxBatch \in Nat
  BY <1>1, WorkloadAssumption DEF TypeOK
<1> QED
  BY <1>1, <1>2, <1>3 DEF LoopInv, IndexesOf

(***************************************************************************)
(* The pending indexes of a call are finitely many; while one is pending,  *)
(* state.remaining is positive, and it is 1 when only that one is.         *)
(***************************************************************************)
LEMMA PendingCount ==
    ASSUME InductiveInvariant, NEW q \in Requests
    PROVE  /\ IsFiniteSet(Pending(q))
           /\ Cardinality(Pending(q)) \in Nat
           /\ \A i \in Pending(q) :
                 /\ Cardinality(Pending(q) \ {i}) = Cardinality(Pending(q)) - 1
                 /\ Cardinality(Pending(q)) >= 1
                 /\ Cardinality(Pending(q)) = 1 <=> Pending(q) = {i}
<1>1. Count(q) \in Nat
  BY BatchType, Zenon DEF InductiveInvariant
<1>2. IsFiniteSet(IndexesOf(q))
  BY <1>1, FS_Interval DEF IndexesOf
<1>3. IsFiniteSet(Pending(q))
  BY <1>2, FS_Subset, Zenon DEF Pending
<1>4. Cardinality(Pending(q)) \in Nat
  BY <1>3, FS_CardinalityType, Zenon
<1>5. ASSUME NEW i \in Pending(q)
      PROVE  /\ Cardinality(Pending(q) \ {i}) = Cardinality(Pending(q)) - 1
             /\ Cardinality(Pending(q)) >= 1
             /\ Cardinality(Pending(q)) = 1 <=> Pending(q) = {i}
  <2>1. /\ IsFiniteSet(Pending(q) \ {i})
        /\ Cardinality(Pending(q) \ {i}) = Cardinality(Pending(q)) - 1
    BY <1>3, <1>5, FS_RemoveElement, Zenon
  <2>2. Cardinality(Pending(q) \ {i}) \in Nat
    BY <2>1, FS_CardinalityType, Zenon
  <2>3. Cardinality(Pending(q) \ {i}) = 0 <=> Pending(q) \ {i} = {}
    BY <2>1, FS_EmptySet, Zenon
  <2>4. Pending(q) \ {i} = {} <=> Pending(q) = {i}
    BY <1>5, Zenon
  <2> QED
    BY <1>4, <2>1, <2>2, <2>3, <2>4
<1> QED
  BY <1>3, <1>4, <1>5, Zenon

(***************************************************************************)
(* Type correctness is kept by every step.                                 *)
(***************************************************************************)
LEMMA TypeStep ==
    ASSUME InductiveInvariant, [Next]_vars
    PROVE  TypeOK'
<1> USE DEF vars, admissionVars, callVars, stateVars, kgoVars, poolVars
<1>0. TypeOK
  BY Zenon DEF InductiveInvariant
<1> USE <1>0
<1>1. ASSUME NEW q \in Requests, CheckClosed(q) PROVE TypeOK'
  BY <1>1, Zenon DEF CheckClosed, TypeOK, CallPcs, Replies
<1>2. ASSUME NEW q \in Requests, TryAcquire(q) PROVE TypeOK'
  <2>1. Count(q) \in Nat /\ Count(q) <= MaxBatch /\ Bytes(batch[q]) \in Nat
    BY BatchType, Zenon
  <2>2. usedRecords' \in Nat /\ usedBytes' \in Nat
    BY <1>2, <2>1 DEF TryAcquire, Acquire, TypeOK
  <2>3. remaining' \in [Requests -> 0..MaxBatch]
    BY <1>2, <2>1, WorkloadAssumption DEF TryAcquire, TypeOK
  <2>4. pc' \in [Requests -> CallPcs \cup Replies]
    BY <1>2, Zenon DEF TryAcquire, TypeOK, CallPcs
  <2> QED
    BY <1>2, <2>2, <2>3, <2>4, Zenon DEF TryAcquire, TypeOK
<1>3. ASSUME NEW q \in Requests, Overloaded(q) PROVE TypeOK'
  BY <1>3, Zenon DEF Overloaded, TypeOK, CallPcs, Replies
<1>4. ASSUME NEW q \in Requests, NEW p \in Pointers, SubmitRecord(q, p) PROVE TypeOK'
  <2>1. Count(q) \in Nat /\ Count(q) <= MaxBatch /\ next[q] <= Count(q)
    BY <1>4, BatchType, Zenon DEF InductiveInvariant, LoopInv, SubmitRecord
  <2>2. <<q, next[q]>> \in Slots
    BY <2>1, WorkloadAssumption DEF Slots, TypeOK
  <2>3. stage' \in [Slots -> Stages] /\ outcome' \in [Slots -> Errors \cup {"pending"}]
    BY <1>4, Zenon DEF SubmitRecord, TypeOK, Stages, Errors
  <2>4. counted' \subseteq Slots /\ pool' \subseteq Pointers
    BY <1>4, <2>2, Zenon DEF SubmitRecord, TypeOK
  <2>5. heap' \in [Pointers -> Record] /\ ptr' \in [Slots -> Pointers \cup {Nil}]
    BY <1>4, <2>2, Zenon DEF SubmitRecord, TypeOK, Record
  <2>6. next' \in [Requests -> 1..(MaxBatch + 1)]
    BY <1>4, <2>1, WorkloadAssumption DEF SubmitRecord, TypeOK
  <2>7. pc' \in [Requests -> CallPcs \cup Replies]
    BY <1>4, Zenon DEF SubmitRecord, TypeOK, CallPcs
  <2> QED
    BY <1>4, <2>3, <2>4, <2>5, <2>6, <2>7, Zenon DEF SubmitRecord, TypeOK
<1>5. ASSUME NEW q \in Requests, ReturnResults(q) \/ SelectCtxDone(q) \/ CtxSwapReleased(q)
      PROVE TypeOK'
  BY <1>5, Zenon DEF ReturnResults, SelectCtxDone, CtxSwapReleased, TypeOK, CallPcs, Replies
<1>6. ASSUME NEW q \in Requests, CtxRelease(q) PROVE TypeOK'
  <2>1. Count(q) \in Nat /\ Bytes(batch[q]) \in Nat
    BY BatchType, Zenon
  <2> QED
    BY <1>6, <2>1 DEF CtxRelease, Release, ClampAtZero, TypeOK, CallPcs, Replies
<1>7. ASSUME NEW s \in Slots, Deliver(s) PROVE TypeOK'
  <2>1. ptr[s] \in Pointers
    BY <1>7, Zenon DEF Deliver, InductiveInvariant, PoolInv, Live
  <2>2. heap' \in [Pointers -> Record]
    BY <1>7, <2>1, Zenon DEF Deliver, TypeOK, Record
  <2> QED
    BY <1>7, <2>2, Zenon DEF Deliver, TypeOK, Stages, Errors
<1>8. ASSUME NEW s \in Slots, Fail(s) \/ Unbuffer(s) PROVE TypeOK'
  BY <1>8, Zenon DEF Fail, Unbuffer, TypeOK, Stages, Errors
<1>9. ASSUME NEW s \in Slots, WriteResult(s) PROVE TypeOK'
  <2>1. ptr[s] \in Pointers /\ outcome[s] \in Errors
    BY <1>9 DEF WriteResult, InductiveInvariant, PoolInv, ResultInv, Live, TypeOK
  <2>2. results' \in [Slots -> Result]
    BY <1>9, <2>1, Zenon DEF WriteResult, TypeOK, Record, Result
  <2> QED
    BY <1>9, <2>2, Zenon DEF WriteResult, TypeOK, Stages
<1>10. ASSUME NEW s \in Slots, Decrement(s) PROVE TypeOK'
  <2>1. PICK q \in Requests, i \in 1..MaxBatch : s = <<q, i>>
    BY DEF Slots
  <2>2. i \in IndexesOf(q) /\ pc[q] \notin Unadmitted
    BY <1>10, <2>1, SentSlot, Zenon DEF Decrement
  <2>3. i \in Pending(q)
    BY <1>10, <2>1, <2>2, Zenon DEF Decrement, Pending, Undecremented
  <2>4. remaining[q] >= 1
    BY <2>2, <2>3, PendingCount, Zenon DEF InductiveInvariant, RemainingInv
  <2>5. remaining' \in [Requests -> 0..MaxBatch]
    BY <1>10, <2>1, <2>4, WorkloadAssumption DEF Decrement, TypeOK
  <2> QED
    BY <1>10, <2>5, Zenon DEF Decrement, TypeOK, Stages
<1>11. ASSUME NEW s \in Slots, SwapReleased(s) \/ CloseDone(s) PROVE TypeOK'
  BY <1>11, SlotParts, Zenon DEF SwapReleased, CloseDone, TypeOK, Stages
<1>12. ASSUME NEW s \in Slots, PromiseRelease(s) PROVE TypeOK'
  <2>1. s[1] \in Requests /\ Count(s[1]) \in Nat /\ Bytes(batch[s[1]]) \in Nat
    BY SlotParts, BatchType, Zenon
  <2> QED
    BY <1>12, <2>1 DEF PromiseRelease, Release, ClampAtZero, TypeOK, Stages
<1>13. ASSUME NEW s \in Slots, ReleaseRecord(s) PROVE TypeOK'
  <2>1. ptr[s] \in Pointers
    BY <1>13, Zenon DEF ReleaseRecord, InductiveInvariant, PoolInv, Live
  <2>2. heap' \in [Pointers -> Record]
    BY <1>13, <2>1, Zenon DEF ReleaseRecord, TypeOK, Record, Blank
  <2> QED
    BY <1>13, <2>1, <2>2, Zenon DEF ReleaseRecord, TypeOK, Stages
<1>14. ASSUME NEW q \in Requests, EndContext(q) PROVE TypeOK'
  BY <1>14, Zenon DEF EndContext, TypeOK
<1>15. ASSUME SetCloseFlag \/ CloseClient PROVE TypeOK'
  BY <1>15, Zenon DEF SetCloseFlag, CloseClient, TypeOK
<1>16. CASE UNCHANGED vars
  BY <1>16, Zenon DEF TypeOK
<1> QED
  BY <1>1, <1>2, <1>3, <1>4, <1>5, <1>6, <1>7, <1>8, <1>9, <1>10, <1>11, <1>12,
     <1>13, <1>14, <1>15, <1>16, Zenon DEF Next, Call, Promise

(***************************************************************************)
(* No step changes what a caller passed.                                   *)
(***************************************************************************)
LEMMA BatchConstant ==
    ASSUME TypeOK, [Next]_vars
    PROVE  /\ batch' = batch
           /\ \A q \in Requests : /\ Count(q)' = Count(q)
                                  /\ IndexesOf(q)' = IndexesOf(q)
                                  /\ batch[q] = <<>> <=> Count(q) = 0
<1>1. batch' = batch
  BY ZenonT(60) DEF Next, Call, Promise, CheckClosed, TryAcquire, Overloaded, SubmitRecord,
     ReturnResults, SelectCtxDone, CtxSwapReleased, CtxRelease, Deliver, Fail,
     Unbuffer, WriteResult, Decrement, SwapReleased, PromiseRelease, CloseDone,
     ReleaseRecord, EndContext, SetCloseFlag, CloseClient, vars, callVars
<1>2. ASSUME NEW q \in Requests PROVE batch[q] = <<>> <=> Count(q) = 0
  BY BatchType DEF Count
<1> QED
  BY <1>1, <1>2, Zenon DEF Count, IndexesOf

(***************************************************************************)
(* The loop of Produce keeps submitting a prefix of the batch.             *)
(***************************************************************************)
LEMMA LoopStep ==
    ASSUME InductiveInvariant, [Next]_vars
    PROVE  LoopInv'
<1> USE DEF vars, admissionVars, callVars, stateVars, kgoVars, poolVars
<1>0. TypeOK /\ LoopInv
  BY Zenon DEF InductiveInvariant
<1>a. \A q \in Requests : /\ Count(q) \in Nat /\ Count(q) <= MaxBatch
                          /\ next[q] \in Int /\ Count(q)' = Count(q)
                          /\ batch[q] = <<>> <=> Count(q) = 0
  <2>1. \A q \in Requests : Count(q) \in Nat /\ Count(q) <= MaxBatch
    BY <1>0, BatchType, Zenon
  <2>2. \A q \in Requests : next[q] \in Int
    BY <1>0, WorkloadAssumption, SMTT(30), ZenonT(60) DEF TypeOK
  <2> QED
    BY <1>0, <2>1, <2>2, BatchConstant, Zenon
<1> USE <1>0, <1>a
<1>b. ASSUME NEW q \in Requests, NEW v,
             pc' = [pc EXCEPT ![q] = v], next' = next, stage' = stage,
             \A r \in Requests \ {q} : released'[r] = released[r],
             v \in Unadmitted => next[q] = 1 /\ ~released'[q],
             v = "admit" => Count(q) > 0,
             v = "submit" => next[q] <= Count(q),
             v \notin Unadmitted \cup {"submit"} => next[q] = Count(q) + 1
      PROVE  LoopInv'
  <2>1. pc'[q] = v /\ \A r \in Requests \ {q} : pc'[r] = pc[r]
    BY <1>b, Zenon DEF TypeOK
  <2> QED
    BY <1>b, <2>1 DEF LoopInv
<1>1. ASSUME NEW q \in Requests, CheckClosed(q) PROVE LoopInv'
  <2> DEFINE v == IF closeFlag THEN "closed" ELSE IF batch[q] = <<>> THEN "ok" ELSE "admit"
  <2>1. /\ pc' = [pc EXCEPT ![q] = v] /\ pc[q] = "start"
        /\ next' = next /\ stage' = stage /\ released' = released
    BY <1>1, Zenon DEF CheckClosed
  <2>2. next[q] = 1 /\ ~released[q]
    BY <2>1, Zenon DEF LoopInv, Unadmitted
  <2>3. /\ v = "admit" => Count(q) > 0
        /\ v # "submit"
        /\ v \notin Unadmitted => next[q] = Count(q) + 1
    BY <2>2 DEF Unadmitted
  <2> HIDE DEF v
  <2> QED
    BY <1>b, <2>1, <2>2, <2>3, Zenon
<1>2. ASSUME NEW q \in Requests, TryAcquire(q) PROVE LoopInv'
  <2>1. /\ pc' = [pc EXCEPT ![q] = "submit"] /\ pc[q] = "admit"
        /\ next' = next /\ stage' = stage /\ released' = released
    BY <1>2, Zenon DEF TryAcquire
  <2>2. next[q] = 1 /\ Count(q) > 0
    BY <2>1, Zenon DEF LoopInv, Unadmitted
  <2>3. next[q] <= Count(q)
    BY <2>2, BatchType
  <2> DEFINE v == "submit"
  <2>4. v = "submit" /\ v \notin Unadmitted /\ v # "admit"
    BY Zenon DEF Unadmitted
  <2>5. pc' = [pc EXCEPT ![q] = v]
    BY <2>1, Zenon
  <2> HIDE DEF v
  <2> QED
    BY <1>b, <2>1, <2>3, <2>4, <2>5, Zenon
<1>3. ASSUME NEW q \in Requests, Overloaded(q) PROVE LoopInv'
  <2>1. /\ pc' = [pc EXCEPT ![q] = "overloaded"] /\ pc[q] = "admit"
        /\ next' = next /\ stage' = stage /\ released' = released
    BY <1>3, Zenon DEF Overloaded
  <2>2. next[q] = 1 /\ ~released[q]
    BY <2>1, Zenon DEF LoopInv, Unadmitted
  <2> QED
    BY <1>b, <2>1, <2>2, ZenonT(30) DEF Unadmitted
<1>4. ASSUME NEW q \in Requests, NEW p \in Pointers, SubmitRecord(q, p) PROVE LoopInv'
  <2>1. /\ pc[q] = "submit"
        /\ next' = [next EXCEPT ![q] = @ + 1]
        /\ pc' = [pc EXCEPT ![q] = IF next[q] = Count(q) THEN "select" ELSE "submit"]
        /\ released' = released
        /\ stage' = [stage EXCEPT ![<<q, next[q]>>] = "called"]
           \/ stage' = [stage EXCEPT ![<<q, next[q]>>] = "queued"]
    BY <1>4, Zenon DEF SubmitRecord
  <2>2. ASSUME NEW r \in Requests, NEW i \in 1..MaxBatch
        PROVE  stage'[<<r, i>>] = "unsent" <=> next'[r] <= i
    <3>1. <<r, i>> \in Slots
      BY Zenon DEF Slots
    <3>2. CASE <<r, i>> = <<q, next[q]>>
      BY SMTT(40), <2>1, <3>1, <3>2 DEF TypeOK
    <3>3. CASE <<r, i>> # <<q, next[q]>>
      <4>1. stage'[<<r, i>>] = stage[<<r, i>>]
        BY <2>1, <3>1, <3>3, Zenon DEF TypeOK
      <4>2. r = q => i # next[q]
        BY <3>3, Zenon
      <4>3. stage[<<r, i>>] = "unsent" <=> next[r] <= i
        BY Zenon DEF LoopInv
      <4>4. next[r] \in Int /\ next'[r] = IF r = q THEN next[r] + 1 ELSE next[r]
        BY <2>1, Zenon DEF TypeOK
      <4> QED
        BY <4>1, <4>2, <4>3, <4>4
    <3> QED
      BY <3>2, <3>3, Zenon
  <2>3. ASSUME NEW r \in Requests \ {q}
        PROVE  pc'[r] = pc[r] /\ next'[r] = next[r] /\ released'[r] = released[r]
    BY <2>1, Zenon DEF TypeOK
  <2>4. /\ next'[q] = next[q] + 1 /\ next[q] <= Count(q)
        /\ next[q] \in Int /\ Count(q) \in Int
    BY SMTT(40), <2>1, BatchType DEF TypeOK, LoopInv
  <2>5. \/ pc'[q] = "select" /\ next[q] = Count(q)
        \/ pc'[q] = "submit" /\ next[q] # Count(q)
    BY <2>1, Zenon DEF TypeOK
  <2>6. /\ pc'[q] \notin Unadmitted /\ pc'[q] # "admit"
        /\ next'[q] <= Count(q) + 1
        /\ pc'[q] = "submit" => next'[q] <= Count(q)
        /\ pc'[q] # "submit" => next'[q] = Count(q) + 1
    BY <2>4, <2>5 DEF Unadmitted
  <2> QED
    BY <2>2, <2>3, <2>6 DEF LoopInv
<1>5. ASSUME NEW q \in Requests, ReturnResults(q) \/ SelectCtxDone(q) PROVE LoopInv'
  <2>1. PICK v \in {"ok", "expired"} : pc' = [pc EXCEPT ![q] = v]
    BY <1>5, Zenon DEF ReturnResults, SelectCtxDone
  <2>2. pc[q] = "select" /\ next' = next /\ stage' = stage /\ released' = released
    BY <1>5, Zenon DEF ReturnResults, SelectCtxDone
  <2>3. next[q] = Count(q) + 1
    BY <2>2, Zenon DEF LoopInv, Unadmitted
  <2> QED
    BY <1>b, <2>1, <2>2, <2>3, Zenon DEF Unadmitted
<1>6. ASSUME NEW q \in Requests, CtxSwapReleased(q) \/ CtxRelease(q) PROVE LoopInv'
  <2>1. PICK v \in {"ctxErr", "releasing"} : pc' = [pc EXCEPT ![q] = v]
    BY <1>6, Zenon DEF CtxSwapReleased, CtxRelease
  <2>2. /\ pc[q] \in {"expired", "releasing"} /\ next' = next /\ stage' = stage
        /\ \A r \in Requests \ {q} : released'[r] = released[r]
    BY <1>6, Zenon DEF CtxSwapReleased, CtxRelease, TypeOK
  <2>3. next[q] = Count(q) + 1
    BY <2>2, Zenon DEF LoopInv, Unadmitted
  <2> QED
    BY <1>b, <2>1, <2>2, <2>3, Zenon DEF Unadmitted
<1>7. ASSUME NEW s \in Slots, NEW v \in Stages \ {"unsent"},
             stage[s] # "unsent", stage' = [stage EXCEPT ![s] = v],
             pc' = pc, next' = next,
             \A q \in Requests : pc[q] \in Unadmitted => released'[q] = released[q]
      PROVE  LoopInv'
  <2>1. ASSUME NEW r \in Requests, NEW i \in 1..MaxBatch
        PROVE  stage'[<<r, i>>] = "unsent" <=> stage[<<r, i>>] = "unsent"
    BY <1>7, Zenon DEF TypeOK, Slots
  <2> QED
    BY <1>7, <2>1, Zenon DEF LoopInv
<1>8. ASSUME NEW s \in Slots, Promise(s) \/ Deliver(s) \/ Fail(s) \/ Unbuffer(s)
      PROVE  LoopInv'
  <2>1. \A q \in Requests : pc[q] \in Unadmitted => released'[q] = released[q]
    <3>1. ASSUME SwapReleased(s) PROVE pc[s[1]] \notin Unadmitted
      BY <3>1, SlotParts, SentSlot, Zenon DEF SwapReleased
    <3> QED
      BY <1>8, <3>1, Zenon DEF Promise, Deliver, Fail, Unbuffer, WriteResult, Decrement,
         SwapReleased, PromiseRelease, CloseDone, ReleaseRecord, TypeOK
  <2>2. PICK v \in Stages \ {"unsent"} :
            stage[s] # "unsent" /\ stage' = [stage EXCEPT ![s] = v]
    BY <1>8, Zenon DEF Promise, Deliver, Fail, Unbuffer, WriteResult, Decrement,
       SwapReleased, PromiseRelease, CloseDone, ReleaseRecord, Stages
  <2>3. pc' = pc /\ next' = next
    BY <1>8, Zenon DEF Promise, Deliver, Fail, Unbuffer, WriteResult, Decrement,
       SwapReleased, PromiseRelease, CloseDone, ReleaseRecord
  <2> QED
    BY <1>7, <2>1, <2>2, <2>3, Zenon
<1>9. ASSUME (\E q \in Requests : EndContext(q)) \/ SetCloseFlag \/ CloseClient
             \/ UNCHANGED vars
      PROVE  LoopInv'
  BY <1>9, ZenonT(30) DEF EndContext, SetCloseFlag, CloseClient, LoopInv
<1> QED
  BY <1>1, <1>2, <1>3, <1>4, <1>5, <1>6, <1>8, <1>9, Zenon DEF Next, Call

(***************************************************************************)
(* The record that the loop submits next has not been submitted before.    *)
(***************************************************************************)
LEMMA NextUnsent ==
    ASSUME InductiveInvariant, NEW q \in Requests, pc[q] = "submit"
    PROVE  next[q] \in 1..MaxBatch /\ stage[<<q, next[q]>>] = "unsent"
<1>1. next[q] <= Count(q) /\ \A i \in 1..MaxBatch : stage[<<q, i>>] = "unsent" <=> next[q] <= i
  BY Zenon DEF InductiveInvariant, LoopInv
<1>2. Count(q) \in Nat /\ Count(q) <= MaxBatch
  BY BatchType, Zenon DEF InductiveInvariant
<1>3. next[q] \in 1..(MaxBatch + 1)
  BY Zenon DEF InductiveInvariant, TypeOK
<1>4. next[q] \in 1..MaxBatch /\ next[q] <= next[q]
  BY <1>1, <1>2, <1>3, WorkloadAssumption
<1> QED
  BY <1>1, <1>4, Zenon

(***************************************************************************)
(* What the steps of kgo and of the promises have in common: they move one *)
(* submitted slot to another stage and leave the call's goroutine alone.   *)
(***************************************************************************)
LEMMA SlotStep ==
    ASSUME InductiveInvariant, NEW q \in Requests, NEW i \in 1..MaxBatch,
           \/ Promise(<<q, i>>) \/ Deliver(<<q, i>>)
           \/ Fail(<<q, i>>) \/ Unbuffer(<<q, i>>)
    PROVE  /\ pc' = pc /\ next' = next /\ batch' = batch
           /\ stage[<<q, i>>] # "unsent"
           /\ \E v \in Stages \ {"unsent"} : stage' = [stage EXCEPT ![<<q, i>>] = v]
           /\ \A r \in Requests, j \in 1..MaxBatch :
                 <<r, j>> # <<q, i>> => stage'[<<r, j>>] = stage[<<r, j>>]
<1> USE DEF Promise, Deliver, Fail, Unbuffer, WriteResult, Decrement,
       SwapReleased, PromiseRelease, CloseDone, ReleaseRecord, callVars
<1>1. pc' = pc /\ next' = next /\ batch' = batch /\ stage[<<q, i>>] # "unsent"
  BY Zenon
<1>2. \E v \in Stages \ {"unsent"} : stage' = [stage EXCEPT ![<<q, i>>] = v]
  BY Zenon DEF Stages
<1>3. ASSUME NEW r \in Requests, NEW j \in 1..MaxBatch, <<r, j>> # <<q, i>>
      PROVE  stage'[<<r, j>>] = stage[<<r, j>>]
  BY <1>2, <1>3, Zenon DEF InductiveInvariant, TypeOK, Slots
<1> QED
  BY <1>1, <1>2, <1>3, ZenonT(30)

-----------------------------------------------------------------------------
\* The promises of a call: the count of those to come, who closes done, and who
\* may release.

(***************************************************************************)
(* A call's pending indexes change only when one of its promises           *)
(* decrements the counter, and then only by that index.                    *)
(***************************************************************************)
LEMMA PendingStep ==
    ASSUME InductiveInvariant, [Next]_vars, NEW q \in Requests
    PROVE  \/ Pending(q)' = Pending(q)
           \/ \E i \in Pending(q) : /\ Decrement(<<q, i>>)
                                    /\ Pending(q)' = Pending(q) \ {i}
<1> USE DEF vars, admissionVars, callVars, stateVars, kgoVars, poolVars
<1>0. /\ TypeOK
      /\ IndexesOf(q)' = IndexesOf(q)
      /\ IndexesOf(q) \subseteq 1..MaxBatch
  <2>1. TypeOK
    BY Zenon DEF InductiveInvariant
  <2>2. IndexesOf(q)' = IndexesOf(q)
    BY <2>1, BatchConstant, Zenon
  <2>3. IndexesOf(q) \subseteq 1..MaxBatch
    BY <2>1, BatchType, WorkloadAssumption DEF IndexesOf
  <2> QED
    BY <2>1, <2>2, <2>3, Zenon
<1>1. CASE stage' = stage
  <2>1. \A j \in IndexesOf(q) :
            stage'[<<q, j>>] \in Undecremented <=> stage[<<q, j>>] \in Undecremented
    BY <1>1, Zenon
  <2> QED
    BY <1>0, <2>1, Zenon DEF Pending
<1>2. ASSUME NEW r \in Requests, NEW p \in Pointers, SubmitRecord(r, p)
      PROVE  Pending(q)' = Pending(q)
  <2>1. stage[<<r, next[r]>>] = "unsent"
    BY <1>2, NextUnsent, Zenon DEF SubmitRecord
  <2>2. ASSUME NEW j \in IndexesOf(q)
        PROVE  stage'[<<q, j>>] \in Undecremented <=> stage[<<q, j>>] \in Undecremented
    <3>1. <<q, j>> \in Slots
      BY <1>0, Zenon DEF Slots
    <3> QED
      BY <1>0, <1>2, <2>1, <3>1, Zenon DEF SubmitRecord, TypeOK, Undecremented
  <2> QED
    BY <1>0, <2>2, Zenon DEF Pending
<1>3. ASSUME NEW r \in Requests, NEW i \in 1..MaxBatch,
             \/ Promise(<<r, i>>) \/ Deliver(<<r, i>>)
             \/ Fail(<<r, i>>) \/ Unbuffer(<<r, i>>),
             ~Decrement(<<r, i>>)
      PROVE  Pending(q)' = Pending(q)
  <2>1. <<r, i>> \in Slots
    BY Zenon DEF Slots
  <2>2. stage'[<<r, i>>] \in Undecremented <=> stage[<<r, i>>] \in Undecremented
    BY <1>0, <1>3, <2>1, SMTT(30), ZenonT(60) DEF Promise, Deliver, Fail, Unbuffer, WriteResult,
       SwapReleased, PromiseRelease, CloseDone, ReleaseRecord, Undecremented, TypeOK
  <2>3. \A j \in IndexesOf(q) : <<q, j>> # <<r, i>> => stage'[<<q, j>>] = stage[<<q, j>>]
    <3>1. \A u \in Requests, j \in 1..MaxBatch :
             <<u, j>> # <<r, i>> => stage'[<<u, j>>] = stage[<<u, j>>]
      BY <1>3, SlotStep
    <3> QED
      BY <1>0, <3>1, Zenon
  <2> QED
    BY <1>0, <2>2, <2>3, Zenon DEF Pending
<1>4. ASSUME NEW r \in Requests, NEW i \in 1..MaxBatch, Decrement(<<r, i>>)
      PROVE  \/ Pending(q)' = Pending(q)
             \/ /\ r = q /\ i \in Pending(q)
                /\ Pending(q)' = Pending(q) \ {i}
  <2>1. \A j \in IndexesOf(q) : <<q, j>> # <<r, i>> => stage'[<<q, j>>] = stage[<<q, j>>]
    <3>1. \A u \in Requests, j \in 1..MaxBatch :
             <<u, j>> # <<r, i>> => stage'[<<u, j>>] = stage[<<u, j>>]
      BY <1>4, SlotStep DEF Promise
    <3> QED
      BY <1>0, <3>1, Zenon
  <2>2. CASE r # q
    BY <1>0, <2>1, <2>2, Zenon DEF Pending
  <2>3. CASE r = q
    <3>1. <<q, i>> \in Slots /\ i \in IndexesOf(q)
      BY <1>4, <2>3, SentSlot, Zenon DEF Slots, Decrement
    <3>2. /\ stage[<<q, i>>] \in Undecremented
          /\ stage'[<<q, i>>] \notin Undecremented
      BY <1>0, <1>4, <2>3, <3>1, Zenon DEF Decrement, Undecremented, TypeOK
    <3> QED
      BY <1>0, <2>1, <2>3, <3>1, <3>2 DEF Pending
  <2> QED
    BY <2>2, <2>3, Zenon
<1>5. ASSUME NEW s \in Slots, Promise(s) \/ Deliver(s) \/ Fail(s) \/ Unbuffer(s)
      PROVE  \/ Pending(q)' = Pending(q)
             \/ \E i \in Pending(q) : /\ Decrement(<<q, i>>)
                                      /\ Pending(q)' = Pending(q) \ {i}
  <2>1. PICK r \in Requests, i \in 1..MaxBatch : s = <<r, i>>
    BY DEF Slots
  <2> QED
    BY <1>3, <1>4, <1>5, <2>1, Zenon
<1> QED
  BY <1>1, <1>2, <1>5, Zenon DEF Next, Call, CheckClosed, TryAcquire, Overloaded,
     ReturnResults, SelectCtxDone, CtxSwapReleased, CtxRelease,
     EndContext, SetCloseFlag, CloseClient

(***************************************************************************)
(* While state.remaining stays, so do the pending indexes.                 *)
(***************************************************************************)
LEMMA PendingSame ==
    ASSUME InductiveInvariant, [Next]_vars, NEW q \in Requests,
           remaining'[q] = remaining[q]
    PROVE  Pending(q)' = Pending(q)
<1>1. ASSUME NEW i \in Pending(q), Decrement(<<q, i>>) PROVE FALSE
  BY <1>1, WorkloadAssumption DEF Decrement, InductiveInvariant, TypeOK
<1> QED
  BY <1>1, PendingStep, Zenon

(***************************************************************************)
(* state.remaining keeps counting the promises still to come.              *)
(***************************************************************************)
LEMMA RemainingStep ==
    ASSUME InductiveInvariant, [Next]_vars
    PROVE  RemainingInv'
<1> USE DEF vars, admissionVars, callVars, stateVars, kgoVars, poolVars
<1>0. TypeOK /\ LoopInv /\ RemainingInv
  BY Zenon DEF InductiveInvariant
<1>1. ASSUME pc' = pc, remaining' = remaining, \A q \in Requests : Pending(q)' = Pending(q)
      PROVE  RemainingInv'
  BY <1>0, <1>1, Zenon DEF RemainingInv
<1>2. ASSUME stage' = stage PROVE \A q \in Requests : Pending(q)' = Pending(q)
  BY <1>0, <1>2, BatchConstant, Zenon DEF Pending
<1>3. ASSUME NEW q \in Requests, CheckClosed(q) PROVE RemainingInv'
  <2>1. batch[q] = <<>> => Pending(q) = {}
    BY <1>0, BatchConstant DEF Pending, IndexesOf
  <2>2. Cardinality({}) = 0
    BY FS_EmptySet, Zenon
  <2>3. \A r \in Requests : Pending(r)' = Pending(r)
    BY <1>2, <1>3, Zenon DEF CheckClosed
  <2>4. /\ pc[q] = "start" /\ remaining' = remaining
        /\ pc'[q] \in Unadmitted \/ batch[q] = <<>>
        /\ \A r \in Requests \ {q} : pc'[r] = pc[r]
    BY <1>0, <1>3, Zenon DEF CheckClosed, Unadmitted, TypeOK
  <2>5. remaining[q] = 0
    BY <1>0, <2>4, Zenon DEF RemainingInv, Unadmitted
  <2>6. pc'[q] \notin Unadmitted => remaining[q] = Cardinality(Pending(q))
    BY <2>1, <2>2, <2>4, <2>5, Zenon
  <2> QED
    BY <1>0, <2>3, <2>4, <2>5, <2>6, Zenon DEF RemainingInv
<1>4. ASSUME NEW q \in Requests, TryAcquire(q) PROVE RemainingInv'
  <2>1. pc[q] = "admit" /\ next[q] = 1
    BY <1>0, <1>4, Zenon DEF TryAcquire, LoopInv, Unadmitted
  <2>2. Count(q) \in Nat /\ Count(q) <= MaxBatch
    BY <1>0, BatchType, Zenon
  <2>3. \A i \in IndexesOf(q) : stage[<<q, i>>] = "unsent"
    BY <1>0, <2>1, <2>2, WorkloadAssumption DEF LoopInv, IndexesOf
  <2>4. Pending(q) = 1..Count(q)
    BY <2>3, Zenon DEF Pending, Undecremented, IndexesOf
  <2>5. Cardinality(Pending(q)) = Count(q)
    BY <2>2, <2>4, FS_Interval
  <2>6. \A r \in Requests : Pending(r)' = Pending(r)
    BY <1>2, <1>4, Zenon DEF TryAcquire
  <2> QED
    BY <1>0, <1>4, <2>5, <2>6, Zenon DEF TryAcquire, RemainingInv, Unadmitted, TypeOK
<1>5. ASSUME NEW q \in Requests, Overloaded(q) \/ ReturnResults(q) \/ SelectCtxDone(q)
                                 \/ CtxSwapReleased(q) \/ CtxRelease(q)
      PROVE  RemainingInv'
  <2>1. \A r \in Requests : Pending(r)' = Pending(r)
    BY <1>2, <1>5, ZenonT(30) DEF Overloaded, ReturnResults, SelectCtxDone, CtxSwapReleased, CtxRelease
  <2> QED
    BY <1>0, <1>5, <2>1 DEF Overloaded, ReturnResults, SelectCtxDone, CtxSwapReleased,
       CtxRelease, RemainingInv, Unadmitted, TypeOK
<1>6. ASSUME NEW q \in Requests, NEW p \in Pointers, SubmitRecord(q, p)
      PROVE  RemainingInv'
  <2>1. \A r \in Requests : Pending(r)' = Pending(r)
    <3>1. remaining' = remaining
      BY <1>6, Zenon DEF SubmitRecord
    <3> QED
      BY <3>1, PendingSame, Zenon
  <2> QED
    BY <1>0, <1>6, <2>1, Zenon DEF SubmitRecord, RemainingInv, Unadmitted, TypeOK
<1>7. ASSUME NEW s \in Slots, \/ Deliver(s) \/ Fail(s) \/ Unbuffer(s) \/ WriteResult(s)
                              \/ SwapReleased(s) \/ PromiseRelease(s) \/ CloseDone(s)
                              \/ ReleaseRecord(s)
      PROVE  RemainingInv'
  <2>1. pc' = pc /\ remaining' = remaining
    BY <1>7, Zenon DEF Deliver, Fail, Unbuffer, WriteResult, SwapReleased,
       PromiseRelease, CloseDone, ReleaseRecord
  <2>2. \A q \in Requests : Pending(q)' = Pending(q)
    BY <2>1, PendingSame, Zenon
  <2> QED
    BY <1>1, <2>1, <2>2, Zenon
<1>8. ASSUME NEW q \in Requests, NEW i \in 1..MaxBatch, Decrement(<<q, i>>)
      PROVE  RemainingInv'
  <2>1. i \in IndexesOf(q) /\ pc[q] \notin Unadmitted
    BY <1>8, SentSlot, Zenon DEF Decrement
  <2>2. i \in Pending(q)
    BY <1>8, <2>1, Zenon DEF Decrement, Pending, Undecremented
  <2>3. remaining[q] = Cardinality(Pending(q))
    BY <1>0, <2>1, Zenon DEF RemainingInv
  <2>4. pc' = pc /\ remaining' = [remaining EXCEPT ![q] = @ - 1]
    BY <1>8, Zenon DEF Decrement
  <2>5. \A r \in Requests \ {q} : Pending(r)' = Pending(r)
    <3>1. \A r \in Requests \ {q} : remaining'[r] = remaining[r]
      BY <1>0, <2>4, Zenon DEF TypeOK
    <3> QED
      BY <3>1, PendingSame, Zenon
  <2>6. Pending(q)' = Pending(q) \ {i}
    <3>1. i \notin Pending(q)'
      <4>1. stage'[<<q, i>>] \in {"last", "recycle"}
        BY <1>0, <1>8, Zenon DEF Decrement, TypeOK, Slots
      <4> QED
        BY <4>1, Zenon DEF Pending, Undecremented
    <3>2. ASSUME NEW j \in Pending(q), Decrement(<<q, j>>), j # i PROVE FALSE
      <4>1. <<q, i>> \in Slots /\ <<q, j>> \in Slots
        <5>1. j \in 1..Count(q)
          BY <3>2, Zenon DEF Pending, IndexesOf
        <5>2. j \in 1..MaxBatch
          BY <1>0, <5>1, BatchType, WorkloadAssumption
        <5> QED
          BY <5>2, Zenon DEF Slots
      <4>2. stage[<<q, i>>] = "written" /\ stage'[<<q, i>>] = stage[<<q, i>>]
        <5>1. stage[<<q, i>>] = "written"
          BY <1>8, Zenon DEF Decrement
        <5>2. PICK v : stage' = [stage EXCEPT ![<<q, j>>] = v]
          BY <3>2, ZenonT(30) DEF Decrement
        <5>3. <<q, i>> # <<q, j>>
          BY <3>2, Zenon
        <5>4. stage'[<<q, i>>] = stage[<<q, i>>]
          BY <1>0, <4>1, <5>2, <5>3, Zenon DEF TypeOK
        <5> QED
          BY <5>1, <5>4, Zenon
      <4>3. stage'[<<q, i>>] # "written"
        BY <1>0, <1>8, <4>1, Zenon DEF Decrement, TypeOK
      <4> QED
        BY <4>2, <4>3, Zenon
    <3> QED
      BY <2>2, <3>1, <3>2, PendingStep, ZenonT(30)
  <2>7. Cardinality(Pending(q) \ {i}) = Cardinality(Pending(q)) - 1
    BY <2>2, PendingCount, Zenon
  <2> QED
    BY <1>0, <2>1, <2>3, <2>4, <2>5, <2>6, <2>7, Zenon DEF RemainingInv, TypeOK
<1>9. ASSUME (\E q \in Requests : EndContext(q)) \/ SetCloseFlag \/ CloseClient
             \/ UNCHANGED vars
      PROVE  RemainingInv'
  BY <1>1, <1>2, <1>9, Zenon DEF EndContext, SetCloseFlag, CloseClient
<1>10. ASSUME NEW s \in Slots, Decrement(s) PROVE RemainingInv'
  BY <1>8, <1>10 DEF Slots
<1> QED
  BY <1>3, <1>4, <1>5, <1>6, <1>7, <1>9, <1>10, Zenon DEF Next, Call, Promise

(***************************************************************************)
(* state.released is never reset, and no index becomes pending again.      *)
(***************************************************************************)
LEMMA Monotone ==
    ASSUME InductiveInvariant, [Next]_vars, NEW q \in Requests
    PROVE  /\ released[q] => released'[q]
           /\ Pending(q) = {} => Pending(q)' = {}
<1>1. released' = released \/ \E r \in Requests : released' = [released EXCEPT ![r] = TRUE]
  <2>1. ASSUME NEW r \in Requests, Call(r)
        PROVE  released' = released \/ released' = [released EXCEPT ![r] = TRUE]
    BY <2>1, Zenon DEF Call, CheckClosed, TryAcquire, Overloaded, SubmitRecord, ReturnResults,
       SelectCtxDone, CtxSwapReleased, CtxRelease, stateVars
  <2>2. ASSUME NEW s \in Slots, Promise(s) \/ Deliver(s) \/ Fail(s) \/ Unbuffer(s)
        PROVE  \/ released' = released
               \/ \E r \in Requests : released' = [released EXCEPT ![r] = TRUE]
    BY <2>2, Zenon DEF Slots, Promise, WriteResult, Decrement, SwapReleased, PromiseRelease,
       CloseDone, ReleaseRecord, Deliver, Fail, Unbuffer, stateVars
  <2>3. ASSUME \/ \E r \in Requests : EndContext(r)
               \/ SetCloseFlag \/ CloseClient \/ UNCHANGED vars
        PROVE  released' = released
    BY <2>3, Zenon DEF EndContext, SetCloseFlag, CloseClient, vars, stateVars
  <2> QED
    BY <2>1, <2>2, <2>3, Zenon DEF Next
<1>2. released[q] => released'[q]
  BY <1>1, Zenon DEF InductiveInvariant, TypeOK
<1> QED
  BY <1>2, PendingStep, ZenonT(30)

(***************************************************************************)
(* Only the promise that finds remaining at zero gets to close done.       *)
(***************************************************************************)
LEMMA CloserStep ==
    ASSUME InductiveInvariant, [Next]_vars
    PROVE  CloserInv'
<1> USE DEF vars, admissionVars, callVars, stateVars, kgoVars, poolVars
<1>0. TypeOK /\ CloserInv
  BY Zenon DEF InductiveInvariant
<1>a. \A q \in Requests : /\ released[q] => released'[q]
                          /\ Pending(q) = {} => Pending(q)' = {}
  BY Monotone, Zenon
<1>1. ASSUME done' = done,
             \A q \in Requests, i \in 1..MaxBatch :
                stage'[<<q, i>>] \in Closers => stage[<<q, i>>] \in Closers
      PROVE  CloserInv'
  BY <1>0, <1>a, <1>1, Zenon DEF CloserInv
<1>2. ASSUME NEW q \in Requests, Call(q) \/ EndContext(q) PROVE CloserInv'
  <2>1. done' = done
    BY <1>2, ZenonT(30) DEF Call, CheckClosed, TryAcquire, Overloaded, SubmitRecord, ReturnResults,
       SelectCtxDone, CtxSwapReleased, CtxRelease, EndContext
  <2>2. \/ stage' = stage
        \/ stage' = [stage EXCEPT ![<<q, next[q]>>] = "called"]
        \/ stage' = [stage EXCEPT ![<<q, next[q]>>] = "queued"]
    BY <1>2, Zenon DEF Call, CheckClosed, TryAcquire, Overloaded, SubmitRecord, ReturnResults,
       SelectCtxDone, CtxSwapReleased, CtxRelease, EndContext
  <2>3. ASSUME NEW r \in Requests, NEW i \in 1..MaxBatch, stage'[<<r, i>>] \in Closers
        PROVE  stage[<<r, i>>] \in Closers
    BY <1>0, <2>2, <2>3, ZenonT(30) DEF TypeOK, Slots, Closers
  <2> QED
    BY <1>1, <2>1, <2>3, Zenon
<1>3. ASSUME NEW s \in Slots, \/ Deliver(s) \/ Fail(s) \/ Unbuffer(s) \/ WriteResult(s)
                              \/ SwapReleased(s) \/ PromiseRelease(s) \/ ReleaseRecord(s)
      PROVE  CloserInv'
  <2>1. done' = done
    BY <1>3, Zenon DEF Deliver, Fail, Unbuffer, WriteResult, SwapReleased,
       PromiseRelease, ReleaseRecord
  <2>2. ASSUME NEW r \in Requests, NEW i \in 1..MaxBatch, stage'[<<r, i>>] \in Closers
        PROVE  stage[<<r, i>>] \in Closers
    BY <1>0, <1>3, <2>2, ZenonT(60) DEF TypeOK, Slots, Closers, Deliver, Fail, Unbuffer,
       WriteResult, SwapReleased, PromiseRelease, ReleaseRecord
  <2> QED
    BY <1>1, <2>1, <2>2, Zenon
<1>4. ASSUME NEW q \in Requests, NEW i \in 1..MaxBatch, Decrement(<<q, i>>)
      PROVE  CloserInv'
  <2>1. i \in IndexesOf(q) /\ pc[q] \notin Unadmitted
    BY <1>4, SentSlot, Zenon DEF Decrement
  <2>2. i \in Pending(q)
    BY <1>4, <2>1, Zenon DEF Decrement, Pending, Undecremented
  <2>3. ~done[q] /\ \A j \in 1..MaxBatch : stage[<<q, j>>] \notin Closers
    BY <1>0, <2>2, Zenon DEF CloserInv
  <2>4. done' = done /\ <<q, i>> \in Slots
    BY <1>4, Zenon DEF Decrement, Slots
  <2>5. \A r \in Requests, j \in 1..MaxBatch :
            <<r, j>> # <<q, i>> => stage'[<<r, j>>] = stage[<<r, j>>]
    BY <1>4, SlotStep, Zenon DEF Promise
  <2>6. stage'[<<q, i>>] \in Closers => Pending(q)' = {}
    <3>1. stage'[<<q, i>>] = IF remaining[q] = 1 THEN "last" ELSE "recycle"
      BY <1>0, <1>4, <2>4, Zenon DEF Decrement, TypeOK
    <3>2. remaining[q] = Cardinality(Pending(q))
      BY <2>1, Zenon DEF InductiveInvariant, RemainingInv
    <3>3. remaining[q] = 1 => Pending(q) = {i}
      BY <2>2, <3>2, PendingCount, Zenon
    <3>4. i \notin Pending(q)'
      BY <3>1, Zenon DEF Pending, Undecremented
    <3>5. Pending(q)' \subseteq Pending(q)
      BY PendingStep, Zenon
    <3> QED
      BY <3>1, <3>3, <3>4, <3>5, Zenon DEF Closers
  <2>7. ASSUME NEW r \in Requests, done'[r] PROVE Pending(r)' = {} /\ released'[r]
    BY <1>0, <1>a, <2>4, <2>7, Zenon DEF CloserInv
  <2>8. ASSUME NEW r \in Requests, NEW j \in 1..MaxBatch, stage'[<<r, j>>] \in Closers
        PROVE  /\ Pending(r)' = {}
               /\ ~done'[r]
               /\ \A k \in 1..MaxBatch : stage'[<<r, k>>] \in Closers => k = j
    <3>1. CASE r = q
      <4>1. \A k \in 1..MaxBatch : stage'[<<q, k>>] \in Closers => k = i
        BY <2>3, <2>5, Zenon
      <4> QED
        BY <2>3, <2>4, <2>6, <2>8, <3>1, <4>1, Zenon
    <3>2. CASE r # q
      <4>1. \A k \in 1..MaxBatch : stage'[<<r, k>>] = stage[<<r, k>>]
        BY <2>5, <3>2, Zenon
      <4> QED
        BY <1>0, <1>a, <2>4, <2>8, <4>1, Zenon DEF CloserInv
    <3> QED
      BY <3>1, <3>2, Zenon
  <2> QED
    BY <2>7, <2>8, Zenon DEF CloserInv
<1>5. ASSUME NEW q \in Requests, NEW i \in 1..MaxBatch, CloseDone(<<q, i>>)
      PROVE  CloserInv'
  <2>1. /\ stage[<<q, i>>] = "closing"
        /\ stage' = [stage EXCEPT ![<<q, i>>] = "recycle"]
        /\ done' = [done EXCEPT ![q] = TRUE]
    BY <1>5, Zenon DEF CloseDone
  <2>2. Pending(q) = {} /\ released[q]
    BY <1>0, <2>1, Zenon DEF InductiveInvariant, ReleaseInv, CloserInv, Closers
  <2>3. \A r \in Requests, j \in 1..MaxBatch :
            <<r, j>> # <<q, i>> => stage'[<<r, j>>] = stage[<<r, j>>]
    BY <1>5, SlotStep, Zenon DEF Promise
  <2>4. \A j \in 1..MaxBatch : stage'[<<q, j>>] \notin Closers
    <3>1. stage'[<<q, i>>] = "recycle"
      BY <1>0, <2>1, Zenon DEF TypeOK, Slots
    <3>2. \A j \in 1..MaxBatch : stage[<<q, j>>] \in Closers => j = i
      BY <1>0, <2>1, Zenon DEF CloserInv, Closers
    <3> QED
      BY <2>3, <3>1, <3>2, Zenon DEF Closers
  <2>5. \A r \in Requests \ {q} :
            /\ done'[r] = done[r]
            /\ \A j \in 1..MaxBatch : stage'[<<r, j>>] = stage[<<r, j>>]
    BY <1>0, <2>1, <2>3, Zenon DEF TypeOK
  <2>6. Pending(q)' = {} /\ released'[q]
    BY <1>a, <2>2, Zenon
  <2> QED
    BY <1>0, <1>a, <2>4, <2>5, <2>6 DEF CloserInv
<1>6. ASSUME SetCloseFlag \/ CloseClient \/ UNCHANGED vars PROVE CloserInv'
  BY <1>1, <1>6, Zenon DEF SetCloseFlag, CloseClient
<1>7. ASSUME NEW s \in Slots, Decrement(s) \/ CloseDone(s) PROVE CloserInv'
  BY <1>4, <1>5, <1>7 DEF Slots
<1> QED
  BY <1>2, <1>3, <1>6, <1>7, Zenon DEF Next, Promise

(***************************************************************************)
(* The right to release is won once per call.                              *)
(***************************************************************************)
LEMMA ReleaseStep ==
    ASSUME InductiveInvariant, [Next]_vars
    PROVE  ReleaseInv'
<1> USE DEF vars, admissionVars, callVars, stateVars, kgoVars, poolVars
<1>0. TypeOK /\ ReleaseInv /\ CloserInv
  BY Zenon DEF InductiveInvariant
<1>a. \A q \in Requests : (released[q] => released'[q]) /\ Count(q)' = Count(q)
  BY <1>0, Monotone, BatchConstant, Zenon
<1>b. \A q \in Requests : done[q] => done'[q]
  BY <1>0, ZenonT(30) DEF Next, Call, Promise, CheckClosed, TryAcquire, Overloaded, SubmitRecord,
     ReturnResults, SelectCtxDone, CtxSwapReleased, CtxRelease, Deliver, Fail,
     Unbuffer, WriteResult, Decrement, SwapReleased, PromiseRelease, CloseDone,
     ReleaseRecord, EndContext, SetCloseFlag, CloseClient, TypeOK
<1>1. ASSUME NEW q \in Requests, CheckClosed(q) \/ TryAcquire(q) \/ Overloaded(q)
                                 \/ ReturnResults(q) \/ SelectCtxDone(q) \/ EndContext(q)
      PROVE  ReleaseInv'
  <2>1. stage' = stage
    BY <1>1, Zenon DEF CheckClosed, TryAcquire, Overloaded, ReturnResults, SelectCtxDone, EndContext
  <2>2. \A r \in Requests : /\ pc'[r] = "releasing" <=> pc[r] = "releasing"
                            /\ pc'[r] = "ctxErr" <=> pc[r] = "ctxErr"
                            /\ pc'[r] = "ok" => pc[r] = "ok" \/ done[r] \/ batch[r] = <<>>
    BY <1>0, <1>1, ZenonT(30) DEF CheckClosed, TryAcquire, Overloaded, ReturnResults, SelectCtxDone,
       EndContext, TypeOK
  <2>3. \A r \in Requests : batch[r] = <<>> => Count(r) = 0
    BY <1>0, BatchConstant, ZenonT(30)
  <2> QED
    BY <1>0, <1>a, <1>b, <2>1, <2>2, <2>3, ZenonT(30) DEF ReleaseInv, Releasing
<1>2. ASSUME NEW q \in Requests, NEW p \in Pointers, SubmitRecord(q, p)
      PROVE  ReleaseInv'
  <2>1. \A r \in Requests, i \in 1..MaxBatch :
            stage'[<<r, i>>] \in {"releasing", "closing"} => stage'[<<r, i>>] = stage[<<r, i>>]
    BY <1>0, <1>2, Zenon DEF SubmitRecord, TypeOK, Slots
  <2>2. \A r \in Requests : pc'[r] = pc[r] \/ pc'[r] \in {"submit", "select"}
    BY <1>0, <1>2, Zenon DEF SubmitRecord, TypeOK
  <2>3. \A r \in Requests : Releasing(r)' => Releasing(r)
    BY <2>1, <2>2, Zenon DEF Releasing
  <2>4. \A r \in Requests : /\ pc'[r] = "releasing" => pc[r] = "releasing"
                            /\ pc'[r] = "ctxErr" => pc[r] = "ctxErr"
                            /\ pc'[r] = "ok" => pc[r] = "ok"
    BY <2>2, Zenon
  <2>5. ASSUME NEW r \in Requests
        PROVE  /\ Releasing(r)' => released'[r]
               /\ pc'[r] = "ctxErr" => released'[r]
               /\ pc'[r] = "ok" => done'[r] \/ Count(r)' = 0
    BY <1>0, <1>a, <1>b, <2>3, <2>4, ZenonT(30) DEF ReleaseInv
  <2>6. ASSUME NEW r \in Requests, NEW i \in 1..MaxBatch
        PROVE  /\ pc'[r] = "releasing" => stage'[<<r, i>>] # "releasing"
               /\ stage'[<<r, i>>] = "closing" => released'[r]
    BY <1>0, <1>a, <2>1, <2>4 DEF ReleaseInv
  <2> QED
    BY <2>5, <2>6, Zenon DEF ReleaseInv
<1>3. ASSUME NEW q \in Requests, CtxSwapReleased(q) PROVE ReleaseInv'
  BY <1>0, <1>a, <1>b, <1>3, ZenonT(30) DEF CtxSwapReleased, ReleaseInv, Releasing, TypeOK
<1>4. ASSUME NEW q \in Requests, CtxRelease(q) PROVE ReleaseInv'
  BY <1>0, <1>a, <1>b, <1>4, Zenon DEF CtxRelease, ReleaseInv, Releasing, TypeOK
<1>5. ASSUME NEW s \in Slots, \/ Deliver(s) \/ Fail(s) \/ Unbuffer(s) \/ WriteResult(s)
                              \/ Decrement(s) \/ ReleaseRecord(s) \/ CloseDone(s)
      PROVE  ReleaseInv'
  <2>1. pc' = pc
    BY <1>5, Zenon DEF Deliver, Fail, Unbuffer, WriteResult, Decrement, ReleaseRecord, CloseDone
  <2>2. \A r \in Requests, i \in 1..MaxBatch :
            stage'[<<r, i>>] \in {"releasing", "closing"} => stage'[<<r, i>>] = stage[<<r, i>>]
    BY <1>0, <1>5, ZenonT(30) DEF TypeOK, Slots, Deliver, Fail, Unbuffer, WriteResult, Decrement,
       ReleaseRecord, CloseDone
  <2>3. \A r \in Requests : Releasing(r)' => Releasing(r)
    BY <2>1, <2>2, ZenonT(30) DEF Releasing
  <2> QED
    BY <1>0, <1>a, <1>b, <2>1, <2>2, <2>3, ZenonT(30) DEF ReleaseInv
<1>6. ASSUME NEW q \in Requests, NEW i \in 1..MaxBatch,
             SwapReleased(<<q, i>>) \/ PromiseRelease(<<q, i>>)
      PROVE  ReleaseInv'
  <2>1. pc' = pc /\ <<q, i>> \in Slots
    BY <1>6, Zenon DEF SwapReleased, PromiseRelease, Slots
  <2>2. \A r \in Requests, j \in 1..MaxBatch :
            <<r, j>> # <<q, i>> => stage'[<<r, j>>] = stage[<<r, j>>]
    BY <1>6, SlotStep, Zenon DEF Promise
  <2>3. released'[q]
    BY <1>0, <1>6, <2>1, ZenonT(30) DEF SwapReleased, PromiseRelease, ReleaseInv, Releasing, TypeOK
  <2>4. pc[q] = "releasing" => stage'[<<q, i>>] # "releasing"
    BY <1>0, <1>6, <2>1, ZenonT(30) DEF SwapReleased, PromiseRelease, ReleaseInv, Releasing, TypeOK
  <2>5. ASSUME NEW r \in Requests, Releasing(r)' PROVE released'[r]
    <3>1. r # q => Releasing(r)
      BY <2>1, <2>2, <2>5, Zenon DEF Releasing
    <3> QED
      BY <1>0, <1>a, <2>3, <3>1, ZenonT(30) DEF ReleaseInv
  <2>6. ASSUME NEW r \in Requests, pc'[r] = "releasing", NEW j \in 1..MaxBatch
        PROVE  stage'[<<r, j>>] # "releasing"
    BY <1>0, <2>1, <2>2, <2>4, <2>6 DEF ReleaseInv
  <2>7. ASSUME NEW r \in Requests, NEW j \in 1..MaxBatch, stage'[<<r, j>>] = "closing"
        PROVE  released'[r]
    BY <1>0, <1>a, <2>2, <2>3, <2>7, Zenon DEF ReleaseInv
  <2>8. \A r \in Requests : /\ pc'[r] = "ctxErr" => released'[r]
                            /\ pc'[r] = "ok" => done'[r] \/ Count(r)' = 0
    BY <1>0, <1>a, <1>b, <2>1, Zenon DEF ReleaseInv
  <2> QED
    BY <2>5, <2>6, <2>7, <2>8, Zenon DEF ReleaseInv
<1>7. ASSUME SetCloseFlag \/ CloseClient \/ UNCHANGED vars PROVE ReleaseInv'
  BY <1>0, <1>a, <1>7, Zenon DEF SetCloseFlag, CloseClient, ReleaseInv, Releasing
<1>8. ASSUME NEW s \in Slots, SwapReleased(s) \/ PromiseRelease(s) PROVE ReleaseInv'
  BY <1>6, <1>8 DEF Slots
<1> QED
  BY <1>1, <1>2, <1>3, <1>4, <1>5, <1>7, <1>8, Zenon DEF Next, Call, Promise

-----------------------------------------------------------------------------
\* The record pool, the results and admission; then the theorems on Produce.

(***************************************************************************)
(* Ownership of a record object follows from its payload: no two live      *)
(* slots share one and none is in the pool.                                *)
(***************************************************************************)
LEMMA OwnRecord ==
    ASSUME InductiveInvariant
    PROVE  NoSharedRecord
<1>1. ASSUME NEW s \in Slots, stage[s] \in Live
      PROVE  /\ ptr[s] \in Pointers \ pool
             /\ \A t \in Slots : stage[t] \in Live /\ t # s => ptr[t] # ptr[s]
  BY <1>1, NilAssumption DEF InductiveInvariant, PoolInv, Blank
<1> QED
  BY <1>1, Zenon DEF NoSharedRecord

(***************************************************************************)
(* Acquiring and recycling record objects keeps each with its owner.       *)
(***************************************************************************)
LEMMA PoolStep ==
    ASSUME InductiveInvariant, [Next]_vars
    PROVE  PoolInv'
<1> USE DEF vars, admissionVars, callVars, stateVars, kgoVars, poolVars
<1>0. TypeOK /\ PoolInv /\ NoSharedRecord
  BY OwnRecord, Zenon DEF InductiveInvariant
<1> DEFINE Own(t) == /\ ptr[t] \in Pointers
                     /\ heap[ptr[t]].payload = t
                     /\ stage[t] = "queued" => heap[ptr[t]].offset = Nil
                     /\ stage[t] = "called" => heap[ptr[t]].offset = Expected(t).offset
<1>a. ASSUME \A r \in pool' : heap'[r] = Blank,
             \A t \in Slots : stage'[t] \in Live => Own(t)'
      PROVE  PoolInv'
  BY <1>a, ZenonT(30) DEF PoolInv
<1>b. ASSUME NEW t \in Slots, stage'[t] \in Live,
             stage'[t] = stage[t], ptr'[t] = ptr[t],
             heap'[ptr[t]] = heap[ptr[t]], outcome'[t] = outcome[t]
      PROVE  Own(t)'
  <2>1. Own(t)
    BY <1>0, <1>b, ZenonT(30) DEF PoolInv
  <2> QED
    BY <1>b, <2>1, Zenon DEF Expected
<1> HIDE DEF Own
<1>1. ASSUME stage' = stage, ptr' = ptr, heap' = heap, pool' = pool, outcome' = outcome
      PROVE  PoolInv'
  BY <1>0, <1>1, ZenonT(30) DEF PoolInv, Expected
<1>2. ASSUME NEW q \in Requests, NEW p \in Pointers, SubmitRecord(q, p) PROVE PoolInv'
  <2> DEFINE s == <<q, next[q]>>
  <2>1. \A t \in Slots : stage[t] \in Live => ptr[t] # p
    BY <1>0, <1>2, Zenon DEF SubmitRecord, Obtainable, Available, NoSharedRecord
  <2>2. /\ pool' = pool \ {p}
        /\ heap' = [heap EXCEPT ![p] = [payload |-> s, offset |-> Nil]]
        /\ ptr' = [ptr EXCEPT ![s] = p]
        /\ \/ /\ stage' = [stage EXCEPT ![s] = "called"]
              /\ outcome' = [outcome EXCEPT ![s] = "maxBuffered"]
           \/ /\ stage' = [stage EXCEPT ![s] = "queued"]
              /\ outcome' = outcome
    BY <1>2, Zenon DEF SubmitRecord
  <2> HIDE DEF s
  <2>3. \A r \in pool' : heap'[r] = Blank
    BY <1>0, <2>2, Zenon DEF PoolInv, TypeOK
  <2>4. ASSUME NEW t \in Slots, stage'[t] \in Live, t # s
        PROVE  /\ stage'[t] = stage[t] /\ ptr'[t] = ptr[t]
               /\ heap'[ptr[t]] = heap[ptr[t]]
               /\ outcome'[t] = outcome[t]
    BY <1>0, <2>1, <2>2, <2>4, Zenon DEF PoolInv, TypeOK
  <2>5. s \in Slots => /\ ptr'[s] = p /\ heap'[p] = [payload |-> s, offset |-> Nil]
                       /\ stage'[s] = "called" => outcome'[s] = "maxBuffered"
    BY <1>0, <2>2, Zenon DEF TypeOK
  <2>6. ASSUME NEW t \in Slots, t = s PROVE Own(t)'
    <3>1. /\ ptr'[t] = p /\ heap'[p] = [payload |-> t, offset |-> Nil]
          /\ stage'[t] = "called" => outcome'[t] = "maxBuffered"
      BY <2>5, <2>6, ZenonT(30)
    <3> QED
      BY <3>1 DEF Own, Expected
  <2> QED
    BY <1>a, <1>b, <2>3, <2>4, <2>6, ZenonT(30)
<1>3. ASSUME NEW s \in Slots, Deliver(s) PROVE PoolInv'
  <2>1. /\ stage[s] = "queued"
        /\ heap' = [heap EXCEPT ![ptr[s]] = [payload |-> s, offset |-> s]]
        /\ outcome' = [outcome EXCEPT ![s] = "nil"]
        /\ stage' = [stage EXCEPT ![s] = "called"]
        /\ ptr' = ptr /\ pool' = pool
    BY <1>0, <1>3, ZenonT(30) DEF Deliver, PoolInv, Live
  <2>2. \A r \in pool' : heap'[r] = Blank
    BY <1>0, <2>1 DEF PoolInv, NoSharedRecord, TypeOK, Live
  <2>3. ASSUME NEW t \in Slots, stage'[t] \in Live, t # s
        PROVE  /\ stage'[t] = stage[t] /\ heap'[ptr[t]] = heap[ptr[t]]
               /\ outcome'[t] = outcome[t]
    BY <1>0, <2>1, <2>3, Zenon DEF PoolInv, NoSharedRecord, TypeOK, Live
  <2>4. /\ stage'[s] = "called" /\ outcome'[s] = "nil" /\ ptr[s] \in Pointers
        /\ heap'[ptr[s]] = [payload |-> s, offset |-> s]
    BY <1>0, <2>1, Zenon DEF TypeOK, NoSharedRecord, Live
  <2>5. Own(s)'
    BY <2>1, <2>4 DEF Own, Expected
  <2> QED
    BY <1>a, <1>b, <2>1, <2>2, <2>3, <2>5, Zenon
<1>4. ASSUME NEW s \in Slots, ReleaseRecord(s) PROVE PoolInv'
  <2>1. /\ stage[s] = "recycle"
        /\ heap' = [heap EXCEPT ![ptr[s]] = Blank]
        /\ pool' = pool \cup {ptr[s]}
        /\ ptr' = [ptr EXCEPT ![s] = Nil]
        /\ stage' = [stage EXCEPT ![s] = "promised"]
        /\ outcome' = outcome
    BY <1>4, Zenon DEF ReleaseRecord
  <2>2. ptr[s] \in Pointers /\ \A r \in pool' : heap'[r] = Blank
    BY <1>0, <2>1, Zenon DEF PoolInv, NoSharedRecord, TypeOK, Live
  <2>3. ASSUME NEW t \in Slots, stage'[t] \in Live
        PROVE  /\ stage'[t] = stage[t] /\ ptr'[t] = ptr[t]
               /\ heap'[ptr[t]] = heap[ptr[t]]
    BY <1>0, <2>1, <2>3, Zenon DEF PoolInv, NoSharedRecord, TypeOK, Live
  <2> QED
    BY <1>a, <1>b, <2>1, <2>2, <2>3, Zenon
<1>5. ASSUME NEW s \in Slots, Fail(s) PROVE PoolInv'
  <2>1. /\ stage[s] = "queued"
        /\ outcome' = [outcome EXCEPT ![s] = "failed"]
        /\ stage' = [stage EXCEPT ![s] = "called"]
        /\ heap' = heap /\ ptr' = ptr /\ pool' = pool
    BY <1>5, Zenon DEF Fail
  <2>2. \A r \in pool' : heap'[r] = Blank
    BY <1>0, <2>1, Zenon DEF PoolInv
  <2>3. \A t \in Slots \ {s} : stage'[t] = stage[t] /\ outcome'[t] = outcome[t]
    BY <1>0, <2>1, Zenon DEF TypeOK
  <2>4. stage'[s] = "called" /\ outcome'[s] = "failed" /\ Own(s)
    BY <1>0, <2>1, ZenonT(30) DEF TypeOK, PoolInv, Live, Own
  <2>5. Own(s)'
    BY <2>1, <2>4, ZenonT(30) DEF Own, Expected
  <2> QED
    BY <1>a, <1>b, <2>1, <2>2, <2>3, <2>5, Zenon
<1>6. ASSUME NEW s \in Slots, \/ Unbuffer(s) \/ WriteResult(s) \/ Decrement(s)
                              \/ SwapReleased(s) \/ PromiseRelease(s) \/ CloseDone(s)
      PROVE  PoolInv'
  <2>1. heap' = heap /\ pool' = pool /\ ptr' = ptr /\ outcome' = outcome
    BY <1>6, ZenonT(30) DEF Unbuffer, WriteResult, Decrement, SwapReleased, PromiseRelease, CloseDone
  <2>2. ASSUME NEW t \in Slots, stage'[t] \in Live
        PROVE  stage[t] \in Live /\ (stage'[t] = stage[t] \/ stage'[t] \notin {"queued", "called"})
    BY <1>0, <1>6, <2>2, ZenonT(30) DEF Unbuffer, WriteResult, Decrement, SwapReleased, PromiseRelease,
       CloseDone, TypeOK, Live
  <2> QED
    BY <1>0, <2>1, <2>2 DEF PoolInv, Expected
<1> QED
  BY <1>1, <1>2, <1>3, <1>4, <1>5, <1>6, ZenonT(30) DEF Next, Call, Promise, CheckClosed, TryAcquire,
     Overloaded, ReturnResults, SelectCtxDone, CtxSwapReleased, CtxRelease,
     EndContext, SetCloseFlag, CloseClient

(***************************************************************************)
(* Each promise writes the result of its own record.                       *)
(***************************************************************************)
LEMMA ResultStep ==
    ASSUME InductiveInvariant, [Next]_vars
    PROVE  ResultInv'
<1> USE DEF vars, admissionVars, callVars, stateVars, kgoVars, poolVars
<1>0. TypeOK /\ PoolInv /\ ResultInv
  BY Zenon DEF InductiveInvariant
<1>1. ASSUME stage' = stage, outcome' = outcome, results' = results PROVE ResultInv'
  BY <1>0, <1>1, ZenonT(30) DEF ResultInv, Expected
<1>2. ASSUME NEW q \in Requests, NEW p \in Pointers, SubmitRecord(q, p) PROVE ResultInv'
  <2>1. stage[<<q, next[q]>>] = "unsent"
    BY <1>2, NextUnsent, Zenon DEF SubmitRecord
  <2>2. results' = results
    BY <1>2, Zenon DEF SubmitRecord
  <2>3. ASSUME NEW t \in Slots
        PROVE  \/ stage'[t] = stage[t] /\ outcome'[t] = outcome[t]
               \/ stage[t] = "unsent" /\ stage'[t] = "called" /\ outcome'[t] = "maxBuffered"
               \/ stage[t] = "unsent" /\ stage'[t] = "queued" /\ outcome'[t] = outcome[t]
    BY <1>0, <1>2, <2>1, Zenon DEF SubmitRecord, TypeOK
  <2> QED
    BY <1>0, <2>2, <2>3, Zenon DEF ResultInv, Expected
<1>3. ASSUME NEW s \in Slots, Deliver(s) \/ Fail(s) PROVE ResultInv'
  BY <1>0, <1>3 DEF Deliver, Fail, ResultInv, Expected, TypeOK
<1>4. ASSUME NEW s \in Slots, WriteResult(s) PROVE ResultInv'
  BY <1>0, <1>4, ZenonT(60) DEF WriteResult, ResultInv, PoolInv, Expected, TypeOK, Live
<1>5. ASSUME NEW s \in Slots, \/ Unbuffer(s) \/ Decrement(s) \/ SwapReleased(s)
                              \/ PromiseRelease(s) \/ CloseDone(s) \/ ReleaseRecord(s)
      PROVE  ResultInv'
  <2>1. outcome' = outcome /\ results' = results
    BY <1>5, ZenonT(30) DEF Unbuffer, Decrement, SwapReleased, PromiseRelease, CloseDone, ReleaseRecord
  <2>2. ASSUME NEW t \in Slots
        PROVE  stage'[t] = stage[t] \/ {stage[t], stage'[t]} \cap {"unsent", "queued", "called"} = {}
    BY <1>0, <1>5, ZenonT(60) DEF Unbuffer, Decrement, SwapReleased, PromiseRelease, CloseDone,
       ReleaseRecord, TypeOK
  <2> QED
    BY <1>0, <2>1, <2>2, ZenonT(30) DEF ResultInv, Expected
<1> QED
  BY <1>1, <1>2, <1>3, <1>4, <1>5, ZenonT(30) DEF Next, Call, Promise, CheckClosed, TryAcquire,
     Overloaded, ReturnResults, SelectCtxDone, CtxSwapReleased, CtxRelease,
     EndContext, SetCloseFlag, CloseClient

(***************************************************************************)
(* A reservation starts with admit.TryAcquire.                             *)
(***************************************************************************)
LEMMA HoldersAcquire ==
    ASSUME InductiveInvariant, NEW q \in Requests, TryAcquire(q)
    PROVE  /\ q \notin Holders
           /\ Acquire(Count(q), Bytes(batch[q]))
           /\ Holders' = Holders \cup {q}
<1> USE DEF vars, admissionVars, callVars, stateVars, kgoVars, poolVars
<1>0. TypeOK /\ LoopInv /\ CloserInv /\ ReleaseInv
  BY Zenon DEF InductiveInvariant
<1>1. pc[q] = "admit" /\ ~released[q] /\ ~Releasing(q)
  BY <1>0, ZenonT(30) DEF TryAcquire, LoopInv, ReleaseInv, Unadmitted
<1> QED
  BY <1>0, <1>1, Zenon DEF TryAcquire, Holders, Releasing, TypeOK

(***************************************************************************)
(* It ends with the admit.Release of the call whose context has ended,     *)
(***************************************************************************)
LEMMA HoldersCtxRelease ==
    ASSUME InductiveInvariant, NEW q \in Requests, CtxRelease(q)
    PROVE  /\ q \in Holders
           /\ Release(Count(q), Bytes(batch[q]))
           /\ Holders' = Holders \ {q}
<1> USE DEF vars, admissionVars, callVars, stateVars, kgoVars, poolVars
<1>0. TypeOK /\ LoopInv /\ CloserInv /\ ReleaseInv
  BY Zenon DEF InductiveInvariant
<1>1. pc[q] = "releasing" /\ released[q]
      /\ \A i \in 1..MaxBatch : stage[<<q, i>>] # "releasing"
  BY <1>0, Zenon DEF CtxRelease, ReleaseInv, Releasing
<1> QED
  BY <1>0, <1>1, ZenonT(30) DEF CtxRelease, Holders, Releasing, TypeOK

(***************************************************************************)
(* or with that of the promise which brought remaining to zero.            *)
(***************************************************************************)
LEMMA HoldersPromiseRelease ==
    ASSUME InductiveInvariant, NEW q \in Requests, NEW i \in 1..MaxBatch,
           PromiseRelease(<<q, i>>)
    PROVE  /\ q \in Holders
           /\ Release(Count(q), Bytes(batch[q]))
           /\ Holders' = Holders \ {q}
<1> USE DEF vars, admissionVars, callVars, stateVars, kgoVars, poolVars
<1>0. TypeOK /\ LoopInv /\ CloserInv /\ ReleaseInv
  BY Zenon DEF InductiveInvariant
<1>1. /\ stage[<<q, i>>] = "releasing" /\ pc' = pc /\ released' = released
      /\ Release(Count(q), Bytes(batch[q]))
  BY Zenon DEF PromiseRelease
<1>2. q \in Holders
  BY <1>1, Zenon DEF Holders, Releasing
<1>3. stage'[<<q, i>>] = "closing"
  BY <1>0, Zenon DEF PromiseRelease, TypeOK, Slots
<1>4. \A r \in Requests, j \in 1..MaxBatch :
          <<r, j>> # <<q, i>> => stage'[<<r, j>>] = stage[<<r, j>>]
  BY SlotStep, Zenon DEF Promise
<1>5. released[q] /\ pc[q] # "releasing"
  BY <1>0, <1>1, ZenonT(30) DEF ReleaseInv, Releasing
<1>6. \A j \in 1..MaxBatch : stage[<<q, j>>] = "releasing" => j = i
  BY <1>0, <1>1, Zenon DEF CloserInv, Closers
<1>7. ~Releasing(q)'
  BY <1>1, <1>3, <1>4, <1>5, <1>6, ZenonT(30) DEF Releasing
<1>8. q \notin Holders'
  BY <1>1, <1>5, <1>7, Zenon DEF Holders
<1>9. \A r \in Requests \ {q} : r \in Holders' <=> r \in Holders
  <2>1. \A r \in Requests \ {q} : Releasing(r)' <=> Releasing(r)
    BY <1>1, <1>4, Zenon DEF Releasing
  <2> QED
    BY <1>1, <2>1, Zenon DEF Holders
<1>10. Holders \subseteq Requests /\ Holders' \subseteq Requests
  BY Zenon DEF Holders
<1> QED
  BY <1>1, <1>2, <1>8, <1>9, <1>10, Zenon

(***************************************************************************)
(* No other step moves a reservation or the counters.                      *)
(***************************************************************************)
LEMMA HoldersSame ==
    ASSUME InductiveInvariant,
           \/ \E q \in Requests :
                 \/ CheckClosed(q) \/ Overloaded(q) \/ ReturnResults(q)
                 \/ SelectCtxDone(q) \/ CtxSwapReleased(q) \/ EndContext(q)
                 \/ \E p \in Pointers : SubmitRecord(q, p)
           \/ \E s \in Slots :
                 \/ Deliver(s) \/ Fail(s) \/ Unbuffer(s) \/ WriteResult(s)
                 \/ Decrement(s) \/ SwapReleased(s) \/ CloseDone(s) \/ ReleaseRecord(s)
           \/ SetCloseFlag \/ CloseClient \/ UNCHANGED vars
    PROVE  Holders' = Holders /\ usedRecords' = usedRecords /\ usedBytes' = usedBytes
<1> USE DEF vars, admissionVars, callVars, stateVars, kgoVars, poolVars
<1>0. TypeOK /\ LoopInv /\ CloserInv /\ ReleaseInv
  BY Zenon DEF InductiveInvariant
<1> DEFINE Same == Holders' = Holders /\ usedRecords' = usedRecords /\ usedBytes' = usedBytes
<1>1. ASSUME NEW q \in Requests, CheckClosed(q) \/ Overloaded(q) PROVE Same
  <2>1. /\ pc[q] \in {"start", "admit"} /\ stage' = stage /\ released' = released
        /\ pc'[q] \in {"closed", "ok", "admit", "overloaded"}
        /\ \A r \in Requests \ {q} : pc'[r] = pc[r]
        /\ usedRecords' = usedRecords /\ usedBytes' = usedBytes
    BY <1>0, <1>1, ZenonT(30) DEF CheckClosed, Overloaded, TypeOK
  <2>2. \A r \in Requests : Releasing(r)' <=> Releasing(r)
    BY <2>1, ZenonT(30) DEF Releasing
  <2> QED
    BY <2>1, <2>2, ZenonT(30) DEF Holders
<1>2. ASSUME NEW q \in Requests, NEW p \in Pointers, SubmitRecord(q, p) PROVE Same
  <2>1. \A r \in Requests, i \in 1..MaxBatch :
            stage'[<<r, i>>] = "releasing" <=> stage[<<r, i>>] = "releasing"
    <3>1. stage[<<q, next[q]>>] = "unsent"
      BY <1>2, NextUnsent, ZenonT(30) DEF SubmitRecord
    <3> QED
      BY <1>0, <1>2, <3>1, ZenonT(30) DEF SubmitRecord, TypeOK, Slots
  <2>2. /\ pc[q] = "submit" /\ released' = released
        /\ pc' = [pc EXCEPT ![q] = IF next[q] = Count(q) THEN "select" ELSE "submit"]
        /\ usedRecords' = usedRecords /\ usedBytes' = usedBytes
    BY <1>2, ZenonT(30) DEF SubmitRecord
  <2>3. pc'[q] \in {"submit", "select"} /\ \A r \in Requests \ {q} : pc'[r] = pc[r]
    BY <1>0, <2>2, Zenon DEF TypeOK
  <2>4. \A r \in Requests : Releasing(r)' <=> Releasing(r)
    BY <2>1, <2>2, <2>3, ZenonT(30) DEF Releasing
  <2> QED
    BY <2>2, <2>3, <2>4, ZenonT(30) DEF Holders
<1>3. ASSUME NEW q \in Requests, ReturnResults(q) PROVE Same
  <2>1. /\ pc[q] = "select" /\ pc'[q] = "ok" /\ released[q]
        /\ stage' = stage /\ released' = released
        /\ \A r \in Requests \ {q} : pc'[r] = pc[r]
        /\ usedRecords' = usedRecords /\ usedBytes' = usedBytes
    BY <1>0, <1>3, Zenon DEF ReturnResults, CloserInv, TypeOK
  <2>2. \A r \in Requests : Releasing(r)' <=> Releasing(r)
    BY <2>1, ZenonT(30) DEF Releasing
  <2> QED
    BY <2>1, <2>2, ZenonT(30) DEF Holders
<1>4. ASSUME NEW q \in Requests, SelectCtxDone(q) \/ CtxSwapReleased(q) PROVE Same
  <2>1. /\ stage' = stage
        /\ \A r \in Requests \ {q} : pc'[r] = pc[r] /\ released'[r] = released[r]
        /\ usedRecords' = usedRecords /\ usedBytes' = usedBytes
    BY <1>0, <1>4, Zenon DEF SelectCtxDone, CtxSwapReleased, TypeOK
  <2>2. \A r \in Requests \ {q} : Releasing(r)' <=> Releasing(r)
    BY <2>1, ZenonT(30) DEF Releasing
  <2>3. \A r \in Requests \ {q} : r \in Holders' <=> r \in Holders
    BY <2>1, <2>2, ZenonT(30) DEF Holders
  <2>4. \/ /\ pc[q] = "select" /\ pc'[q] = "expired" /\ released'[q] = released[q]
        \/ /\ pc[q] = "expired" /\ released[q] /\ pc'[q] = "ctxErr" /\ released'[q]
        \/ /\ pc[q] = "expired" /\ ~released[q] /\ pc'[q] = "releasing"
    BY <1>0, <1>4, Zenon DEF SelectCtxDone, CtxSwapReleased, TypeOK
  <2>5. q \in Holders' <=> q \in Holders
    BY <2>1, <2>4, ZenonT(30) DEF Holders, Releasing
  <2>6. Holders \subseteq Requests /\ Holders' \subseteq Requests
    BY Zenon DEF Holders
  <2>7. Holders' = Holders
    BY <2>3, <2>5, <2>6
  <2> QED
    BY <2>1, <2>7, ZenonT(30)
<1>5. ASSUME NEW s \in Slots, \/ Deliver(s) \/ Fail(s) \/ Unbuffer(s) \/ WriteResult(s)
                              \/ Decrement(s) \/ CloseDone(s) \/ ReleaseRecord(s)
      PROVE  Same
  <2>1. /\ pc' = pc /\ released' = released
        /\ usedRecords' = usedRecords /\ usedBytes' = usedBytes
    BY <1>5, ZenonT(30) DEF Deliver, Fail, Unbuffer, WriteResult, Decrement, CloseDone, ReleaseRecord
  <2>2. \A r \in Requests, i \in 1..MaxBatch :
            stage'[<<r, i>>] = "releasing" <=> stage[<<r, i>>] = "releasing"
    BY <1>0, <1>5, ZenonT(30) DEF Deliver, Fail, Unbuffer, WriteResult, Decrement, CloseDone,
       ReleaseRecord, TypeOK, Slots
  <2> QED
    BY <2>1, <2>2, ZenonT(30) DEF Holders, Releasing
<1>6. ASSUME NEW q \in Requests, NEW i \in 1..MaxBatch, SwapReleased(<<q, i>>)
      PROVE  Same
  <2>1. /\ stage[<<q, i>>] = "last" /\ pc' = pc
        /\ released' = [released EXCEPT ![q] = TRUE]
        /\ usedRecords' = usedRecords /\ usedBytes' = usedBytes
    BY <1>6, Zenon DEF SwapReleased
  <2>2. stage'[<<q, i>>] = IF released[q] THEN "closing" ELSE "releasing"
    BY <1>0, <1>6, Zenon DEF SwapReleased, TypeOK, Slots
  <2>3. \A r \in Requests, j \in 1..MaxBatch :
            <<r, j>> # <<q, i>> => stage'[<<r, j>>] = stage[<<r, j>>]
    BY <1>6, SlotStep, Zenon DEF Promise
  <2>4. ~released[q] => pc[q] \in {"submit", "select", "expired"}
    <3>1. pc[q] \notin Unadmitted /\ i \in IndexesOf(q)
      BY <2>1, SentSlot, Zenon
    <3>2. Count(q) # 0
      <4>1. Count(q) \in Nat
        BY <1>0, BatchType, Zenon
      <4> QED
        BY <3>1, <4>1 DEF IndexesOf
    <3>3. ~done[q]
      BY <1>0, <2>1, ZenonT(30) DEF CloserInv, Closers
    <3> QED
      BY <1>0, <3>1, <3>2, <3>3, Zenon DEF ReleaseInv, Releasing, TypeOK, CallPcs, Replies, Unadmitted
  <2>5. ~released[q] => q \in Holders /\ q \in Holders'
    BY <2>2, <2>4, ZenonT(30) DEF Holders, Releasing
  <2>6. released[q] => (q \in Holders' <=> q \in Holders)
    <3>1. ASSUME released[q] PROVE Releasing(q)' <=> Releasing(q)
      BY <2>1, <2>2, <2>3, <3>1, ZenonT(30) DEF Releasing
    <3> QED
      BY <1>0, <2>1, <3>1, Zenon DEF Holders, TypeOK
  <2>7. \A r \in Requests \ {q} : r \in Holders' <=> r \in Holders
    <3>1. \A r \in Requests \ {q} : Releasing(r)' <=> Releasing(r)
      BY <2>1, <2>3, ZenonT(30) DEF Releasing
    <3> QED
      BY <1>0, <2>1, <3>1, Zenon DEF Holders, TypeOK
  <2>8. Holders \subseteq Requests /\ Holders' \subseteq Requests
    BY Zenon DEF Holders
  <2>9. q \in Holders' <=> q \in Holders
    BY <2>5, <2>6, Zenon
  <2>10. Holders' = Holders
    BY <2>7, <2>8, <2>9
  <2> QED
    BY <2>1, <2>10, ZenonT(30)
<1>7. ASSUME (\E q \in Requests : EndContext(q)) \/ SetCloseFlag \/ CloseClient
              \/ UNCHANGED vars
       PROVE  Same
  BY <1>7, Zenon DEF EndContext, SetCloseFlag, CloseClient, Holders, Releasing
<1>8. ASSUME NEW s \in Slots, SwapReleased(s) PROVE Same
  BY <1>6, <1>8 DEF Slots
<1> HIDE DEF Same
<1>9. ASSUME NEW q \in Requests,
             \/ CheckClosed(q) \/ Overloaded(q) \/ ReturnResults(q)
             \/ SelectCtxDone(q) \/ CtxSwapReleased(q) \/ EndContext(q)
             \/ \E p \in Pointers : SubmitRecord(q, p)
      PROVE  Same
  BY <1>1, <1>2, <1>3, <1>4, <1>7, <1>9, Zenon
<1>10. ASSUME NEW s \in Slots,
              \/ Deliver(s) \/ Fail(s) \/ Unbuffer(s) \/ WriteResult(s)
              \/ Decrement(s) \/ SwapReleased(s) \/ CloseDone(s) \/ ReleaseRecord(s)
       PROVE  Same
  BY <1>5, <1>8, <1>10, Zenon
<1>11. Same
  BY <1>7, <1>9, <1>10, Zenon
<1> QED
  BY <1>11, Zenon DEF Same

(***************************************************************************)
(* What a step does to the reservations and to the counters of admission.  *)
(***************************************************************************)
LEMMA HoldersStep ==
    ASSUME InductiveInvariant, [Next]_vars
    PROVE  \/ Holders' = Holders /\ usedRecords' = usedRecords /\ usedBytes' = usedBytes
           \/ \E q \in Requests \ Holders :
                 /\ Acquire(Count(q), Bytes(batch[q]))
                 /\ Holders' = Holders \cup {q}
           \/ \E q \in Holders :
                 /\ Release(Count(q), Bytes(batch[q]))
                 /\ Holders' = Holders \ {q}
<1>1. ASSUME NEW s \in Slots, PromiseRelease(s)
      PROVE  \E q \in Holders : /\ Release(Count(q), Bytes(batch[q]))
                                /\ Holders' = Holders \ {q}
  BY <1>1, HoldersPromiseRelease DEF Slots
<1> QED
  BY <1>1, HoldersAcquire, HoldersCtxRelease, HoldersSame, Zenon DEF Next, Call, Promise

(***************************************************************************)
(* The counters follow the reservations, and stay within the limits.       *)
(***************************************************************************)
LEMMA AdmissionStep ==
    ASSUME InductiveInvariant, [Next]_vars
    PROVE  AdmissionExact' /\ AdmissionBounded'
<1> DEFINE n == [q \in Requests |-> Count(q)]
           b == [q \in Requests |-> Bytes(batch[q])]
<1>0. TypeOK /\ AdmissionExact /\ AdmissionBounded
  BY Zenon DEF InductiveInvariant
<1>1. n' = n /\ b' = b
  BY <1>0, BatchConstant, Zenon DEF Count
<1>2. \A q \in Requests : n[q] \in Nat /\ b[q] \in Nat
  BY <1>0, BatchType, Zenon
<1>3. IsFiniteSet(Holders) /\ Holders \subseteq Requests
  BY WorkloadAssumption, FS_Subset, Zenon DEF Holders
<1>4. usedRecords = Weight(Holders, n) /\ usedBytes = Weight(Holders, b)
  BY <1>0, Zenon DEF AdmissionExact
<1>5. usedRecords \in Nat /\ usedBytes \in Nat
  BY <1>0, Zenon DEF TypeOK
<1>a. \A q \in Requests : n[q] = Count(q) /\ b[q] = Bytes(batch[q])
  BY Zenon
<1>b. AdmissionExact' <=> usedRecords' = Weight(Holders', n') /\ usedBytes' = Weight(Holders', b')
  BY Zenon DEF AdmissionExact
<1> HIDE DEF n, b
<1>6. CASE Holders' = Holders /\ usedRecords' = usedRecords /\ usedBytes' = usedBytes
  BY <1>0, <1>1, <1>4, <1>6, <1>b, Zenon DEF AdmissionBounded
<1>7. ASSUME NEW q \in Requests \ Holders, Acquire(Count(q), Bytes(batch[q])),
             Holders' = Holders \cup {q}
      PROVE  AdmissionExact' /\ AdmissionBounded'
  <2>1. /\ Weight(Holders \cup {q}, n) = Weight(Holders, n) + n[q]
        /\ Weight(Holders \cup {q}, b) = Weight(Holders, b) + b[q]
    BY <1>2, <1>3, WeightAdd, ZenonT(30)
  <2>2. usedRecords' = usedRecords + n[q] /\ usedBytes' = usedBytes + b[q]
    BY <1>7, <1>a, Zenon DEF Acquire
  <2>3. AdmissionBounded'
    BY <1>7, Zenon DEF Acquire, Fits, AdmissionBounded
  <2> QED
    BY <1>1, <1>4, <1>7, <1>b, <2>1, <2>2, <2>3, Zenon
<1>8. ASSUME NEW q \in Holders, Release(Count(q), Bytes(batch[q])),
             Holders' = Holders \ {q}
      PROVE  AdmissionExact' /\ AdmissionBounded'
  <2>1. /\ Weight(Holders \ {q}, n) = Weight(Holders, n) - n[q] /\ n[q] <= Weight(Holders, n)
        /\ Weight(Holders \ {q}, b) = Weight(Holders, b) - b[q] /\ b[q] <= Weight(Holders, b)
    BY <1>2, <1>3, WeightRemove, Zenon
  <2>2. q \in Requests /\ n[q] \in Nat /\ b[q] \in Nat
    BY <1>2, <1>3, Zenon
  <2>3. usedRecords' = usedRecords - n[q] /\ usedBytes' = usedBytes - b[q]
    <3>1. /\ usedRecords' = ClampAtZero(usedRecords - n[q])
          /\ usedBytes' = ClampAtZero(usedBytes - b[q])
      BY <1>8, <1>a, <2>2, Zenon DEF Release
    <3>2. n[q] <= usedRecords /\ b[q] <= usedBytes
      BY <1>4, <2>1, Zenon
    <3> QED
      BY <1>5, <2>2, <3>1, <3>2 DEF ClampAtZero
  <2>4. AdmissionBounded'
    BY <1>0, <1>5, <2>2, <2>3, LimitsAssumption DEF AdmissionBounded
  <2> QED
    BY <1>1, <1>4, <1>8, <1>b, <2>1, <2>3, <2>4, Zenon
<1> QED
  BY <1>6, <1>7, <1>8, HoldersStep, Zenon

-----------------------------------------------------------------------------
(***************************************************************************)
(* The invariant holds in every reachable state of every instance.         *)
(***************************************************************************)
THEOREM InvariantHolds == Safety => []InductiveInvariant
<1>1. InductiveInvariant /\ [Next]_vars => InductiveInvariant'
  BY TypeStep, AdmissionStep, LoopStep, RemainingStep, CloserStep, ReleaseStep,
     PoolStep, ResultStep, Zenon DEF InductiveInvariant
<1> QED
  BY InitInvariant, <1>1, PTL DEF Safety

(***************************************************************************)
(* Type correctness.                                                       *)
(***************************************************************************)
THEOREM TypeCorrect == Safety => []TypeOK
<1>1. InductiveInvariant => TypeOK
  BY Zenon DEF InductiveInvariant
<1> QED
  BY <1>1, InvariantHolds, PTL

(***************************************************************************)
(* acquire and release: admission counts exactly the reservations in       *)
(* force, so nothing leaks and nothing is released twice under any         *)
(* interleaving.                                                           *)
(***************************************************************************)
THEOREM AdmissionCorrect == Safety => []AdmissionExact
<1>1. InductiveInvariant => AdmissionExact
  BY Zenon DEF InductiveInvariant
<1> QED
  BY <1>1, InvariantHolds, PTL

(***************************************************************************)
(* acquire: what is admitted at once never exceeds either limit.           *)
(***************************************************************************)
THEOREM AdmissionWithinLimits == Safety => []AdmissionBounded
<1>1. InductiveInvariant => AdmissionBounded
  BY Zenon DEF InductiveInvariant
<1> QED
  BY <1>1, InvariantHolds, PTL

(***************************************************************************)
(* Produce returns one result per record, in order, each its own record's. *)
(***************************************************************************)
THEOREM ResultsCorrect == Safety => []ResultsMatchRecords
<1>1. InductiveInvariant => ResultsMatchRecords
  <2> SUFFICES ASSUME InductiveInvariant, NEW q \in Requests, pc[q] = "ok",
                      NEW i \in IndexesOf(q)
               PROVE  /\ outcome[<<q, i>>] # "pending"
                      /\ results[<<q, i>>] = Expected(<<q, i>>)
    BY ZenonT(30) DEF ResultsMatchRecords, Expected
  <2>1. Count(q) \in Nat /\ Count(q) <= MaxBatch
    BY BatchType, Zenon DEF InductiveInvariant
  <2>2. <<q, i>> \in Slots /\ Count(q) # 0
    BY <2>1, WorkloadAssumption DEF Slots, IndexesOf
  <2>3. Pending(q) = {}
    BY <2>2, ZenonT(30) DEF InductiveInvariant, ReleaseInv, CloserInv
  <2>4. stage[<<q, i>>] \notin Undecremented
    BY <2>3, Zenon DEF Pending
  <2> QED
    BY <2>2, <2>4, Zenon DEF InductiveInvariant, ResultInv, Undecremented
<1> QED
  BY <1>1, InvariantHolds, PTL

(***************************************************************************)
(* A record object in use is never in the pool nor in a second use.        *)
(***************************************************************************)
THEOREM RecordsNotShared == Safety => []NoSharedRecord
BY OwnRecord, InvariantHolds, PTL

(***************************************************************************)
(* close(state.done) runs at most once, after every promise has written.   *)
(***************************************************************************)
THEOREM DoneClosed == Safety => []DoneClosedOnce
<1>1. InductiveInvariant => DoneClosedOnce
  <2> SUFFICES ASSUME InductiveInvariant, NEW s \in Slots, stage[s] = "closing"
               PROVE  /\ ~done[s[1]]
                      /\ \A i \in IndexesOf(s[1]) : stage[<<s[1], i>>] \notin Undecremented
                      /\ \A i \in IndexesOf(s[1]) :
                            stage[<<s[1], i>>] = "closing" => <<s[1], i>> = s
    BY Zenon DEF DoneClosedOnce
  <2>1. PICK q \in Requests, j \in 1..MaxBatch : s = <<q, j>>
    BY DEF Slots
  <2>2. IndexesOf(q) \subseteq 1..MaxBatch
    BY BatchType, WorkloadAssumption DEF InductiveInvariant, IndexesOf
  <2>3. Pending(q) = {} /\ ~done[q]
        /\ \A i \in 1..MaxBatch : stage[<<q, i>>] \in Closers => i = j
    BY <2>1, Zenon DEF InductiveInvariant, CloserInv, Closers
  <2> QED
    BY <2>1, <2>2, <2>3, Zenon DEF Pending, Closers
<1> QED
  BY <1>1, InvariantHolds, PTL

(***************************************************************************)
(* A late callback never writes into results that Produce has returned.    *)
(***************************************************************************)
THEOREM ResultsStable == Safety => ReturnedResultsStable
<1>1. ASSUME InductiveInvariant, [Next]_vars, NEW q \in Requests, pc[q] = "ok",
             NEW i \in IndexesOf(q)
      PROVE  results'[<<q, i>>] = results[<<q, i>>]
  <2>1. Count(q) \in Nat /\ Count(q) <= MaxBatch
    BY <1>1, BatchType, Zenon DEF InductiveInvariant
  <2>2. <<q, i>> \in Slots /\ Count(q) # 0
    BY <1>1, <2>1, WorkloadAssumption DEF Slots, IndexesOf
  <2>3. stage[<<q, i>>] \notin Undecremented
    BY <1>1, <2>2, ZenonT(30) DEF InductiveInvariant, ReleaseInv, CloserInv, Pending
  <2>4. results' = results \/ \E s \in Slots : WriteResult(s)
    BY <1>1, ZenonT(30) DEF Next, Call, Promise, CheckClosed, TryAcquire, Overloaded, SubmitRecord,
       ReturnResults, SelectCtxDone, CtxSwapReleased, CtxRelease, Deliver, Fail,
       Unbuffer, Decrement, SwapReleased, PromiseRelease, CloseDone,
       ReleaseRecord, EndContext, SetCloseFlag, CloseClient, vars, stateVars
  <2> QED
    BY <1>1, <2>2, <2>3, <2>4, Zenon DEF WriteResult, Undecremented, InductiveInvariant, TypeOK
<1>2. InductiveInvariant /\ [Next]_vars =>
        [\A q \in Requests : pc[q] = "ok" =>
            \A i \in IndexesOf(q) : results'[<<q, i>>] = results[<<q, i>>]]_results
  BY <1>1, Zenon
<1> QED
  BY <1>2, InvariantHolds, PTL DEF ReturnedResultsStable, Safety

-----------------------------------------------------------------------------
(* The refinement of ProduceContract. *)

\* Only a call with records, whose context has ended, takes the error path.
ContextInv ==
    \A q \in Requests :
        /\ pc[q] \in {"expired", "releasing", "ctxErr"} => q \in ctxDone
        /\ pc[q] \notin {"start", "closed", "ok"} => Count(q) > 0

(***************************************************************************)
(* The sum that the contract takes over held reservations is Weight.       *)
(***************************************************************************)
LEMMA ContractWeight ==
    ASSUME NEW S, NEW w
    PROVE  Contract!Weight(S, w) = Weight(S, w)
<1>1. \A T : Contract!Cardinality(T) = Cardinality(T)
  BY Zenon DEF Contract!Cardinality, Cardinality
<1> QED
  BY <1>1, Zenon DEF Contract!Weight, Weight, Contract!Units, Units

(***************************************************************************)
(* The counters of admission decide as the contract does: they are exact.  *)
(***************************************************************************)
LEMMA RoomIsFits ==
    ASSUME InductiveInvariant, NEW q \in Requests
    PROVE  Contract!HasRoom(q) <=> Fits(Count(q), Bytes(batch[q]))
<1>1. usedRecords = Weight(Holders, Counts) /\ usedBytes = Weight(Holders, Sizes)
  BY Zenon DEF InductiveInvariant, AdmissionExact, Counts, Sizes
<1>2. Count(q) \in Nat /\ Bytes(batch[q]) \in Nat
  BY BatchType, Zenon DEF InductiveInvariant
<1>3. Counts[q] = Count(q) /\ Sizes[q] = Bytes(batch[q])
  BY Zenon DEF Counts, Sizes
<1>4. Contract!HasRoom(q) <=>
         /\ MaxRecords > 0 => usedRecords + Count(q) <= MaxRecords
         /\ MaxBytes > 0 => usedBytes + Bytes(batch[q]) <= MaxBytes
  BY <1>1, <1>3, ContractWeight, Zenon DEF Contract!HasRoom
<1> QED
  BY <1>2, <1>4 DEF Fits

(***************************************************************************)
(* The initial states of the producer are initial states of the contract.  *)
(***************************************************************************)
LEMMA InitMaps == Init => Contract!Init
<1> SUFFICES ASSUME Init PROVE Contract!Init
  BY Zenon
<1>0. InductiveInvariant
  BY InitInvariant, Zenon
<1>1. Counts \in [Requests -> Nat] /\ Sizes \in [Requests -> Nat]
  BY <1>0, BatchType, Zenon DEF InductiveInvariant, Counts, Sizes
<1>2. Reply = [q \in Requests |-> "none"] /\ Admitted = {}
  BY Zenon DEF Init, Reply, Admitted, Replies
<1>3. Holders = {}
  BY Zenon DEF Init, Holders, Releasing, Slots
<1>4. Unsettled = [q \in Requests |-> 1..Counts[q]]
  <2>1. ASSUME NEW q \in Requests
        PROVE  {i \in IndexesOf(q) : outcome[<<q, i>>] = "pending"} = 1..Counts[q]
    <3>1. Counts[q] = Count(q) /\ Count(q) \in Nat /\ Count(q) <= MaxBatch
      BY <1>0, BatchType, Zenon DEF InductiveInvariant, Counts
    <3>2. \A i \in IndexesOf(q) : <<q, i>> \in Slots
      BY <3>1, WorkloadAssumption DEF IndexesOf, Slots
    <3> QED
      BY <3>1, <3>2, Zenon DEF Init, IndexesOf
  <2> QED
    BY <2>1, Zenon DEF Unsettled
<1>5. ctxDone = {} /\ closeFlag = FALSE
  BY Zenon DEF Init
<1> QED
  BY <1>1, <1>2, <1>3, <1>4, <1>5, Zenon DEF Contract!Init

(***************************************************************************)
(* No step changes a batch, so the sizes of a call are fixed.              *)
(***************************************************************************)
LEMMA SizesConstant ==
    ASSUME InductiveInvariant, [Next]_vars
    PROVE  Counts' = Counts /\ Sizes' = Sizes /\ batch' = batch
BY BatchConstant, Zenon DEF InductiveInvariant, Counts, Sizes

(***************************************************************************)
(* A step that leaves every outcome alone settles nothing.                 *)
(***************************************************************************)
LEMMA UnsettledSame ==
    ASSUME batch' = batch, outcome' = outcome
    PROVE  Unsettled' = Unsettled
BY Zenon DEF Unsettled, IndexesOf, Count

(***************************************************************************)
(* A step of a promise moves no call.                                      *)
(***************************************************************************)
LEMMA CallsSame ==
    ASSUME batch' = batch, pc' = pc
    PROVE  Reply' = Reply /\ Admitted' = Admitted
BY Zenon DEF Reply, Admitted

(***************************************************************************)
(* A call that moves without returning, on the same side of admission.     *)
(***************************************************************************)
LEMMA CallMoves ==
    ASSUME InductiveInvariant, batch' = batch, NEW q \in Requests, NEW v,
           pc' = [pc EXCEPT ![q] = v], pc[q] \notin Replies, v \notin Replies,
           pc[q] \in Unadmitted <=> v \in Unadmitted
    PROVE  Reply' = Reply /\ Admitted' = Admitted
<1>1. pc'[q] = v /\ \A r \in Requests \ {q} : pc'[r] = pc[r]
  BY Zenon DEF InductiveInvariant, TypeOK
<1> QED
  BY <1>1, Zenon DEF Reply, Admitted, Unadmitted

(***************************************************************************)
(* A call that returns v.                                                  *)
(***************************************************************************)
LEMMA CallReturns ==
    ASSUME InductiveInvariant, batch' = batch, NEW q \in Requests, NEW v \in Replies,
           pc' = [pc EXCEPT ![q] = v], pc[q] \notin Replies,
           \/ pc[q] \in Unadmitted <=> v \in Unadmitted
           \/ batch[q] = <<>>
    PROVE  /\ Reply[q] = "none" /\ Reply' = [Reply EXCEPT ![q] = v]
           /\ Admitted' = Admitted
<1>1. pc'[q] = v /\ \A r \in Requests \ {q} : pc'[r] = pc[r]
  BY Zenon DEF InductiveInvariant, TypeOK
<1>2. Admitted' = Admitted
  BY <1>1, Zenon DEF Admitted, Unadmitted
<1> QED
  BY <1>1, <1>2, Zenon DEF Reply

(***************************************************************************)
(* Every step keeps the context invariant.                                 *)
(***************************************************************************)
LEMMA ContextStep ==
    ASSUME InductiveInvariant, ContextInv, [Next]_vars
    PROVE  ContextInv'
<1> USE DEF vars, admissionVars, callVars, stateVars, kgoVars, poolVars
<1>0. TypeOK /\ \A q \in Requests : /\ Count(q)' = Count(q) /\ Count(q) \in Nat
                                    /\ batch[q] = <<>> <=> Count(q) = 0
  BY BatchConstant, BatchType, Zenon DEF InductiveInvariant
<1>1. ASSUME NEW q \in Requests, Call(q) PROVE ContextInv'
  <2>1. ctxDone' = ctxDone /\ \A r \in Requests \ {q} : pc'[r] = pc[r]
    BY <1>0, <1>1, Zenon DEF Call, CheckClosed, TryAcquire, Overloaded, SubmitRecord, ReturnResults,
       SelectCtxDone, CtxSwapReleased, CtxRelease, TypeOK
  <2>2. pc'[q] \in {"expired", "releasing", "ctxErr"} => q \in ctxDone
    BY <1>0, <1>1, Zenon DEF Call, CheckClosed, TryAcquire, Overloaded, SubmitRecord, ReturnResults,
       SelectCtxDone, CtxSwapReleased, CtxRelease, TypeOK, ContextInv
  <2>3. pc'[q] \notin {"start", "closed", "ok"} => Count(q) > 0
    <3>1. Count(q) \in Nat /\ (batch[q] = <<>> <=> Count(q) = 0)
      BY <1>0, Zenon
    <3>2. CASE CheckClosed(q)
      <4>1. pc'[q] \notin {"closed", "ok"} => batch[q] # <<>>
        BY <1>0, <3>2, Zenon DEF CheckClosed, TypeOK
      <4> QED
        BY <3>1, <4>1
    <3>3. CASE ~CheckClosed(q)
      <4>1. pc[q] \notin {"start", "closed", "ok"}
        BY <1>1, <3>3, Zenon DEF Call, TryAcquire, Overloaded, SubmitRecord, ReturnResults,
           SelectCtxDone, CtxSwapReleased, CtxRelease
      <4> QED
        BY <4>1, Zenon DEF ContextInv
    <3> QED
      BY <3>2, <3>3, Zenon
  <2> QED
    BY <1>0, <2>1, <2>2, <2>3, Zenon DEF ContextInv
<1>2. ASSUME pc' = pc, ctxDone \subseteq ctxDone' PROVE ContextInv'
  BY <1>0, <1>2, Zenon DEF ContextInv
<1>3. ASSUME NEW s \in Slots, Promise(s) \/ Deliver(s) \/ Fail(s) \/ Unbuffer(s)
      PROVE  pc' = pc /\ ctxDone' = ctxDone
  BY <1>3, Zenon DEF Promise, WriteResult, Decrement, SwapReleased, PromiseRelease, CloseDone,
     ReleaseRecord, Deliver, Fail, Unbuffer
<1>4. ASSUME NEW q \in Requests, EndContext(q) PROVE pc' = pc /\ ctxDone \subseteq ctxDone'
  BY <1>4, Zenon DEF EndContext
<1>5. ASSUME SetCloseFlag \/ CloseClient \/ UNCHANGED vars
      PROVE  pc' = pc /\ ctxDone' = ctxDone
  BY <1>5, Zenon DEF SetCloseFlag, CloseClient
<1> QED
  BY <1>1, <1>2, <1>3, <1>4, <1>5, Zenon DEF Next

(***************************************************************************)
(* The step that CheckClosed takes is a refusal, an empty answer, or none. *)
(***************************************************************************)
LEMMA CheckClosedMaps ==
    ASSUME InductiveInvariant, NEW q \in Requests, CheckClosed(q)
    PROVE  Contract!Decline(q) \/ UNCHANGED Contract!vars
<1> USE DEF vars, admissionVars, callVars, stateVars, kgoVars, poolVars
<1>1. [Next]_vars
  BY Zenon DEF Next, Call
<1>2. /\ Counts' = Counts /\ Sizes' = Sizes /\ Holders' = Holders /\ Unsettled' = Unsettled
      /\ ctxDone' = ctxDone /\ closeFlag' = closeFlag
  BY <1>1, SizesConstant, HoldersSame, UnsettledSame, Zenon DEF CheckClosed
<1>3. pc[q] = "start" /\ batch' = batch /\ q \notin Admitted
  BY Zenon DEF CheckClosed, Admitted
<1>4. CASE closeFlag
  <2>1. pc' = [pc EXCEPT ![q] = "closed"]
    BY <1>4, Zenon DEF CheckClosed
  <2>2. Reply[q] = "none" /\ Reply' = [Reply EXCEPT ![q] = "closed"] /\ Admitted' = Admitted
    BY <1>3, <2>1, CallReturns, Zenon DEF Replies, Unadmitted
  <2> QED
    BY <1>2, <1>3, <1>4, <2>2, Zenon DEF Contract!Decline, Contract!Waiting
<1>5. CASE ~closeFlag /\ batch[q] = <<>>
  <2>1. pc' = [pc EXCEPT ![q] = "ok"] /\ Counts[q] = 0
    BY <1>5, Zenon DEF CheckClosed, Counts, Count
  <2>2. Reply[q] = "none" /\ Reply' = [Reply EXCEPT ![q] = "ok"] /\ Admitted' = Admitted
    BY <1>3, <1>5, <2>1, CallReturns, Zenon DEF Replies, Unadmitted
  <2> QED
    BY <1>2, <1>3, <2>1, <2>2, Zenon DEF Contract!Decline, Contract!Waiting
<1>6. CASE ~closeFlag /\ batch[q] # <<>>
  <2>1. pc' = [pc EXCEPT ![q] = "admit"]
    BY <1>6, Zenon DEF CheckClosed
  <2>2. Reply' = Reply /\ Admitted' = Admitted
    BY <1>3, <2>1, CallMoves, Zenon DEF Replies, Unadmitted
  <2> QED
    BY <1>2, <2>2, Zenon DEF Contract!vars
<1> QED
  BY <1>4, <1>5, <1>6, Zenon

(***************************************************************************)
(* A call passes admission exactly when the contract has room for it.      *)
(***************************************************************************)
LEMMA TryAcquireMaps ==
    ASSUME InductiveInvariant, ContextInv, NEW q \in Requests, TryAcquire(q)
    PROVE  Contract!Admit(q)
<1> USE DEF vars, admissionVars, callVars, stateVars, kgoVars, poolVars
<1>1. [Next]_vars
  BY Zenon DEF Next, Call
<1>2. /\ Counts' = Counts /\ Sizes' = Sizes /\ Unsettled' = Unsettled
      /\ ctxDone' = ctxDone /\ closeFlag' = closeFlag /\ batch' = batch
  BY <1>1, SizesConstant, UnsettledSame, Zenon DEF TryAcquire
<1>3. Holders' = Holders \cup {q}
  BY HoldersAcquire, Zenon
<1>4. Contract!HasRoom(q)
  BY RoomIsFits, Zenon DEF TryAcquire, Acquire
<1>5. batch[q] # <<>>
  <2>1. pc[q] = "admit"
    BY Zenon DEF TryAcquire
  <2>2. Count(q) > 0
    BY <2>1, Zenon DEF ContextInv
  <2> QED
    BY <1>1, <2>2, BatchConstant DEF InductiveInvariant
<1>6. pc[q] = "admit" /\ pc'[q] = "submit" /\ \A r \in Requests \ {q} : pc'[r] = pc[r]
  BY Zenon DEF TryAcquire, InductiveInvariant, TypeOK
<1>7. Reply' = Reply /\ Reply[q] = "none"
  BY <1>6, Zenon DEF Reply, Replies
<1>8. q \notin Admitted /\ Admitted' = Admitted \cup {q}
  BY <1>2, <1>5, <1>6, Zenon DEF Admitted
<1> QED
  BY <1>2, <1>3, <1>4, <1>7, <1>8, Zenon DEF Contract!Admit, Contract!Waiting

(***************************************************************************)
(* A call is overloaded only when the contract has no room for it.         *)
(***************************************************************************)
LEMMA OverloadedMaps ==
    ASSUME InductiveInvariant, NEW q \in Requests, Overloaded(q)
    PROVE  Contract!Decline(q)
<1> USE DEF vars, admissionVars, callVars, stateVars, kgoVars, poolVars
<1>1. [Next]_vars
  BY Zenon DEF Next, Call
<1>2. /\ Counts' = Counts /\ Sizes' = Sizes /\ Holders' = Holders /\ Unsettled' = Unsettled
      /\ ctxDone' = ctxDone /\ closeFlag' = closeFlag
  BY <1>1, SizesConstant, HoldersSame, UnsettledSame, Zenon DEF Overloaded
<1>3. /\ pc[q] = "admit" /\ batch' = batch /\ q \notin Admitted
      /\ pc' = [pc EXCEPT ![q] = "overloaded"]
  BY Zenon DEF Overloaded, Admitted
<1>4. ~Contract!HasRoom(q)
  BY RoomIsFits, Zenon DEF Overloaded
<1>5. Reply[q] = "none" /\ Reply' = [Reply EXCEPT ![q] = "overloaded"] /\ Admitted' = Admitted
  BY <1>3, CallReturns, Zenon DEF Replies, Unadmitted
<1> QED
  BY <1>2, <1>3, <1>4, <1>5, Zenon DEF Contract!Decline, Contract!Waiting

(***************************************************************************)
(* A call past admission that still runs is one the contract has admitted. *)
(***************************************************************************)
LEMMA RunningIsAdmitted ==
    ASSUME InductiveInvariant, ContextInv, NEW q \in Requests,
           pc[q] \in {"submit", "select", "expired", "releasing"}
    PROVE  q \in Admitted /\ Reply[q] = "none"
<1>1. Count(q) > 0
  BY Zenon DEF ContextInv
<1>2. batch[q] # <<>>
  BY <1>1 DEF Count
<1> QED
  BY <1>2, Zenon DEF Admitted, Reply, Replies

(***************************************************************************)
(* A record whose promise has been called is one of an admitted call.      *)
(***************************************************************************)
LEMMA SentIsAdmitted ==
    ASSUME InductiveInvariant, NEW q \in Requests, NEW i \in 1..MaxBatch,
           stage[<<q, i>>] # "unsent"
    PROVE  q \in Admitted
<1>1. i \in IndexesOf(q) /\ pc[q] \notin Unadmitted
  BY SentSlot, Zenon
<1>2. batch[q] # <<>>
  BY <1>1 DEF IndexesOf, Count
<1> QED
  BY <1>1, <1>2, Zenon DEF Admitted, Unadmitted

(***************************************************************************)
(* An outcome of one record settles it and no other.                       *)
(***************************************************************************)
LEMMA OutcomeSettles ==
    ASSUME InductiveInvariant, batch' = batch, NEW q \in Requests, NEW i \in IndexesOf(q),
           NEW v, v # "pending", stage[<<q, i>>] \in {"unsent", "queued"},
           outcome' = [outcome EXCEPT ![<<q, i>>] = v]
    PROVE  i \in Unsettled[q] /\ Unsettled' = [Unsettled EXCEPT ![q] = @ \ {i}]
<1>1. \A r \in Requests : \A j \in IndexesOf(r) : <<r, j>> \in Slots
  BY BatchType, WorkloadAssumption DEF InductiveInvariant, IndexesOf, Slots
<1>2. outcome[<<q, i>>] = "pending"
  BY <1>1, Zenon DEF InductiveInvariant, ResultInv
<1>3. /\ outcome'[<<q, i>>] = v
      /\ \A r \in Requests : \A j \in IndexesOf(r) :
            <<r, j>> # <<q, i>> => outcome'[<<r, j>>] = outcome[<<r, j>>]
  BY <1>1, Zenon DEF InductiveInvariant, TypeOK
<1>4. \A r \in Requests : IndexesOf(r)' = IndexesOf(r)
  BY Zenon DEF IndexesOf, Count
<1>5. \A r \in Requests \ {q} : Unsettled'[r] = Unsettled[r]
  BY <1>3, <1>4 DEF Unsettled
<1>6. i \in Unsettled[q] /\ Unsettled'[q] = Unsettled[q] \ {i}
  BY <1>2, <1>3, <1>4 DEF Unsettled
<1> QED
  BY <1>5, <1>6, Zenon DEF Unsettled

(***************************************************************************)
(* When no promise of a call is pending, all its records are settled.      *)
(***************************************************************************)
LEMMA NonePendingSettled ==
    ASSUME InductiveInvariant, NEW q \in Requests, Pending(q) = {}
    PROVE  Unsettled[q] = {}
<1>1. \A i \in IndexesOf(q) : <<q, i>> \in Slots
  BY BatchType, WorkloadAssumption DEF InductiveInvariant, IndexesOf, Slots
<1>2. \A i \in IndexesOf(q) : outcome[<<q, i>>] # "pending"
  BY <1>1, Zenon DEF Pending, Undecremented, InductiveInvariant, ResultInv
<1> QED
  BY <1>2, Zenon DEF Unsettled

(***************************************************************************)
(* TryProduce settles the record when the buffer is full, and else nothing.*)
(***************************************************************************)
LEMMA SubmitMaps ==
    ASSUME InductiveInvariant, ContextInv, NEW q \in Requests, NEW p \in Pointers,
           SubmitRecord(q, p)
    PROVE  (\E i \in 1..Counts[q] : Contract!Settle(q, i)) \/ UNCHANGED Contract!vars
<1> USE DEF vars, admissionVars, callVars, stateVars, kgoVars, poolVars
<1>1. [Next]_vars
  BY Zenon DEF Next, Call
<1>2. /\ Counts' = Counts /\ Sizes' = Sizes /\ Holders' = Holders /\ batch' = batch
      /\ ctxDone' = ctxDone /\ closeFlag' = closeFlag
  BY <1>1, SizesConstant, HoldersSame, Zenon DEF SubmitRecord
<1>3. pc[q] = "submit"
      /\ pc' = [pc EXCEPT ![q] = IF next[q] = Count(q) THEN "select" ELSE "submit"]
  BY Zenon DEF SubmitRecord
<1>4. Reply' = Reply /\ Admitted' = Admitted
  BY <1>2, <1>3, CallMoves, Zenon DEF Replies, Unadmitted
<1>5. q \in Admitted
  BY <1>3, RunningIsAdmitted, Zenon
<1>6. next[q] \in IndexesOf(q) /\ next[q] \in 1..Counts[q] /\ stage[<<q, next[q]>>] = "unsent"
  <2>1. next[q] <= Count(q) /\ next[q] \in 1..MaxBatch /\ stage[<<q, next[q]>>] = "unsent"
    BY <1>3, NextUnsent, Zenon DEF InductiveInvariant, LoopInv
  <2>2. Count(q) \in Nat /\ Counts[q] = Count(q)
    BY BatchType, Zenon DEF InductiveInvariant, Counts
  <2> QED
    BY <2>1, <2>2, WorkloadAssumption DEF IndexesOf
<1>7. CASE outcome' = [outcome EXCEPT ![<<q, next[q]>>] = "maxBuffered"]
  <2>1. /\ next[q] \in Unsettled[q]
        /\ Unsettled' = [Unsettled EXCEPT ![q] = @ \ {next[q]}]
    BY <1>2, <1>6, <1>7, OutcomeSettles, Zenon
  <2>2. Contract!Settle(q, next[q])
    BY <1>2, <1>4, <1>5, <2>1, Zenon DEF Contract!Settle
  <2> QED
    BY <1>6, <2>2, Zenon
<1>8. CASE outcome' = outcome
  BY <1>2, <1>4, <1>8, UnsettledSame, Zenon DEF Contract!vars
<1> QED
  BY <1>7, <1>8, Zenon DEF SubmitRecord

(***************************************************************************)
(* kgo settles a record of an admitted call.                               *)
(***************************************************************************)
LEMMA DeliverMaps ==
    ASSUME InductiveInvariant, NEW q \in Requests, NEW i \in 1..MaxBatch,
           Deliver(<<q, i>>) \/ Fail(<<q, i>>)
    PROVE  i \in 1..Counts[q] /\ Contract!Settle(q, i)
<1> USE DEF vars, admissionVars, callVars, stateVars, kgoVars, poolVars
<1>0. <<q, i>> \in Slots
  BY Zenon DEF Slots
<1>1. [Next]_vars
  BY <1>0, Zenon DEF Next
<1>2. /\ Counts' = Counts /\ Sizes' = Sizes /\ batch' = batch /\ pc' = pc
      /\ ctxDone' = ctxDone /\ closeFlag' = closeFlag
  BY <1>1, SizesConstant, Zenon DEF Deliver, Fail
<1>3. Holders' = Holders
  BY <1>0, HoldersSame, Zenon
<1>4. stage[<<q, i>>] = "queued"
      /\ \E v \in {"nil", "failed"} : outcome' = [outcome EXCEPT ![<<q, i>>] = v]
  BY Zenon DEF Deliver, Fail
<1>5. i \in IndexesOf(q) /\ q \in Admitted
  BY <1>4, SentSlot, SentIsAdmitted, Zenon
<1>6. i \in Unsettled[q] /\ Unsettled' = [Unsettled EXCEPT ![q] = @ \ {i}]
  BY <1>2, <1>4, <1>5, OutcomeSettles, Zenon
<1>7. Reply' = Reply /\ Admitted' = Admitted
  BY <1>2, CallsSame, Zenon
<1> QED
  BY <1>2, <1>3, <1>5, <1>6, <1>7, Zenon DEF Contract!Settle, IndexesOf, Counts

(***************************************************************************)
(* Results are returned once all is settled and the reservation is back.   *)
(***************************************************************************)
LEMMA ReturnMaps ==
    ASSUME InductiveInvariant, ContextInv, NEW q \in Requests, ReturnResults(q)
    PROVE  Contract!Answer(q)
<1> USE DEF vars, admissionVars, callVars, stateVars, kgoVars, poolVars
<1>1. [Next]_vars
  BY Zenon DEF Next, Call
<1>2. /\ Counts' = Counts /\ Sizes' = Sizes /\ Holders' = Holders /\ Unsettled' = Unsettled
      /\ ctxDone' = ctxDone /\ closeFlag' = closeFlag /\ batch' = batch
  BY <1>1, SizesConstant, HoldersSame, UnsettledSame, Zenon DEF ReturnResults
<1>3. pc[q] = "select" /\ pc' = [pc EXCEPT ![q] = "ok"] /\ done[q]
  BY Zenon DEF ReturnResults
<1>4. q \in Admitted /\ Reply[q] = "none"
  BY <1>3, RunningIsAdmitted, Zenon
<1>5. Pending(q) = {} /\ released[q]
      /\ \A i \in 1..MaxBatch : stage[<<q, i>>] # "releasing"
  BY <1>3, Zenon DEF InductiveInvariant, CloserInv, Closers
<1>6. q \notin Holders
  BY <1>3, <1>5, Zenon DEF Holders, Releasing
<1>7. Reply' = [Reply EXCEPT ![q] = "ok"] /\ Admitted' = Admitted
  BY <1>2, <1>3, CallReturns, Zenon DEF Replies, Unadmitted
<1> QED
  BY <1>2, <1>4, <1>5, <1>6, <1>7, NonePendingSettled, Zenon DEF Contract!Answer

(***************************************************************************)
(* A call gives up only after its context has ended.                       *)
(***************************************************************************)
LEMMA CtxSwapMaps ==
    ASSUME InductiveInvariant, ContextInv, NEW q \in Requests,
           SelectCtxDone(q) \/ CtxSwapReleased(q)
    PROVE  Contract!GiveUp(q) \/ UNCHANGED Contract!vars
<1> USE DEF vars, admissionVars, callVars, stateVars, kgoVars, poolVars
<1>1. [Next]_vars
  BY Zenon DEF Next, Call
<1>2. /\ Counts' = Counts /\ Sizes' = Sizes /\ batch' = batch /\ outcome' = outcome
      /\ ctxDone' = ctxDone /\ closeFlag' = closeFlag
  BY <1>1, SizesConstant, Zenon DEF SelectCtxDone, CtxSwapReleased
<1>3. Holders' = Holders /\ Unsettled' = Unsettled
  BY <1>2, HoldersSame, UnsettledSame, Zenon
<1>4. CASE pc[q] = "select" /\ pc' = [pc EXCEPT ![q] = "expired"]
  BY <1>2, <1>3, <1>4, CallMoves, Zenon DEF Replies, Unadmitted, Contract!vars
<1>5. CASE pc[q] = "expired" /\ pc' = [pc EXCEPT ![q] = "releasing"]
  BY <1>2, <1>3, <1>5, CallMoves, Zenon DEF Replies, Unadmitted, Contract!vars
<1>6. CASE pc[q] = "expired" /\ pc' = [pc EXCEPT ![q] = "ctxErr"]
  <2>1. q \in Admitted /\ q \in ctxDone
    BY <1>6, RunningIsAdmitted, Zenon DEF ContextInv
  <2>2. Reply[q] = "none" /\ Reply' = [Reply EXCEPT ![q] = "ctxErr"] /\ Admitted' = Admitted
    BY <1>2, <1>6, CallReturns, Zenon DEF Replies, Unadmitted
  <2> QED
    BY <1>2, <1>3, <2>1, <2>2, Zenon DEF Contract!GiveUp
<1> QED
  BY <1>4, <1>5, <1>6, Zenon DEF SelectCtxDone, CtxSwapReleased

(***************************************************************************)
(* The release of an expired call, and its return.                         *)
(***************************************************************************)
LEMMA CtxReleaseMaps ==
    ASSUME InductiveInvariant, ContextInv, NEW q \in Requests, CtxRelease(q)
    PROVE  Contract!HandBack(q)
<1> USE DEF vars, admissionVars, callVars, stateVars, kgoVars, poolVars
<1>1. [Next]_vars
  BY Zenon DEF Next, Call
<1>2. /\ Counts' = Counts /\ Sizes' = Sizes /\ Unsettled' = Unsettled
      /\ ctxDone' = ctxDone /\ closeFlag' = closeFlag /\ batch' = batch
  BY <1>1, SizesConstant, UnsettledSame, Zenon DEF CtxRelease
<1>3. q \in Holders /\ Holders' = Holders \ {q}
  BY HoldersCtxRelease, Zenon
<1>4. pc[q] = "releasing" /\ pc' = [pc EXCEPT ![q] = "ctxErr"]
  BY Zenon DEF CtxRelease
<1>5. q \in ctxDone
  BY <1>4, Zenon DEF ContextInv
<1>6. Reply' = [Reply EXCEPT ![q] = "ctxErr"] /\ Admitted' = Admitted
  BY <1>2, <1>4, CallReturns, Zenon DEF Replies, Unadmitted
<1> QED
  BY <1>2, <1>3, <1>5, <1>6, Zenon DEF Contract!HandBack

(***************************************************************************)
(* The release of the last promise, with every record settled.             *)
(***************************************************************************)
LEMMA PromiseReleaseMaps ==
    ASSUME InductiveInvariant, NEW q \in Requests, NEW i \in 1..MaxBatch,
           PromiseRelease(<<q, i>>)
    PROVE  Contract!HandBack(q)
<1> USE DEF vars, admissionVars, callVars, stateVars, kgoVars, poolVars
<1>0. <<q, i>> \in Slots
  BY Zenon DEF Slots
<1>1. [Next]_vars
  BY <1>0, Zenon DEF Next, Promise
<1>2. /\ Counts' = Counts /\ Sizes' = Sizes /\ Unsettled' = Unsettled /\ pc' = pc
      /\ ctxDone' = ctxDone /\ closeFlag' = closeFlag /\ batch' = batch
  BY <1>1, SizesConstant, UnsettledSame, Zenon DEF PromiseRelease
<1>3. q \in Holders /\ Holders' = Holders \ {q}
  BY HoldersPromiseRelease, Zenon
<1>4. Pending(q) = {}
  BY Zenon DEF PromiseRelease, InductiveInvariant, CloserInv, Closers
<1>5. Reply' = Reply /\ Admitted' = Admitted
  BY <1>2, CallsSame, Zenon
<1> QED
  BY <1>2, <1>3, <1>4, <1>5, NonePendingSettled, Zenon DEF Contract!HandBack

(***************************************************************************)
(* The other steps of promises, kgo and Close are invisible to a caller.   *)
(***************************************************************************)
LEMMA StuttersMap ==
    ASSUME InductiveInvariant,
           \/ \E s \in Slots : \/ Unbuffer(s) \/ WriteResult(s) \/ Decrement(s)
                               \/ SwapReleased(s) \/ CloseDone(s) \/ ReleaseRecord(s)
           \/ CloseClient \/ UNCHANGED vars
    PROVE  UNCHANGED Contract!vars
<1> USE DEF vars, admissionVars, callVars, stateVars, kgoVars, poolVars
<1>1. [Next]_vars
  BY Zenon DEF Next, Promise
<1>2. /\ batch' = batch /\ pc' = pc /\ outcome' = outcome
      /\ ctxDone' = ctxDone /\ closeFlag' = closeFlag
  BY Zenon DEF Unbuffer, WriteResult, Decrement, SwapReleased, CloseDone, ReleaseRecord, CloseClient
<1>3. Holders' = Holders
  BY HoldersSame, Zenon
<1> QED
  BY <1>1, <1>2, <1>3, SizesConstant, UnsettledSame, CallsSame, Zenon DEF Contract!vars

(***************************************************************************)
(* The end of a context and the start of Close are seen as they are.       *)
(***************************************************************************)
LEMMA OutsideMaps ==
    ASSUME InductiveInvariant, (\E q \in Requests : EndContext(q)) \/ SetCloseFlag
    PROVE  (\E q \in Requests : Contract!Expire(q)) \/ Contract!Shut
<1> USE DEF vars, admissionVars, callVars, stateVars, kgoVars, poolVars
<1>1. [Next]_vars
  BY Zenon DEF Next
<1>2. batch' = batch /\ pc' = pc /\ outcome' = outcome
  BY Zenon DEF EndContext, SetCloseFlag
<1>3. /\ Counts' = Counts /\ Sizes' = Sizes /\ Holders' = Holders /\ Unsettled' = Unsettled
      /\ Reply' = Reply /\ Admitted' = Admitted
  BY <1>1, <1>2, SizesConstant, HoldersSame, UnsettledSame, CallsSame, Zenon
<1>4. ASSUME NEW q \in Requests, EndContext(q) PROVE Contract!Expire(q)
  BY <1>3, <1>4, Zenon DEF EndContext, Contract!Expire, Reply
<1>5. ASSUME SetCloseFlag PROVE Contract!Shut
  BY <1>3, <1>5, Zenon DEF SetCloseFlag, Contract!Shut
<1> QED
  BY <1>4, <1>5, Zenon

(***************************************************************************)
(* The franz producer implements the contract of a bounded producer, for   *)
(* any calls, batches, limits and pool: every step of a goroutine, of a    *)
(* callback, of kgo or of Close is a step of the contract or invisible.    *)
(***************************************************************************)
THEOREM ProducerImplementsContract == Safety => ImplementsContract
<1>1. Init => ContextInv
  BY Zenon DEF Init, ContextInv
<1>2. InductiveInvariant /\ ContextInv /\ [Next]_vars => ContextInv'
  BY ContextStep, Zenon
<1>3. ASSUME InductiveInvariant, ContextInv, [Next]_vars
      PROVE  [Contract!Next]_(Contract!vars)
  <2>1. ASSUME NEW q \in Requests, Call(q) PROVE [Contract!Next]_(Contract!vars)
    BY <1>3, <2>1, CheckClosedMaps, TryAcquireMaps, OverloadedMaps, SubmitMaps, ReturnMaps,
       CtxSwapMaps, CtxReleaseMaps, Zenon DEF Call, Contract!Next
  <2>2. ASSUME NEW s \in Slots, PromiseRelease(s) \/ Deliver(s) \/ Fail(s)
        PROVE  Contract!Next
    <3>1. PICK q \in Requests, i \in 1..MaxBatch : s = <<q, i>>
      BY DEF Slots
    <3> QED
      BY <1>3, <2>2, <3>1, PromiseReleaseMaps, DeliverMaps, Zenon DEF Contract!Next
  <2>3. ASSUME (\E q \in Requests : EndContext(q)) \/ SetCloseFlag PROVE Contract!Next
    BY <1>3, <2>3, OutsideMaps, Zenon DEF Contract!Next
  <2> QED
    BY <1>3, <2>1, <2>2, <2>3, StuttersMap, Zenon DEF Next, Promise
<1>4. InductiveInvariant /\ ContextInv /\ [Next]_vars => [Contract!Next]_(Contract!vars)
  BY <1>3, Zenon
<1> QED
  BY <1>1, <1>2, <1>4, InitMaps, InvariantHolds, PTL
     DEF Safety, ImplementsContract, Contract!Spec

=============================================================================
