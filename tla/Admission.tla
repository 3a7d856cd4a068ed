----------------------------- MODULE Admission -----------------------------
(***************************************************************************)
(* The byte-and-record admission controller of internal/limits.  Both      *)
(* operations hold the controller's mutex from start to end, so each is    *)
(* one atomic action.  They never block: TryAcquire answers at once.       *)
(***************************************************************************)
EXTENDS Integers, Weights

CONSTANTS
    MaxRecords,   \* a.maxRecords; a value <= 0 switches the limit off
    MaxBytes      \* a.maxBytes;   likewise

ASSUME LimitsAssumption == MaxRecords \in Int /\ MaxBytes \in Int

VARIABLES usedRecords, usedBytes

admissionVars == <<usedRecords, usedBytes>>

AdmissionInit == usedRecords = 0 /\ usedBytes = 0

\* Mutant: the test looks at what is in use and not at what is asked for.
FitsStrictly(records, bytes) ==
    /\ MaxRecords > 0 => usedRecords < MaxRecords
    /\ MaxBytes > 0 => usedBytes < MaxBytes

(***************************************************************************)
(* The two limit tests of TryAcquire.  The calls in src/ pass a length and *)
(* a sum of lengths, so the test for negative arguments never fires.       *)
(***************************************************************************)
Fits(records, bytes) ==
    /\ records >= 0 /\ bytes >= 0
    /\ MaxRecords > 0 => usedRecords + records <= MaxRecords
    /\ MaxBytes > 0 => usedBytes + bytes <= MaxBytes

Acquire(records, bytes) ==
    /\ Fits(records, bytes)
    /\ usedRecords' = usedRecords + records
    /\ usedBytes' = usedBytes + bytes

ClampAtZero(n) == IF n < 0 THEN 0 ELSE n

Release(records, bytes) ==
    /\ usedRecords' = ClampAtZero(usedRecords - records)
    /\ usedBytes' = ClampAtZero(usedBytes - bytes)

=============================================================================
