------------------------------ MODULE Throttle ------------------------------
(***************************************************************************)
(* The byte limiter as the produce handlers use it.  A v2 or batch request *)
(* pays for its body once it has been read; a streamed one pays, after     *)
(* each dec.Decode, for what the decoder has read meanwhile.  The decoder  *)
(* reads ahead: one Decode may pay for the bytes of later records, which   *)
(* then cost nothing.                                                      *)
(*                                                                         *)
(* A body is its length and the offsets at which its records are complete. *)
(* What else the handlers test is the subject of Api, V2Produce, V3Stream  *)
(* and V3Batch; here it may end a request at any time.                     *)
(***************************************************************************)
EXTENDS RateLimiter, Sequences, Weights

CONSTANTS
    Clients,          \* one request each
    Bodies,           \* what they may send: [stream, len, ends]
    MaxRequestBytes   \* cfg.MaxRequestBytes

ASSUME ThrottleAssumption ==
    /\ IsFiniteSet(Clients)
    /\ Bodies \subseteq [stream : BOOLEAN, len : Nat, ends : Seq(Nat)]
    /\ \A b \in Bodies : \A i \in DOMAIN b.ends :
          /\ b.ends[i] <= b.len
          /\ \A j \in 1..i : b.ends[j] <= b.ends[i]
    /\ MaxRequestBytes \in Nat

VARIABLES
    body,    \* body[c]: what c sends
    at,      \* "open", or how the request has left the limiter behind
    read,    \* counter.n of a stream, bodyLen of another request
    taken,   \* how many records have got past the limiter
    paid     \* history: what the limiter has granted to c

throttleVars == <<body, at, read, taken, paid>>

ThrottleInit ==
    /\ RateInit
    /\ body \in [Clients -> Bodies]
    /\ at = [c \in Clients |-> "open"]
    /\ read = [c \in Clients |-> 0]
    /\ taken = [c \in Clients |-> 0]
    /\ paid = [c \in Clients |-> 0]

-----------------------------------------------------------------------------
\* h.allowByteRate(cost) lets the first `records` records of c through.
Pays(c, cost, records) ==
    /\ Grant(cost) \/ Free(cost)
    /\ paid' = [paid EXCEPT ![c] = @ + cost]
    /\ taken' = [taken EXCEPT ![c] = records]

\* It does not, and the handler returns 429.
Refused(c, cost) ==
    /\ Refuse(cost)
    /\ at' = [at EXCEPT ![c] = "refused"]
    /\ UNCHANGED <<taken, paid>>

\* A body is in and within http.MaxBytesReader's limit.
ChargeBody(c) ==
    /\ at[c] = "open" /\ ~body[c].stream
    /\ body[c].len <= MaxRequestBytes
    /\ read' = [read EXCEPT ![c] = body[c].len]
    /\ \/ /\ Pays(c, body[c].len, Len(body[c].ends))
          /\ at' = [at EXCEPT ![c] = "done"]
       \/ Refused(c, body[c].len)
    /\ UNCHANGED body

\* What counter.n may be after the Decode that completes a record: unchanged
\* if the record is in the decoder's buffer, else anything from its end on.
ReadTo(c) ==
    LET end == body[c].ends[taken[c] + 1] IN
    IF end <= read[c] THEN {read[c]}
    ELSE {n \in end..body[c].len : n <= MaxRequestBytes}

\* Mutant: beforeRead is taken after the Decode.
StreamChargeNothing(c) ==
    /\ at[c] = "open" /\ body[c].stream
    /\ taken[c] < Len(body[c].ends)
    /\ \E n \in ReadTo(c) :
          /\ read' = [read EXCEPT ![c] = n]
          /\ Pays(c, 0, taken[c] + 1)
    /\ UNCHANGED <<body, at>>

\* dec.Decode returns a record: allowByteRate(counter.n - beforeRead).
StreamCharge(c) ==
    /\ at[c] = "open" /\ body[c].stream
    /\ taken[c] < Len(body[c].ends)
    /\ \E n \in ReadTo(c) :
          /\ read' = [read EXCEPT ![c] = n]
          /\ \/ Pays(c, n - read[c], taken[c] + 1) /\ UNCHANGED at
             \/ Refused(c, n - read[c])
    /\ UNCHANGED body

\* The request ends without paying for what it has read last: the end of a
\* stream, a body that is too large, broken or malformed, or an error of a
\* record that was paid for.
Leave(c) ==
    /\ at[c] = "open"
    /\ \E n \in read[c]..body[c].len : n <= MaxRequestBytes /\ read' = [read EXCEPT ![c] = n]
    /\ at' = [at EXCEPT ![c] = "left"]
    /\ UNCHANGED <<rateVars, body, taken, paid>>

ThrottleNext ==
    \/ Tick /\ UNCHANGED throttleVars
    \/ \E c \in Clients : ChargeBody(c) \/ StreamCharge(c) \/ Leave(c)

ThrottleSpec == ThrottleInit /\ [][ThrottleNext]_<<rateVars, throttleVars>>

-----------------------------------------------------------------------------
(***************************************************************************)
(* No record reaches Produce unpaid, however the transport cuts the body   *)
(* into reads and the decoder reads ahead: what c has paid covers the body *)
(* up to the end of its last record, and c never pays for more than has    *)
(* been read.  All that the limiter granted was paid by some request, so   *)
(* the bytes of produced records keep to the rate as well.                 *)
(***************************************************************************)
RecordsArePaidFor ==
    /\ \A c \in Clients :
          /\ taken[c] > 0 => body[c].ends[taken[c]] <= paid[c]
          /\ paid[c] <= read[c]
    /\ since[0] = Weight(Clients, paid)

=============================================================================
