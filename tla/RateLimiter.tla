---------------------------- MODULE RateLimiter ----------------------------
(***************************************************************************)
(* The token bucket of internal/ratelimit, which the HTTP layer keeps for  *)
(* requests and for bytes.  Allow holds the mutex from the reading of the  *)
(* clock to the return, so a call is one atomic action.                    *)
(*                                                                         *)
(* Time is counted in ticks and tokens in units such that Rate, the refill *)
(* per tick, is whole; the rounding of float64 is left out.                *)
(***************************************************************************)
EXTENDS Integers

CONSTANTS
    Rate,     \* l.rate, in tokens per tick
    Burst,    \* l.burst, as New stores it
    Costs,    \* what callers may ask for
    Horizon   \* bound: the clock stops here

ASSUME RateAssumption ==
    /\ Rate \in Nat \ {0}
    /\ Burst \in Nat \ {0}
    /\ Costs \subseteq Int
    /\ Horizon \in Nat

VARIABLES
    clock,    \* what time.Now reads
    tokens,   \* l.tokens
    last,     \* l.last
    since     \* history: since[t] is what has been granted from time t on

rateVars == <<clock, tokens, last, since>>

RateInit ==
    /\ clock = 0
    /\ tokens = Burst
    /\ last = 0
    /\ since = [t \in {0} |-> 0]

\* The bucket after the refill at the head of Allow.
Refilled(elapsed) ==
    IF elapsed > 0
      THEN LET sum == tokens + elapsed * Rate IN IF sum > Burst THEN Burst ELSE sum
      ELSE tokens

Grants(cost) == cost > 0 /\ Refilled(clock - last) >= cost
Refuses(cost) == cost > 0 /\ Refilled(clock - last) < cost

\* Mutant: the tokens of a granted call are not taken.
GrantForFree(cost) ==
    /\ Grants(cost)
    /\ tokens' = Refilled(clock - last)
    /\ last' = clock
    /\ since' = [t \in 0..clock |-> since[t] + cost]
    /\ UNCHANGED clock

\* Allow returns true and takes the tokens.
Grant(cost) ==
    /\ Grants(cost)
    /\ tokens' = Refilled(clock - last) - cost
    /\ last' = clock
    /\ since' = [t \in 0..clock |-> since[t] + cost]
    /\ UNCHANGED clock

\* Mutant: the refused call moves last and forgets the refill.
RefuseDropsRefill(cost) ==
    /\ Refuses(cost)
    /\ last' = clock
    /\ UNCHANGED <<clock, tokens, since>>

\* Allow returns false; the refill stays.
Refuse(cost) ==
    /\ Refuses(cost)
    /\ tokens' = Refilled(clock - last)
    /\ last' = clock
    /\ UNCHANGED <<clock, since>>

\* Nothing to pay for: Allow returns true before it takes the lock.
Free(cost) ==
    /\ cost <= 0
    /\ UNCHANGED rateVars

Allow(cost) == Grant(cost) \/ Refuse(cost) \/ Free(cost)

Tick ==
    /\ clock < Horizon
    /\ clock' = clock + 1
    /\ since' = [t \in 0..(clock + 1) |-> IF t <= clock THEN since[t] ELSE 0]
    /\ UNCHANGED <<tokens, last>>

RateNext == Tick \/ \E cost \in Costs : Allow(cost)

RateSpec == RateInit /\ [][RateNext]_rateVars

-----------------------------------------------------------------------------
\* Types; l.tokens never leaves 0..l.burst.
RateTypeOK ==
    /\ clock \in Nat
    /\ tokens \in 0..Burst
    /\ last \in 0..clock
    /\ since \in [0..clock -> Nat]

\* What callers may still be granted now, counting from time t.
Budget(t) == Burst + Rate * (clock - t) - since[t]

(***************************************************************************)
(* Between any past moment and now, Allow has granted at most a full burst *)
(* and what the rate has brought since that moment.                        *)
(***************************************************************************)
GrantsWithinRate == \A t \in 0..clock : Budget(t) >= 0

(***************************************************************************)
(* Allow refuses only a call that would break the rate: counted from some  *)
(* past moment, the grants and this call exceed the burst and the refill.  *)
(***************************************************************************)
RefusalsJustified ==
    \A cost \in Costs : Refuses(cost) => \E t \in 0..clock : cost > Budget(t)

(***************************************************************************)
(* The bucket is exactly the tightest of all those sliding windows.        *)
(***************************************************************************)
BucketIsTightest ==
    LET available == Refilled(clock - last) IN
    /\ \A t \in 0..clock : available <= Budget(t)
    /\ \E t \in 0..clock : available = Budget(t)

RateInvariant == RateTypeOK /\ BucketIsTightest

=============================================================================
