---------------------------- MODULE RecordProofs ----------------------------
(***************************************************************************)
(* What holds for every record on its way to Kafka.  The token bucket is   *)
(* exact for every rate, burst and sequence of calls; however bodies are   *)
(* cut into reads, no record gets past it unpaid.  Every limit that was    *)
(* set holds on both decoders, and a record lands where it was asked for.  *)
(***************************************************************************)
EXTENDS Throttle, Delivery, CountingTheorems

-----------------------------------------------------------------------------
(* The byte limiter. *)

\* The only facts about the product that the proof needs.
LEMMA RateTimes ==
    ASSUME NEW d \in Int, NEW t \in Int
    PROVE  /\ Rate * d \in Int
           /\ Rate * (d + 1 - t) = Rate * (d - t) + Rate
           /\ d * Rate = Rate * d
           /\ Rate * 0 = 0
           /\ d >= 0 => Rate * d >= 0
BY RateAssumption, SMT

\* One tick more refills one Rate more.
LEMMA RateOnce ==
    ASSUME NEW d \in Int, NEW e \in Int, e = d + 1
    PROVE  Rate * e = Rate * d + Rate
BY RateAssumption, SMT

\* A refilled bucket holds between nothing and the burst.
LEMMA RefilledType ==
    ASSUME RateTypeOK
    PROVE  Refilled(clock - last) \in 0..Burst
<1>1. clock - last \in Int /\ (clock - last > 0 => (clock - last) * Rate >= 0)
      /\ (clock - last) * Rate \in Int
  BY RateTimes, RateAssumption DEF RateTypeOK
<1> QED
  BY <1>1, RateAssumption DEF Refilled, RateTypeOK

(***************************************************************************)
(* A call leaves in the bucket what it has found there less its cost, and  *)
(* lowers the budget of every window by its cost.                          *)
(***************************************************************************)
LEMMA CallStep ==
    ASSUME RateInvariant, NEW cost \in Int, Grant(cost) \/ Refuse(cost)
    PROVE  RateInvariant'
<1> DEFINE available == Refilled(clock - last)
           spent == IF Grants(cost) THEN cost ELSE 0
<1>0. RateTypeOK /\ available \in 0..Burst /\ cost \in Int
  BY RefilledType, Zenon DEF RateInvariant
<1>1. /\ clock' = clock /\ last' = clock /\ tokens' = available - spent
      /\ spent \in 0..available
      /\ since' = [t \in 0..clock |-> since[t] + spent]
  <2>1. CASE Grant(cost)
    BY <1>0, <2>1 DEF Grant, Grants
  <2>2. CASE Refuse(cost)
    BY <1>0, <2>2 DEF Refuse, Refuses, Grants, RateTypeOK
  <2> QED
    BY <2>1, <2>2, Zenon
<1> HIDE DEF available, spent
<1>a. spent \in Nat /\ available - spent \in 0..Burst
  BY <1>0, <1>1, RateAssumption
<1>2. RateTypeOK'
  <2>1. since' \in [0..clock -> Nat]
    BY <1>0, <1>1, <1>a DEF RateTypeOK
  <2> QED
    BY <1>0, <1>1, <1>a, <2>1 DEF RateTypeOK
<1>3. Refilled(clock - last)' = available - spent
  <2>1. ~(clock' - last' > 0)
    BY <1>0, <1>1 DEF RateTypeOK
  <2> QED
    BY <1>1, <2>1, Zenon DEF Refilled
<1>4. \A t \in 0..clock : Budget(t)' = Budget(t) - spent /\ Budget(t) \in Int
  <2> TAKE t \in 0..clock
  <2>1. since'[t] = since[t] + spent /\ since[t] \in Nat
    BY <1>0, <1>1, Zenon DEF RateTypeOK
  <2>2. Rate * (clock - t) \in Int /\ Burst \in Int
    BY <1>0, RateAssumption DEF RateTypeOK
  <2>3. Budget(t)' = Burst + Rate * (clock - t) - since'[t]
    BY <1>1, Zenon DEF Budget
  <2> QED
    BY <1>a, <2>1, <2>2, <2>3 DEF Budget
<1>5. /\ \A t \in 0..clock : available <= Budget(t)
      /\ \E t \in 0..clock : available = Budget(t)
  BY Zenon DEF RateInvariant, BucketIsTightest, available
<1>6. /\ \A t \in 0..clock : available - spent <= Budget(t)'
      /\ \E t \in 0..clock : available - spent = Budget(t)'
  BY <1>0, <1>1, <1>4, <1>5
<1>7. BucketIsTightest'
  <2>1. /\ \A t \in 0..clock' : Refilled(clock - last)' <= Budget(t)'
        /\ \E t \in 0..clock' : Refilled(clock - last)' = Budget(t)'
    BY <1>1, <1>3, <1>6, Zenon
  <2> QED
    BY <2>1, Zenon DEF BucketIsTightest
<1> QED
  BY <1>2, <1>7, Zenon DEF RateInvariant

(***************************************************************************)
(* Time raises the budget of every window by the rate and opens one more,  *)
(* whose budget is a full burst; the bucket fills by the rate up to there. *)
(***************************************************************************)
LEMMA TickStep ==
    ASSUME RateInvariant, Tick
    PROVE  RateInvariant'
<1> DEFINE available == Refilled(clock - last)
           filled == IF available + Rate > Burst THEN Burst ELSE available + Rate
<1>0. RateTypeOK /\ available \in 0..Burst /\ Rate \in Nat /\ Burst \in Nat
  BY RefilledType, RateAssumption, Zenon DEF RateInvariant
<1>1. /\ clock' = clock + 1 /\ last' = last /\ tokens' = tokens
      /\ since' = [t \in 0..(clock + 1) |-> IF t <= clock THEN since[t] ELSE 0]
  BY Zenon DEF Tick
<1>2. RateTypeOK'
  BY <1>0, <1>1 DEF RateTypeOK
<1>3. Refilled(clock - last)' = filled
  <2>1. (clock + 1 - last) * Rate = (clock - last) * Rate + Rate
        /\ (clock - last) * Rate \in Int
        /\ (clock = last => (clock - last) * Rate = 0)
        /\ (clock - last) * Rate >= 0
    <3>1. clock \in Int /\ last \in Int /\ clock - last \in Int /\ clock + 1 - last \in Int
          /\ clock - last >= 0
      BY <1>0 DEF RateTypeOK
    <3>2. Rate * (clock + 1 - last) = Rate * (clock - last) + Rate
      BY <3>1, RateTimes, Zenon
    <3>3. /\ (clock + 1 - last) * Rate = Rate * (clock + 1 - last)
          /\ (clock - last) * Rate = Rate * (clock - last)
          /\ Rate * (clock - last) \in Int
          /\ Rate * (clock - last) >= 0
      BY <3>1, RateTimes, Zenon
    <3>4. clock = last => (clock - last) * Rate = 0
      BY <3>1, <1>0
    <3> QED
      BY <3>2, <3>3, <3>4, Zenon
  <2> DEFINE u == (clock - last) * Rate
             v == (clock + 1 - last) * Rate
  <2>2. v = u + Rate /\ u \in Int /\ u >= 0 /\ (clock = last => u = 0)
    BY <2>1, Zenon
  <2>3. clock' - last' = clock + 1 - last /\ clock + 1 - last > 0 /\ clock - last >= 0
    BY <1>0, <1>1 DEF RateTypeOK
  <2>4. Refilled(clock - last)' = IF tokens + v > Burst THEN Burst ELSE tokens + v
    BY <1>1, <2>3, Zenon DEF Refilled
  <2>5. available = IF clock - last > 0
                      THEN IF tokens + u > Burst THEN Burst ELSE tokens + u
                      ELSE tokens
    BY Zenon DEF Refilled
  <2>6. tokens \in 0..Burst /\ clock \in Int /\ last \in Int
    BY <1>0 DEF RateTypeOK
  <2> HIDE DEF u, v
  <2> QED
    BY <1>0, <2>2, <2>3, <2>4, <2>5, <2>6
<1>4. \A t \in 0..clock : Budget(t)' = Budget(t) + Rate /\ Budget(t) \in Int
  <2> TAKE t \in 0..clock
  <2>1. since'[t] = since[t] /\ since[t] \in Nat
    BY <1>0, <1>1 DEF RateTypeOK
  <2>2. clock \in Int /\ t \in Int /\ Rate * (clock - t) \in Int
    BY <1>0 DEF RateTypeOK
  <2>3. clock' - t \in Int /\ clock - t \in Int /\ clock' - t = (clock - t) + 1
    BY <1>0, <1>1 DEF RateTypeOK
  <2>4. Rate * (clock' - t) = Rate * (clock - t) + Rate
    BY <2>3, RateOnce, Zenon
  <2>5. Budget(t)' = Burst + Rate * (clock' - t) - since'[t]
    BY Zenon DEF Budget
  <2> QED
    BY <1>0, <2>1, <2>2, <2>4, <2>5 DEF Budget
<1>a. PICK now \in Nat : now = clock + 1
  BY <1>0 DEF RateTypeOK
<1>5. Budget(now)' = Burst
  <2>1. since'[now] = 0
    BY <1>0, <1>1, <1>a DEF RateTypeOK
  <2>2. now - now = 0 /\ Rate * 0 = 0
    BY <1>0
  <2>3. Budget(now)' = Burst + Rate * (now - now) - since'[now]
    BY <1>1, <1>a, Zenon DEF Budget
  <2> QED
    BY <1>0, <2>1, <2>2, <2>3
<1>6. /\ \A t \in 0..clock : available <= Budget(t)
      /\ \E t \in 0..clock : available = Budget(t)
  BY Zenon DEF RateInvariant, BucketIsTightest
<1>7. 0..(clock + 1) = (0..clock) \cup {now} /\ clock \in Nat
  BY <1>0, <1>a DEF RateTypeOK
<1>8. filled <= available + Rate /\ filled <= Burst
      /\ (filled = Burst \/ filled = available + Rate)
  BY <1>0
<1> HIDE DEF available, filled
<1>9. \A t \in 0..(clock + 1) : filled <= Budget(t)'
  <2>1. \A t \in 0..clock : filled <= Budget(t)'
    <3> TAKE t \in 0..clock
    <3>1. available <= Budget(t) /\ Budget(t)' = Budget(t) + Rate /\ Budget(t) \in Int
      BY <1>4, <1>6, Zenon
    <3>2. filled \in Int /\ available \in Int
      BY <1>0, <1>8
    <3> QED
      BY <1>0, <1>8, <3>1, <3>2
  <2> QED
    BY <1>5, <1>7, <1>8, <2>1, Zenon
<1>10. \E t \in 0..(clock + 1) : filled = Budget(t)'
  <2>1. CASE filled = Burst
    BY <1>5, <1>7, <2>1, Zenon
  <2>2. CASE filled = available + Rate
    BY <1>4, <1>6, <1>7, <2>2, Zenon
  <2> QED
    BY <1>8, <2>1, <2>2, Zenon
<1>11. BucketIsTightest'
  <2>1. /\ \A t \in 0..clock' : Refilled(clock - last)' <= Budget(t)'
        /\ \E t \in 0..clock' : Refilled(clock - last)' = Budget(t)'
    BY <1>1, <1>3, <1>9, <1>10, Zenon
  <2> QED
    BY <2>1, Zenon DEF BucketIsTightest
<1> QED
  BY <1>2, <1>11, Zenon DEF RateInvariant

(***************************************************************************)
(* NewLimiter starts with a full bucket, and one window.                   *)
(***************************************************************************)
LEMMA InitStep ==
    ASSUME RateInit
    PROVE  RateInvariant
<1>1. RateTypeOK
  BY RateAssumption DEF RateInit, RateTypeOK
<1>2. Refilled(clock - last) = Burst /\ Budget(0) = Burst /\ 0..clock = {0}
  BY RateAssumption, RateTimes DEF RateInit, Refilled, Budget
<1>3. BucketIsTightest
  BY <1>2, RateAssumption DEF BucketIsTightest
<1> QED
  BY <1>1, <1>3, Zenon DEF RateInvariant

(***************************************************************************)
(* A bucket that is the tightest window grants what every window affords,  *)
(* and refuses what one of them does not.                                  *)
(***************************************************************************)
LEMMA TightestIsExact ==
    ASSUME RateInvariant
    PROVE  GrantsWithinRate /\ RefusalsJustified
<1>1. Refilled(clock - last) \in 0..Burst
  BY RefilledType, Zenon DEF RateInvariant
<1>2. \A t \in 0..clock : Budget(t) \in Int
  <2> TAKE t \in 0..clock
  <2>1. Rate * (clock - t) \in Int /\ since[t] \in Nat
    BY RateAssumption DEF RateInvariant, RateTypeOK
  <2> QED
    BY <2>1, RateAssumption DEF Budget
<1>3. GrantsWithinRate
  BY <1>1, <1>2, RateAssumption DEF RateInvariant, BucketIsTightest, GrantsWithinRate
<1>4. RefusalsJustified
  BY <1>1, <1>2, RateAssumption, Zenon DEF RateInvariant, BucketIsTightest,
     RefusalsJustified, Refuses
<1> QED
  BY <1>3, <1>4, Zenon

(***************************************************************************)
(* After any sequence of Allow calls the bucket holds what the tightest of *)
(* all windows leaves: the inductive invariant of the limiter.             *)
(***************************************************************************)
THEOREM RateInvariantHolds == RateSpec => []RateInvariant
<1>1. RateInit => RateInvariant
  BY InitStep, Zenon
<1>2. RateInvariant /\ [RateNext]_rateVars => RateInvariant'
  <2> SUFFICES ASSUME RateInvariant, [RateNext]_rateVars PROVE RateInvariant'
    BY Zenon
  <2>1. CASE UNCHANGED rateVars
    BY <2>1, Zenon DEF rateVars, RateInvariant, RateTypeOK, BucketIsTightest, Refilled, Budget
  <2> QED
    BY <2>1, CallStep, TickStep, RateAssumption, Zenon DEF RateNext, Allow, Free
<1> QED
  BY <1>1, <1>2, PTL DEF RateSpec

(***************************************************************************)
(* Whatever the rate and the burst, no window ever gets more than its due, *)
(* and no call is refused that every window could still afford.            *)
(***************************************************************************)
THEOREM RateExact == RateSpec => [](GrantsWithinRate /\ RefusalsJustified)
BY TightestIsExact, RateInvariantHolds, PTL

-----------------------------------------------------------------------------
ThrottleTypeOK ==
    /\ body \in [Clients -> Bodies]
    /\ at \in [Clients -> {"open", "done", "left", "refused"}]
    /\ read \in [Clients -> Nat]
    /\ taken \in [Clients -> Nat]
    /\ paid \in [Clients -> Nat]

\* A request that goes on has paid for all that it has read, which is nothing
\* if it does not stream, and the records that are through lie within what was
\* paid.
Settled(c) ==
    /\ at[c] = "open" => paid[c] = read[c]
    /\ at[c] = "open" /\ ~body[c].stream => read[c] = 0
    /\ paid[c] <= read[c]
    /\ taken[c] <= Len(body[c].ends)
    /\ taken[c] > 0 => body[c].ends[taken[c]] <= paid[c]

(***************************************************************************)
(* The inductive invariant: the bucket is the tightest window, requests    *)
(* are settled, and what was granted is what was paid.                     *)
(***************************************************************************)
ThrottleInvariant ==
    /\ RateInvariant
    /\ ThrottleTypeOK
    /\ \A c \in Clients : Settled(c)
    /\ since[0] = Weight(Clients, paid)

\* A body has a length, and record ends that lie within it.
LEMMA BodyShape ==
    ASSUME ThrottleTypeOK, NEW c \in Clients
    PROVE  /\ body[c].stream \in BOOLEAN /\ body[c].len \in Nat /\ body[c].ends \in Seq(Nat)
           /\ Len(body[c].ends) \in Nat
           /\ \A i \in 1..Len(body[c].ends) : body[c].ends[i] \in Nat /\ body[c].ends[i] <= body[c].len
<1>1. body[c] \in Bodies
  BY Zenon DEF ThrottleTypeOK
<1>2. body[c] \in [stream : BOOLEAN, len : Nat, ends : Seq(Nat)]
  BY <1>1, ThrottleAssumption, Zenon
<1>3. body[c].stream \in BOOLEAN /\ body[c].len \in Nat /\ body[c].ends \in Seq(Nat)
  BY <1>2, Zenon
<1>4. DOMAIN body[c].ends = 1..Len(body[c].ends) /\ Len(body[c].ends) \in Nat
  BY <1>3
<1>5. \A i \in DOMAIN body[c].ends : body[c].ends[i] <= body[c].len
  BY <1>1, ThrottleAssumption, Zenon
<1>6. \A i \in DOMAIN body[c].ends : body[c].ends[i] \in Nat
  BY <1>3
<1> QED
  BY <1>3, <1>4, <1>5, <1>6, Zenon

(***************************************************************************)
(* What a call of Allow grants is added to the oldest window.              *)
(***************************************************************************)
LEMMA PaysStep ==
    ASSUME ThrottleInvariant, NEW c \in Clients, NEW cost \in Nat, NEW records,
           Pays(c, cost, records)
    PROVE  /\ RateInvariant'
           /\ paid' = [paid EXCEPT ![c] = @ + cost] /\ paid' \in [Clients -> Nat]
           /\ since'[0] = Weight(Clients, paid')
<1>1. paid \in [Clients -> Nat] /\ paid' = [paid EXCEPT ![c] = @ + cost]
  BY Zenon DEF Pays, ThrottleInvariant, ThrottleTypeOK
<1>2. paid' \in [Clients -> Nat]
  BY <1>1
<1>3. RateInvariant' /\ since'[0] = since[0] + cost
  <2>1. CASE Grant(cost)
    <3>1. 0 \in 0..clock /\ since' = [t \in 0..clock |-> since[t] + cost]
      BY <2>1 DEF Grant, ThrottleInvariant, RateInvariant, RateTypeOK
    <3> QED
      BY <2>1, <3>1, CallStep DEF ThrottleInvariant
  <2>2. CASE Free(cost)
    <3>1. cost = 0 /\ UNCHANGED rateVars
      BY <2>2 DEF Free
    <3>2. RateInvariant'
      BY <3>1, Zenon DEF ThrottleInvariant, rateVars, RateInvariant, RateTypeOK, BucketIsTightest,
                  Refilled, Budget
    <3>3. since[0] \in Nat
      BY DEF ThrottleInvariant, RateInvariant, RateTypeOK
    <3> QED
      BY <3>1, <3>2, <3>3 DEF rateVars
  <2> QED
    BY <2>1, <2>2, Zenon DEF Pays
<1>4. Weight(Clients, paid') = Weight(Clients, paid) + cost
  <2>1. IsFiniteSet(Clients)
    BY ThrottleAssumption, Zenon
  <2>2. paid'[c] = paid[c] + cost /\ \A d \in Clients \ {c} : paid'[d] = paid[d]
    BY <1>1, Zenon
  <2>3. paid \in [Clients -> Nat]
    BY <1>1, Zenon
  <2> QED
    BY <1>2, <2>1, <2>2, <2>3, WeightRaise, Zenon
<1> QED
  BY <1>1, <1>2, <1>3, <1>4, Zenon DEF ThrottleInvariant

\* A refused call changes neither what was granted nor what was paid.
LEMMA RefusedStep ==
    ASSUME ThrottleInvariant, NEW c \in Clients, NEW cost \in Nat, Refused(c, cost)
    PROVE  RateInvariant' /\ since'[0] = Weight(Clients, paid')
<1>1. RateInvariant'
  BY CallStep DEF ThrottleInvariant, Refused
<1> QED
  BY <1>1, Zenon DEF ThrottleInvariant, Refused, Refuse

(***************************************************************************)
(* One step per way of calling the limiter, and per way of not calling it. *)
(***************************************************************************)
LEMMA ChargeBodyStep ==
    ASSUME ThrottleInvariant, NEW c \in Clients, ChargeBody(c)
    PROVE  ThrottleInvariant'
<1> DEFINE len == body[c].len
           n == Len(body[c].ends)
<1>0. ThrottleTypeOK /\ \A d \in Clients : Settled(d)
  BY Zenon DEF ThrottleInvariant
<1>1. len \in Nat /\ n \in Nat /\ (n > 0 => body[c].ends[n] \in Nat /\ body[c].ends[n] <= len)
  BY <1>0, BodyShape
<1>2. body' = body /\ read' = [read EXCEPT ![c] = len] /\ at[c] = "open" /\ ~body[c].stream
  BY Zenon DEF ChargeBody
<1>3. paid[c] = 0 /\ taken[c] \in Nat
  BY <1>0, <1>2, Zenon DEF Settled, ThrottleTypeOK
<1>4. CASE Pays(c, len, n) /\ at' = [at EXCEPT ![c] = "done"]
  <2>1. /\ RateInvariant' /\ since'[0] = Weight(Clients, paid')
        /\ paid' = [paid EXCEPT ![c] = @ + len] /\ paid' \in [Clients -> Nat]
    BY <1>1, <1>4, PaysStep, Zenon
  <2>2. taken' = [taken EXCEPT ![c] = n]
    BY <1>4, Zenon DEF Pays
  <2>3. ThrottleTypeOK'
    BY <1>0, <1>1, <1>2, <1>4, <2>1, <2>2, Zenon DEF ThrottleTypeOK
  <2>4. ASSUME NEW d \in Clients PROVE Settled(d)'
    <3>1. CASE d = c
      <4>1. at'[c] = "done" /\ paid'[c] = len /\ read'[c] = len /\ taken'[c] = n
        BY <1>0, <1>1, <1>2, <1>3, <1>4, <2>1, <2>2 DEF ThrottleTypeOK
      <4> QED
        BY <1>1, <1>2, <3>1, <4>1 DEF Settled
    <3>2. CASE d # c
      BY <1>0, <1>2, <1>4, <2>1, <2>2, <3>2, Zenon DEF Settled, ThrottleTypeOK
    <3> QED
      BY <3>1, <3>2, Zenon
  <2> QED
    BY <2>1, <2>3, <2>4, Zenon DEF ThrottleInvariant
<1>5. CASE Refused(c, len)
  <2>1. RateInvariant' /\ since'[0] = Weight(Clients, paid')
    BY <1>1, <1>5, RefusedStep, Zenon
  <2>2. at' = [at EXCEPT ![c] = "refused"] /\ taken' = taken /\ paid' = paid
    BY <1>5, Zenon DEF Refused
  <2>3. ThrottleTypeOK'
    BY <1>0, <1>1, <1>2, <2>2, Zenon DEF ThrottleTypeOK
  <2>4. ASSUME NEW d \in Clients PROVE Settled(d)'
    BY <1>0, <1>1, <1>2, <1>3, <2>2 DEF Settled, ThrottleTypeOK
  <2> QED
    BY <2>1, <2>3, <2>4, Zenon DEF ThrottleInvariant
<1> QED
  BY <1>4, <1>5, Zenon DEF ChargeBody

\* A streamed record that is charged, or refused, preserves the invariant.
LEMMA StreamChargeStep ==
    ASSUME ThrottleInvariant, NEW c \in Clients, StreamCharge(c)
    PROVE  ThrottleInvariant'
<1>0. ThrottleTypeOK /\ \A d \in Clients : Settled(d)
  BY Zenon DEF ThrottleInvariant
<1>1. PICK n \in ReadTo(c) :
         /\ read' = [read EXCEPT ![c] = n]
         /\ \/ Pays(c, n - read[c], taken[c] + 1) /\ UNCHANGED at
            \/ Refused(c, n - read[c])
  BY Zenon DEF StreamCharge
<1> DEFINE k == taken[c] + 1
           end == body[c].ends[k]
<1>2. body' = body /\ at[c] = "open" /\ body[c].stream /\ taken[c] < Len(body[c].ends)
  BY Zenon DEF StreamCharge
<1>3. /\ taken[c] \in Nat /\ k \in 1..Len(body[c].ends) /\ end \in Nat
      /\ read[c] \in Nat /\ paid[c] = read[c] /\ body[c].len \in Nat
  <2>1. taken[c] \in Nat /\ read[c] \in Nat /\ paid[c] = read[c]
    BY <1>0, <1>2, Zenon DEF ThrottleTypeOK, Settled
  <2>2. k \in 1..Len(body[c].ends)
    BY <1>0, <1>2, <2>1, BodyShape, SMTT(30), ZenonT(60)
  <2> QED
    BY <1>0, <2>1, <2>2, BodyShape, Zenon
<1>4. n \in Nat /\ n >= read[c] /\ end <= n
  BY <1>3, SMTT(30), ZenonT(60) DEF ReadTo
<1> HIDE DEF end
<1>5. CASE Pays(c, n - read[c], k) /\ UNCHANGED at
  <2>0. n - read[c] \in Nat
    BY <1>3, <1>4
  <2>1. /\ RateInvariant' /\ since'[0] = Weight(Clients, paid')
        /\ paid' = [paid EXCEPT ![c] = @ + (n - read[c])] /\ paid' \in [Clients -> Nat]
    BY <1>5, <2>0, PaysStep, Zenon
  <2>2. taken' = [taken EXCEPT ![c] = k]
    BY <1>5, Zenon DEF Pays
  <2>3. ThrottleTypeOK'
    BY <1>0, <1>1, <1>2, <1>3, <1>4, <1>5, <2>1, <2>2 DEF ThrottleTypeOK
  <2>4. ASSUME NEW d \in Clients PROVE Settled(d)'
    <3>1. CASE d = c
      <4>1. paid'[c] = n /\ read'[c] = n /\ taken'[c] = k
        BY <1>0, <1>1, <1>3, <1>4, <2>1, <2>2 DEF ThrottleTypeOK
      <4>2. body[c].ends[k] <= n
        BY <1>4, Zenon DEF end
      <4> QED
        BY <1>2, <1>3, <1>4, <3>1, <4>1, <4>2, SMTT(30), ZenonT(60) DEF Settled
    <3>2. CASE d # c
      BY <1>0, <1>1, <1>2, <1>5, <2>1, <2>2, <3>2, Zenon DEF Settled, ThrottleTypeOK
    <3> QED
      BY <3>1, <3>2, Zenon
  <2> QED
    BY <2>1, <2>3, <2>4, Zenon DEF ThrottleInvariant
<1>6. CASE Refused(c, n - read[c])
  <2>1. RateInvariant' /\ since'[0] = Weight(Clients, paid')
    BY <1>3, <1>4, <1>6, RefusedStep
  <2>2. at' = [at EXCEPT ![c] = "refused"] /\ taken' = taken /\ paid' = paid
    BY <1>6, Zenon DEF Refused
  <2>3. ThrottleTypeOK'
    BY <1>0, <1>1, <1>2, <1>4, <2>2, Zenon DEF ThrottleTypeOK
  <2>4. ASSUME NEW d \in Clients PROVE Settled(d)'
    BY <1>0, <1>1, <1>2, <1>3, <1>4, <2>2, Zenon DEF Settled, ThrottleTypeOK
  <2> QED
    BY <2>1, <2>3, <2>4, Zenon DEF ThrottleInvariant
<1> QED
  BY <1>1, <1>5, <1>6, Zenon

\* A request that ends without paying preserves the invariant.
LEMMA LeaveStep ==
    ASSUME ThrottleInvariant, NEW c \in Clients, Leave(c)
    PROVE  ThrottleInvariant'
<1>0. ThrottleTypeOK /\ \A d \in Clients : Settled(d)
  BY Zenon DEF ThrottleInvariant
<1>1. PICK n \in read[c]..body[c].len : read' = [read EXCEPT ![c] = n]
  BY Zenon DEF Leave
<1>2. at' = [at EXCEPT ![c] = "left"] /\ UNCHANGED <<rateVars, body, taken, paid>>
  BY Zenon DEF Leave
<1>3. n \in Nat /\ read[c] \in Nat /\ n >= read[c] /\ paid[c] \in Nat
  BY <1>0, <1>1, BodyShape DEF ThrottleTypeOK
<1>4. ThrottleTypeOK'
  BY <1>0, <1>1, <1>2, <1>3, Zenon DEF ThrottleTypeOK
<1>5. ASSUME NEW d \in Clients PROVE Settled(d)'
  BY <1>0, <1>1, <1>2, <1>3 DEF Settled, ThrottleTypeOK
<1>6. RateInvariant' /\ since'[0] = Weight(Clients, paid')
  BY <1>2, Zenon DEF ThrottleInvariant, rateVars, RateInvariant, RateTypeOK, BucketIsTightest,
              Refilled, Budget
<1> QED
  BY <1>4, <1>5, <1>6, Zenon DEF ThrottleInvariant

(***************************************************************************)
(* The handlers and the limiter together keep the invariant, for any       *)
(* number of requests and any bodies.                                      *)
(***************************************************************************)
THEOREM ThrottleInvariantHolds == ThrottleSpec => []ThrottleInvariant
<1>1. ThrottleInit => ThrottleInvariant
  <2> SUFFICES ASSUME ThrottleInit PROVE ThrottleInvariant
    BY Zenon
  <2>1. RateInvariant
    BY InitStep, Zenon DEF ThrottleInit
  <2>2. ThrottleTypeOK
    BY Zenon DEF ThrottleInit, ThrottleTypeOK
  <2>3. ASSUME NEW c \in Clients PROVE Settled(c)
    <3>1. Len(body[c].ends) \in Nat
      BY <2>2, BodyShape, Zenon
    <3> QED
      BY <3>1 DEF ThrottleInit, Settled
  <2>4. since[0] = 0 /\ Weight(Clients, paid) = 0
    BY WeightZero, Zenon DEF ThrottleInit, RateInit
  <2> QED
    BY <2>1, <2>2, <2>3, <2>4, Zenon DEF ThrottleInvariant
<1>2. ThrottleInvariant /\ [ThrottleNext]_<<rateVars, throttleVars>> => ThrottleInvariant'
  <2> SUFFICES ASSUME ThrottleInvariant, [ThrottleNext]_<<rateVars, throttleVars>>
               PROVE  ThrottleInvariant'
    BY Zenon
  <2>1. CASE UNCHANGED <<rateVars, throttleVars>>
    BY <2>1, Zenon DEF rateVars, throttleVars, ThrottleInvariant, RateInvariant, RateTypeOK,
                BucketIsTightest, Refilled, Budget, ThrottleTypeOK, Settled
  <2>2. CASE Tick /\ UNCHANGED throttleVars
    <3>1. RateInvariant'
      BY <2>2, TickStep, Zenon DEF ThrottleInvariant
    <3>2. since'[0] = since[0]
      BY <2>2 DEF Tick, ThrottleInvariant, RateInvariant, RateTypeOK
    <3>3. ThrottleTypeOK' /\ (\A c \in Clients : Settled(c))' /\ paid' = paid
      BY <2>2, Zenon DEF throttleVars, ThrottleInvariant, ThrottleTypeOK, Settled
    <3> QED
      BY <3>1, <3>2, <3>3, Zenon DEF ThrottleInvariant
  <2> QED
    BY <2>1, <2>2, ChargeBodyStep, StreamChargeStep, LeaveStep, Zenon DEF ThrottleNext
<1> QED
  BY <1>1, <1>2, PTL DEF ThrottleSpec

(***************************************************************************)
(* No record reaches Produce unpaid, however bodies are cut into reads.    *)
(***************************************************************************)
THEOREM RecordsPaid == ThrottleSpec => []RecordsArePaidFor
<1>1. ThrottleInvariant => RecordsArePaidFor
  BY Zenon DEF ThrottleInvariant, Settled, RecordsArePaidFor
<1> QED
  BY <1>1, ThrottleInvariantHolds, PTL

(***************************************************************************)
(* byteRateLimiter, with the handlers as its callers: over every window no *)
(* more bytes are granted than the rate and the burst allow.               *)
(***************************************************************************)
THEOREM BytesWithinRate == ThrottleSpec => []GrantsWithinRate
<1>1. ThrottleInvariant => GrantsWithinRate
  BY TightestIsExact, Zenon DEF ThrottleInvariant
<1> QED
  BY <1>1, ThrottleInvariantHolds, PTL

(***************************************************************************)
(* byteRateLimiter, with the handlers as its callers: nothing is refused   *)
(* that every window could still afford.                                   *)
(***************************************************************************)
THEOREM BytesRefusedJustly == ThrottleSpec => []RefusalsJustified
<1>1. ThrottleInvariant => RefusalsJustified
  BY TightestIsExact, Zenon DEF ThrottleInvariant
<1> QED
  BY <1>1, ThrottleInvariantHolds, PTL

-----------------------------------------------------------------------------
(* The limits. *)

Environments == [Settings -> Int \cup {Unset, Garbage}]

\* What LoadFromEnv makes of the environment.
Loaded == [s \in Settings |-> EnvInt(s)]

LimitsInv ==
    /\ env \in Environments
    /\ phase \in {"boot", "refused", "loaded", "serving"}
    /\ phase = "loaded" => cfg = Loaded /\ Valid(Loaded)
    /\ phase = "serving" =>
          /\ cfg = WithDefaults(Loaded) /\ Valid(Loaded)
          /\ burst = [requests |-> IF cfg.requestRate > 0 THEN RequestBurst(cfg) ELSE 0,
                      bytes |-> IF cfg.byteRate > 0 THEN ByteBurst(cfg) ELSE 0]
    /\ verdict # NoVerdict =>
          /\ phase = "serving"
          /\ \E p \in {verdict.post[1]} :
                verdict = [post |-> <<p>>, v2 |-> DecodeV2(p, V2Limits), v3 |-> DecodeV3(p, cfg)]

SettingNames == {"bytes", "records", "recordBytes", "keyBytes", "headers", "headerBytes",
                 "requestRate", "requestBurst", "byteRate", "byteBurst",
                 "bufferedRecords", "bufferedBytes"}

LEMMA SettingsAre == Settings = SettingNames /\ Default \in [SettingNames -> Int]
BY DEF Settings, SettingNames, Default

LEMMA LoadedType ==
    ASSUME env \in Environments
    PROVE  /\ Loaded \in [SettingNames -> Int]
           /\ \A s \in SettingNames : Loaded[s] = Asked(s)
BY SettingsAre DEF Environments, Loaded, EnvInt, Asked

\* Once defaulted, always defaulted: the second and the third layer add nothing.
LEMMA WithDefaultsIdempotent ==
    ASSUME NEW c \in [SettingNames -> Int]
    PROVE  /\ WithDefaults(c) \in [SettingNames -> Int]
           /\ WithDefaults(WithDefaults(c)) = WithDefaults(c)
           /\ \A s \in SettingNames : c[s] > 0 => WithDefaults(c)[s] = c[s]
           /\ \A s \in {"requestRate", "requestBurst", "byteRate", "byteBurst"} :
                 WithDefaults(c)[s] = c[s]
<1> DEFINE Limited == {"bytes", "records", "recordBytes", "keyBytes", "headers", "headerBytes"}
           d == WithDefaults(c)
<1>1. ASSUME NEW s \in SettingNames
      PROVE  /\ d[s] \in Int
             /\ s \in Limited => d[s] > 0
             /\ s \notin Limited => d[s] = c[s]
             /\ c[s] > 0 => d[s] = c[s]
  BY SettingsAre DEF WithDefaults, SettingNames
<1>2. d \in [SettingNames -> Int]
  BY <1>1, SettingsAre DEF WithDefaults
<1>3. WithDefaults(d) = d
  <2>1. ASSUME NEW s \in SettingNames PROVE WithDefaults(d)[s] = d[s]
    <3>1. ~(s \in Limited /\ d[s] <= 0)
      BY <1>1
    <3> HIDE DEF d
    <3> QED
      BY <3>1, SettingsAre DEF WithDefaults
  <2>2. WithDefaults(d) \in [SettingNames -> Int]
    <3>1. /\ WithDefaults(d) = [s \in SettingNames |-> WithDefaults(d)[s]]
      BY SettingsAre DEF WithDefaults
    <3> HIDE DEF d
    <3> QED
      BY <1>2, <2>1, <3>1
  <2> HIDE DEF d
  <2> QED
    BY <1>2, <2>1, <2>2
<1> QED
  BY <1>1, <1>2, <1>3 DEF SettingNames

LEMMA LimitsInitInv ==
    ASSUME LimitsInit, env \in Environments
    PROVE  LimitsInv
BY DEF LimitsInit, LimitsInv

LEMMA LoadKeeps ==
    ASSUME LimitsInv, LoadFromEnv
    PROVE  LimitsInv'
<1>1. env' = env /\ burst' = burst /\ verdict' = verdict /\ verdict = NoVerdict /\ Loaded' = Loaded
  BY DEF LimitsInv, LoadFromEnv, Loaded, EnvInt
<1>2. \/ phase' = "loaded" /\ cfg' = Loaded /\ Valid(Loaded)
      \/ phase' = "refused"
  BY DEF LoadFromEnv, Loaded
<1>3. Valid(Loaded)' <=> Valid(Loaded)
  BY <1>1 DEF Valid
<1> QED
  BY <1>1, <1>2, <1>3 DEF LimitsInv, Environments

LEMMA NewHandlerKeeps ==
    ASSUME LimitsInv, NewHandlerWithSchema
    PROVE  LimitsInv'
<1>1. /\ env' = env /\ verdict' = verdict /\ verdict = NoVerdict /\ Loaded' = Loaded
      /\ phase' = "serving" /\ cfg = Loaded /\ Valid(Loaded) /\ cfg' = WithDefaults(cfg)
  BY Zenon DEF LimitsInv, NewHandlerWithSchema, Loaded, EnvInt
<1>2. burst' = [requests |-> IF cfg'.requestRate > 0 THEN RequestBurst(cfg') ELSE 0,
                bytes |-> IF cfg'.byteRate > 0 THEN ByteBurst(cfg') ELSE 0]
  BY DEF NewHandlerWithSchema
<1>3. Valid(Loaded)' /\ cfg' = WithDefaults(Loaded)' /\ NoVerdict' = NoVerdict
  BY <1>1 DEF Valid, WithDefaults, NoVerdict
<1>4. env' \in Environments
  BY <1>1 DEF LimitsInv
<1>5. RequestBurst(cfg)' = RequestBurst(cfg') /\ ByteBurst(cfg)' = ByteBurst(cfg')
  BY DEF RequestBurst, ByteBurst
<1> QED
  BY <1>1, <1>2, <1>3, <1>4, <1>5, ZenonT(30) DEF LimitsInv

LEMMA DecodeKeeps ==
    ASSUME LimitsInv, NEW p, Decode(p)
    PROVE  LimitsInv' /\ verdict' # NoVerdict /\ verdict'.post = <<p>>
<1>1. /\ env' = env /\ phase' = phase /\ cfg' = cfg /\ burst' = burst /\ phase = "serving"
      /\ verdict' = [post |-> <<p>>, v2 |-> DecodeV2(p, V2Limits), v3 |-> DecodeV3(p, cfg)]
  BY Zenon DEF Decode
<1>2. Loaded' = Loaded /\ V2Limits' = V2Limits
  BY <1>1 DEF Loaded, EnvInt, V2Limits
<1>3. verdict'.post = <<p>> /\ verdict'.post[1] = p /\ verdict' # NoVerdict
  BY <1>1 DEF NoVerdict
<1>4. verdict' = [post |-> <<p>>, v2 |-> DecodeV2(p, V2Limits'), v3 |-> DecodeV3(p, cfg')]
  BY <1>1, <1>2
<1>5. /\ env' \in Environments /\ cfg' = WithDefaults(Loaded)' /\ Valid(Loaded)'
      /\ burst' = [requests |-> IF cfg.requestRate > 0 THEN RequestBurst(cfg) ELSE 0,
                   bytes |-> IF cfg.byteRate > 0 THEN ByteBurst(cfg) ELSE 0]
  BY <1>1, <1>2 DEF LimitsInv, WithDefaults, Valid
<1> QED
  BY <1>1, <1>3, <1>4, <1>5 DEF LimitsInv, RequestBurst, ByteBurst

\* The limits that both decoders work with are the ones asked for.
LEMMA ServingLimits ==
    ASSUME LimitsInv, phase = "serving"
    PROVE  /\ cfg \in [SettingNames -> Int] /\ V2Limits = cfg
           /\ \A s \in Positive : cfg[s] = Asked(s) /\ Asked(s) > 0
           /\ cfg["headers"] = IF Asked("headers") = 0 THEN 64 ELSE Asked("headers")
           /\ \A s \in {"requestRate", "requestBurst", "byteRate", "byteBurst"} :
                 cfg[s] = Asked(s) /\ Asked(s) >= 0
<1>1. /\ env \in Environments /\ cfg = WithDefaults(Loaded) /\ Valid(Loaded)
  BY Zenon DEF LimitsInv
<1>2. /\ Loaded \in [SettingNames -> Int]
      /\ \A s \in SettingNames : Loaded[s] = Asked(s) /\ Asked(s) \in Int
  BY <1>1, LoadedType
<1>3. \A s \in SettingNames : IF s \in Positive THEN Asked(s) > 0 ELSE Asked(s) >= 0
  BY <1>1, <1>2, SettingsAre DEF Valid
<1> HIDE DEF Loaded
<1>4. /\ cfg \in [SettingNames -> Int] /\ V2Limits = cfg
      /\ \A s \in SettingNames : Asked(s) > 0 => cfg[s] = Asked(s)
      /\ \A s \in {"requestRate", "requestBurst", "byteRate", "byteBurst"} : cfg[s] = Loaded[s]
  BY <1>1, <1>2, WithDefaultsIdempotent, Zenon DEF V2Limits
<1>5. Positive \in SUBSET SettingNames
  BY Zenon DEF Positive, SettingNames
<1>6. \A s \in Positive : cfg[s] = Asked(s) /\ Asked(s) > 0
  BY <1>3, <1>4, <1>5
<1>7. cfg["headers"] = IF Asked("headers") = 0 THEN 64 ELSE Asked("headers")
  <2>1. "headers" \in SettingNames /\ "headers" \notin Positive
    BY DEF SettingNames, Positive
  <2>2. Asked("headers") \in Int /\ Asked("headers") >= 0 /\ Loaded["headers"] = Asked("headers")
    BY <1>2, <1>3, <2>1, Zenon
  <2>3. CASE Asked("headers") = 0
    BY <1>1, <2>2, <2>3, SettingsAre DEF WithDefaults, SettingNames
  <2>4. CASE Asked("headers") # 0
    BY <1>4, <2>1, <2>2, <2>4
  <2> QED
    BY <2>3, <2>4, Zenon
<1>8. ASSUME NEW s \in {"requestRate", "requestBurst", "byteRate", "byteBurst"}
      PROVE  cfg[s] = Asked(s) /\ Asked(s) >= 0
  <2>1. s \in SettingNames /\ s \notin Positive
    BY Zenon DEF SettingNames, Positive
  <2> QED
    BY <1>2, <1>3, <1>4, <2>1, SMTT(30), ZenonT(60)
<1> QED
  BY <1>2, <1>4, <1>6, <1>7, <1>8, ZenonT(30)

\* The verdict, and the limits it was reached with.
LEMMA VerdictFacts ==
    ASSUME LimitsInv, verdict # NoVerdict
    PROVE  LET p == verdict.post[1] IN
           /\ phase = "serving"
           /\ verdict.v2 = DecodeV2(p, cfg) /\ verdict.v3 = DecodeV3(p, cfg)
<1>1. PICK p : /\ phase = "serving" /\ p = verdict.post[1]
               /\ verdict = [post |-> <<p>>, v2 |-> DecodeV2(p, V2Limits), v3 |-> DecodeV3(p, cfg)]
  BY Zenon DEF LimitsInv
<1>2. V2Limits = cfg
  BY <1>1, ServingLimits
<1>3. verdict.v2 = DecodeV2(p, V2Limits) /\ verdict.v3 = DecodeV3(p, cfg)
  BY <1>1
<1> QED
  BY <1>1, <1>2, <1>3

LEMMA PostMeansVerdict ==
    ASSUME verdict.post # <<>>
    PROVE  verdict # NoVerdict
BY DEF NoVerdict

LEMMA WithinAsked ==
    ASSUME LimitsInv
    PROVE  AcceptedWithinAsked
<1> SUFFICES ASSUME verdict.post # <<>>, verdict.v2 \/ verdict.v3
             PROVE  LET p == verdict.post[1] IN
                    /\ p.count <= Asked("records")
                    /\ Bytes(p.record.key) <= Asked("keyBytes")
                    /\ SizeBytes(p.record) <= Asked("recordBytes")
                    /\ Len(p.record.headers) <= IF Asked("headers") = 0 THEN 64 ELSE Asked("headers")
                    /\ \A i \in DOMAIN p.record.headers :
                          HeaderSize(p.record.headers[i]) <= Asked("headerBytes")
  BY Zenon DEF AcceptedWithinAsked
<1> DEFINE p == verdict.post[1]
<1>1. phase = "serving" /\ verdict.v2 = DecodeV2(p, cfg) /\ verdict.v3 = DecodeV3(p, cfg)
  BY PostMeansVerdict, VerdictFacts
<1>2. /\ cfg.records = Asked("records") /\ cfg.keyBytes = Asked("keyBytes")
      /\ cfg.recordBytes = Asked("recordBytes") /\ cfg.headerBytes = Asked("headerBytes")
      /\ cfg.headers = IF Asked("headers") = 0 THEN 64 ELSE Asked("headers")
  BY <1>1, ServingLimits, Zenon DEF Positive
<1>3. DecodeV2(p, cfg) \/ DecodeV3(p, cfg)
  BY <1>1, Zenon
<1>4. /\ p.count <= cfg.records /\ Bytes(p.record.key) <= cfg.keyBytes
      /\ SizeBytes(p.record) <= cfg.recordBytes
      /\ DecodeHeaders(p.record.headers, cfg) \/ DecodeV3Headers(p.record.headers, cfg)
  BY <1>3, Zenon DEF DecodeV2, DecodeV3
<1>5. /\ Len(p.record.headers) <= cfg.headers
      /\ \A i \in DOMAIN p.record.headers : HeaderSize(p.record.headers[i]) <= cfg.headerBytes
  BY <1>4, Zenon DEF DecodeHeaders, DecodeV3Headers
<1> HIDE DEF p
<1> QED
  BY <1>2, <1>4, <1>5, ZenonT(30) DEF p

LEMMA Agreement ==
    ASSUME LimitsInv
    PROVE  RoutesAgree
<1> SUFFICES ASSUME verdict.post # <<>>
             PROVE  LET p == verdict.post[1] IN
                    /\ verdict.v2 => ~Bare(p.record)
                    /\ verdict.v3 /\ ~Bare(p.record) => verdict.v2
                    /\ verdict.v2 /\ p.path = None => verdict.v3
  BY Zenon DEF RoutesAgree
<1> DEFINE p == verdict.post[1]
           h == p.record.headers
<1>1. verdict.v2 = DecodeV2(p, cfg) /\ verdict.v3 = DecodeV3(p, cfg)
  BY PostMeansVerdict, VerdictFacts
<1>2. DecodeHeaders(h, cfg) <=> DecodeV3Headers(h, cfg) /\ ~Bare(p.record)
  BY Zenon DEF DecodeHeaders, DecodeV3Headers, Bare
<1>3. DecodeV2(p, cfg) => ~Bare(p.record)
  BY <1>2, Zenon DEF DecodeV2
<1>4. DecodeV3(p, cfg) /\ ~Bare(p.record) => DecodeV2(p, cfg)
  BY <1>2, Zenon DEF DecodeV2, DecodeV3
<1>5. DecodeV2(p, cfg) /\ p.path = None => DecodeV3(p, cfg)
  BY <1>2, Zenon DEF DecodeV2, DecodeV3
<1> QED
  BY <1>1, <1>3, <1>4, <1>5, Zenon

LEMMA BurstPays ==
    ASSUME LimitsInv
    PROVE  DefaultBurstPays
<1> SUFFICES ASSUME phase = "serving", Asked("byteRate") > 0, Asked("byteBurst") = 0
             PROVE  burst.bytes >= cfg.bytes /\ burst.bytes >= Asked("byteRate")
  BY DEF DefaultBurstPays
<1>1. /\ cfg.byteRate = Asked("byteRate") /\ cfg.byteBurst = 0
      /\ cfg.byteRate \in Int /\ cfg.bytes \in Int
  BY ServingLimits DEF SettingNames
<1>2. burst.bytes = IF cfg.byteRate > cfg.bytes THEN cfg.byteRate ELSE cfg.bytes
  BY <1>1 DEF LimitsInv, ByteBurst
<1> QED
  BY <1>1, <1>2

-----------------------------------------------------------------------------
(* The path. *)

TargetPartitions == Nat \cup {None}

LEMMA WordsDiffer ==
    /\ Word("topics").text = <<"topics">> /\ Word("v3").text = <<"v3">>
    /\ Word("topics") # Word("v3")
<1>1. Word("topics").text = <<"topics">> /\ Word("v3").text = <<"v3">>
  BY DEF Word, Segment
<1>2. <<"topics">> # <<"v3">>
  OBVIOUS
<1> QED
  BY <1>1, <1>2

LEMMA IntOfType == \A w \in DOMAIN IntOf : IntOf[w] \in Int
BY DEF IntOf

\* A path that names a target is one that renders it, on either route.
LEMMA TargetRenders ==
    ASSUME NEW path \in Seq(Segments), Routes(path) \in {"v2", "v3"}, TargetOf(path) # None
    PROVE  /\ Renders(path, TargetOf(path))
           /\ TargetOf(path).topic \in {path[k].text : k \in DOMAIN path}
           /\ TargetOf(path).cluster \in {path[k].text : k \in DOMAIN path} \cup {None}
           /\ TargetOf(path).topic \in Seq(STRING)
           /\ TargetOf(path).partition \in TargetPartitions
           /\ TargetOf(path).partition \in {None} \cup {IntOf[w] : w \in DOMAIN IntOf}
           /\ TargetOf(path).route # "v2" => TargetOf(path).partition = None
<1> DEFINE t == TargetOf(path)
<1>0. ASSUME NEW k \in DOMAIN path
      PROVE  path[k].text \in {path[m].text : m \in DOMAIN path} /\ path[k].text \in Seq(STRING)
  <2>1. path[k] \in Segments
    OBVIOUS
  <2>2. path[k].text \in Seq(STRING)
    BY <2>1 DEF Segments
  <2>3. path[k].text \in {path[m].text : m \in DOMAIN path}
    BY Zenon
  <2> QED
    BY <2>2, <2>3
<1>1. CASE Routes(path) = "v2"
  <2>1. path[1] = Word("topics") /\ t = ProduceTargetFromPath(path)
    BY <1>1, Zenon DEF Routes, TargetOf
  <2>2. /\ Len(path) \in {2, 4} /\ Named(path[2])
        /\ Len(path) = 4 => /\ path[3] = Word("partitions") /\ ParsesAsInt(path[4])
                            /\ IntOf[path[4].text[1]] >= 0
        /\ t = Target(None, path[2].text, IF Len(path) = 4 THEN IntOf[path[4].text[1]] ELSE None, "v2")
    BY <2>1, Zenon DEF ProduceTargetFromPath
  <2>3. 2 \in DOMAIN path /\ t.topic = path[2].text /\ t.route = "v2" /\ t.cluster = None
    BY <2>2 DEF Target
  <2>4. path[2].valid /\ path[2].text # <<>>
    BY <2>2 DEF Named
  <2>5. CASE Len(path) = 2
    <3>1. t.partition = None
      BY <2>2, <2>5 DEF Target
    <3> QED
      BY <1>0, <2>1, <2>3, <2>4, <2>5, <3>1 DEF Renders, RendersV2, Writes, TargetPartitions
  <2>6. CASE Len(path) = 4
    <3>1. PICK w \in DOMAIN IntOf : w = path[4].text[1] /\ ~path[4].escaped /\ Len(path[4].text) = 1
      BY <2>2, <2>6, Zenon DEF ParsesAsInt
    <3>2. path[4].text \in Seq(STRING)
      BY <1>0, <2>6
    <3>3. path[4].text = <<w>>
      BY <3>1, <3>2, SMTT(30), ZenonT(60)
    <3>4. t.partition = IntOf[w] /\ IntOf[w] >= 0 /\ IntOf[w] \in Int /\ path[3] = Word("partitions")
      BY <2>2, <2>6, <3>1, IntOfType, SMTT(30), ZenonT(60) DEF Target
    <3>5. t.partition # None /\ t.partition \in Nat
      BY <3>4, InstanceAssumption
    <3>6. RendersV2(path, t)
      BY <2>1, <2>3, <2>4, <2>6, <3>1, <3>3, <3>4, <3>5, ZenonT(30) DEF RendersV2, Writes
    <3> QED
      BY <1>0, <2>3, <2>4, <3>4, <3>5, <3>6, ZenonT(30) DEF Renders, TargetPartitions
  <2> QED
    BY <2>2, <2>5, <2>6, Zenon
<1>2. CASE Routes(path) = "v3"
  <2>1. path[1] = Word("v3") /\ path[2] = Word("clusters") /\ t = V3ProduceTargetFromPath(path)
    BY <1>2, Zenon DEF Routes, TargetOf
  <2>2. /\ Len(path) = 6 /\ path[4] = Word("topics") /\ Named(path[3]) /\ Named(path[5])
        /\ path[6] \in {Word("records"), Word("records:batch")}
        /\ t = Target(path[3].text, path[5].text, None,
                      IF path[6] = Word("records") THEN "stream" ELSE "batch")
    BY <2>1, Zenon DEF V3ProduceTargetFromPath
  <2>3. /\ 3 \in DOMAIN path /\ 5 \in DOMAIN path
        /\ t.cluster = path[3].text /\ t.topic = path[5].text /\ t.partition = None
    BY <2>2 DEF Target
  <2>4. RendersV3(path, t) /\ t.topic # <<>>
    BY <2>1, <2>2, <2>3, ZenonT(30) DEF RendersV3, Writes, Named
  <2> QED
    BY <1>0, <2>3, <2>4, ZenonT(30) DEF Renders, TargetPartitions
<1> QED
  BY <1>1, <1>2

\* A path renders one topic and one partition.
LEMMA RendersOne ==
    ASSUME NEW path \in Seq(Segments), NEW a, NEW b, Renders(path, a), Renders(path, b)
    PROVE  a.topic = b.topic /\ a.partition = b.partition
<1>1. CASE RendersV2(path, a) /\ RendersV2(path, b)
  <2>1. a.topic = b.topic
    BY <1>1, Zenon DEF RendersV2, Writes
  <2>2. a.partition = None <=> b.partition = None
    BY <1>1 DEF RendersV2
  <2>3. ASSUME a.partition # None PROVE a.partition = b.partition
    <3>1. PICK v \in DOMAIN IntOf : path[4].text = <<v>> /\ IntOf[v] = a.partition
      BY <1>1, <2>3, Zenon DEF RendersV2
    <3>2. PICK w \in DOMAIN IntOf : path[4].text = <<w>> /\ IntOf[w] = b.partition
      BY <1>1, <2>2, <2>3, ZenonT(30) DEF RendersV2
    <3>3. v = w
      BY <3>1, <3>2
    <3> QED
      BY <3>1, <3>2, <3>3
  <2> QED
    BY <2>1, <2>2, <2>3, ZenonT(30)
<1>2. CASE RendersV3(path, a) /\ RendersV3(path, b)
  BY <1>2, ZenonT(30) DEF RendersV3, Writes
<1>3. ~(RendersV2(path, a) /\ RendersV3(path, b)) /\ ~(RendersV3(path, a) /\ RendersV2(path, b))
  BY WordsDiffer, ZenonT(30) DEF RendersV2, RendersV3
<1> QED
  BY <1>1, <1>2, <1>3, Zenon DEF Renders

\* What passes the tests before the body: a produce call that asks for the
\* target of its path, in a topic the allowlist covers.
LEMMA GatePassed ==
    ASSUME NEW q, NEW list \in SUBSET (Seq(STRING) \ {<<>>}), q.path \in Seq(Segments), AsksFor(q),
           Routes(q.path) \notin {"health", "ready"}, GateStatus(q, list) = 0
    PROVE  /\ q.asks # None
           /\ q.asks.topic = TargetOf(q.path).topic /\ q.asks.partition = TargetOf(q.path).partition
           /\ TargetOf(q.path).partition \in TargetPartitions
           /\ TargetOf(q.path).route # "v2" => TargetOf(q.path).partition = None
           /\ list = {} \/ \E e \in list : Listed(TargetOf(q.path).topic, e)
<1> DEFINE t == TargetOf(q.path)
<1>1. Routes(q.path) # "none" /\ t # None /\ TopicAllowed(t.topic, list)
  BY DEF GateStatus
<1>2. Routes(q.path) \in {"v2", "v3"}
  BY <1>1 DEF Routes
<1>3. /\ Renders(q.path, t) /\ t.topic \in {q.path[k].text : k \in DOMAIN q.path}
      /\ t.cluster \in {q.path[k].text : k \in DOMAIN q.path} \cup {None}
      /\ t.partition \in {None} \cup {IntOf[w] : w \in DOMAIN IntOf}
      /\ t.topic \in Seq(STRING) /\ t.partition \in TargetPartitions
      /\ t.route # "v2" => t.partition = None
  BY <1>1, <1>2, TargetRenders
<1> HIDE DEF t
<1>4. q.asks # None
  <2>1. Renders(q.path, [cluster |-> t.cluster, topic |-> t.topic, partition |-> t.partition])
    BY <1>3, ZenonT(30) DEF Renders, RendersV2, RendersV3
  <2> QED
    BY <1>3, <2>1, Zenon DEF AsksFor
<1>5. q.asks.topic = t.topic /\ q.asks.partition = t.partition
  <2>1. Renders(q.path, q.asks)
    BY <1>4, Zenon DEF AsksFor
  <2> QED
    BY <1>3, <2>1, RendersOne, SMTT(30), ZenonT(60)
<1>6. list = {} \/ \E e \in list : Listed(t.topic, e)
  <2>1. CASE t.topic \in AllowedTopics(list)
    BY <2>1, Zenon DEF AllowedTopics, Listed
  <2>2. CASE \E prefix \in AllowedTopicPrefixes(list) : HasPrefix(t.topic, prefix)
    BY <2>2, Zenon DEF AllowedTopicPrefixes, Listed
  <2>3. CASE AllowedTopics(list) = {} /\ AllowedTopicPrefixes(list) = {} /\ list # {}
    <3>1. PICK e \in list : TRUE
      BY <2>3, Zenon
    <3>2. Starred(e)
      BY <2>3 DEF AllowedTopics
    <3>3. Unstarred(e) = <<>>
      BY <2>3, <3>2 DEF AllowedTopicPrefixes
    <3>4. HasPrefix(t.topic, <<>>)
      BY <1>3 DEF HasPrefix
    <3> QED
      BY <3>2, <3>3, <3>4 DEF Listed
  <2> QED
    BY <1>1, <2>1, <2>2, <2>3, ZenonT(30) DEF TopicAllowed
<1> QED
  BY <1>3, <1>4, <1>5, <1>6, Zenon DEF t

-----------------------------------------------------------------------------
(* The partition. *)

\* The n-th of all the partitions is partition n.
LEMMA NthOfAll ==
    /\ IsFiniteSet(0..(Partitions - 1)) /\ Cardinality(0..(Partitions - 1)) = Partitions
    /\ \A n \in 0..(Partitions - 1) : Nth(0..(Partitions - 1), n) = n
<1> DEFINE All == 0..(Partitions - 1)
<1>0. Partitions \in Nat /\ Partitions > 0 /\ 0 \in Int /\ Partitions - 1 \in Int
  BY InstanceAssumption
<1>1. /\ IsFiniteSet(All)
      /\ Cardinality(All) = IF 0 > Partitions - 1 THEN 0 ELSE (Partitions - 1) - 0 + 1
  BY <1>0, FS_Interval, Zenon
<1>2. Cardinality(All) = Partitions
  BY <1>0, <1>1
<1>3. ASSUME NEW n \in All PROVE Nth(All, n) = n
  <2>1. All \in SUBSET Int /\ n \in 0..(Cardinality(All) - 1)
    BY <1>0, <1>2
  <2>2. Nth(All, n) \in All /\ Rank(All, Nth(All, n)) = n
    BY <1>1, <2>1, RankTaken, Zenon
  <2>3. ASSUME NEW x \in All PROVE Rank(All, x) = x
    <3>1. {y \in All : y < x} = 0..(x - 1)
      BY <1>0
    <3>2. x \in Nat /\ 0 \in Int /\ x - 1 \in Int
      BY <1>0
    <3>3. Cardinality(0..(x - 1)) = IF 0 > x - 1 THEN 0 ELSE (x - 1) - 0 + 1
      BY <3>2, FS_Interval, Zenon
    <3>4. Cardinality(0..(x - 1)) = x
      BY <3>2, <3>3
    <3> QED
      BY <3>1, <3>4, Zenon DEF Rank
  <2> HIDE DEF All
  <2> QED
    BY <2>2, <2>3
<1> QED
  BY <1>1, <1>2, <1>3

\* Where kgo puts a record, by the partition it asks for and its key.
LandsAt(wanted, key, writable, where) ==
    IF wanted # None THEN where = IF wanted < Partitions THEN wanted ELSE None
    ELSE IF key # None THEN where = key % Partitions
    ELSE IF writable = {} THEN where = None
    ELSE where \in writable

LEMMA PlaceLands ==
    ASSUME NEW wanted \in Nat \cup {None}, NEW key \in Nat \cup {None},
           NEW writable \in SUBSET (0..(Partitions - 1)),
           NEW offered, NEW n, NEW pick, NEW rec,
           rec = [partition |-> IF wanted = None THEN UnspecifiedPartition ELSE wanted, key |-> key],
           offered = Offered(rec, writable), n = Cardinality(offered),
           pick \in IF n = 0 THEN {0} ELSE Picks(rec, n)
    PROVE  LandsAt(wanted, key, writable, IF pick < n THEN Nth(offered, pick) ELSE None)
<1> DEFINE All == 0..(Partitions - 1)
           where == IF pick < n THEN Nth(offered, pick) ELSE None
<1>0. Partitions \in Nat /\ Partitions > 0 /\ None \notin Int
  BY InstanceAssumption
<1>1. /\ IsFiniteSet(All) /\ Cardinality(All) = Partitions /\ \A m \in All : Nth(All, m) = m
  BY NthOfAll
<1>2. rec.key = key /\ rec.partition = IF wanted = None THEN -1 ELSE wanted
  BY DEF UnspecifiedPartition
<1>3. CASE wanted # None
  <2>1. wanted \in Nat /\ rec.partition = wanted /\ offered = All /\ n = Partitions
    BY <1>1, <1>2, <1>3 DEF Offered, RequiresConsistency
  <2>2. pick = wanted
    BY <1>0, <2>1 DEF Picks
  <2>3. wanted < Partitions => where = wanted
    BY <1>0, <1>1, <2>1, <2>2
  <2>4. ~(wanted < Partitions) => where = None
    BY <2>1, <2>2, Zenon
  <2> HIDE DEF where
  <2>5. LandsAt(wanted, key, writable, where)
    BY <1>3, <2>3, <2>4, Zenon DEF LandsAt
  <2> QED
    BY <2>5 DEF where
<1>4. CASE wanted = None /\ key # None
  <2>1. rec.partition = -1 /\ offered = All /\ n = Partitions
    BY <1>1, <1>2, <1>4, Zenon DEF Offered, RequiresConsistency
  <2>2. pick = key % Partitions
    BY <1>0, <1>2, <1>4, <2>1 DEF Picks, FallbackPicks
  <2>3. key % Partitions \in All
    BY <1>0
  <2>4. where = key % Partitions
    BY <1>0, <1>1, <2>1, <2>2, <2>3
  <2> HIDE DEF where
  <2>5. LandsAt(wanted, key, writable, where)
    BY <1>4, <2>4, Zenon DEF LandsAt
  <2> QED
    BY <2>5 DEF where
<1>5. CASE wanted = None /\ key = None
  <2>1. rec.partition = -1 /\ offered = writable
    BY <1>2, <1>5 DEF Offered, RequiresConsistency
  <2>2. writable \in SUBSET All /\ IsFiniteSet(writable) /\ n \in Nat /\ (n = 0 <=> writable = {})
    BY <1>1, <2>1, FS_Subset, FS_CardinalityType, FS_EmptySet, Zenon
  <2>3. CASE writable = {}
    <3>1. where = None
      <4>1. n = 0 /\ pick = 0
        BY <2>2, <2>3, Zenon
      <4>2. ~(pick < n)
        BY <4>1
      <4> QED
        BY <4>2, Zenon
    <3> HIDE DEF where
    <3>2. LandsAt(wanted, key, writable, where)
      BY <1>5, <2>3, <3>1 DEF LandsAt
    <3> QED
      BY <3>2 DEF where
  <2>4. CASE writable # {}
    <3>1. pick \in 0..(n - 1)
      <4>1. ~(rec.partition >= 0) /\ rec.key = None
        BY <1>2, <1>5, <2>1
      <4>2. Picks(rec, n) = 0..(n - 1)
        BY <4>1, Zenon DEF Picks, FallbackPicks
      <4> QED
        BY <2>2, <2>4, <4>2, Zenon
    <3>2. writable \in SUBSET Int
      BY <1>0, <2>2
    <3>3. Nth(writable, pick) \in writable
      BY <2>1, <2>2, <3>1, <3>2, RankTaken, ZenonT(30)
    <3>4. where \in writable
      BY <2>1, <2>2, <3>1, <3>3
    <3> HIDE DEF where
    <3>5. LandsAt(wanted, key, writable, where)
      BY <1>5, <2>4, <3>4, Zenon DEF LandsAt
    <3> QED
      BY <3>5 DEF where
  <2> QED
    BY <2>3, <2>4, Zenon
<1> QED
  BY <1>3, <1>4, <1>5, ZenonT(30)

-----------------------------------------------------------------------------
(* The whole way. *)

\* The records of the request, as they were decoded.
PostOf(q) ==
    [record |-> q.body.record, count |-> q.body.count, path |-> TargetOf(q.path).partition]

PlacedInv ==
    placed # <<>> =>
        /\ status = 0
        /\ placed[1].topic = TargetOf(http.path).topic
        /\ LandsAt(RecordPartition(PostOf(http)), http.body.record.key,
                   placed[1].writable, placed[1].partition)

DeliveryInv ==
    /\ LimitsInv
    /\ \E i \in Instances : env = i.env /\ allow = i.allow /\ http = i.request
    /\ status = 0 => Routes(http.path) \notin {"health", "ready"} /\ GateStatus(http, allow) = 0
    /\ verdict # NoVerdict => status = 0 /\ verdict.post = <<PostOf(http)>>
    /\ placed # <<>> => verdict # NoVerdict
    /\ PlacedInv

LEMMA LimitsStutter ==
    ASSUME LimitsInv, UNCHANGED limitVars
    PROVE  LimitsInv'
<1>1. env' = env /\ phase' = phase /\ cfg' = cfg /\ burst' = burst /\ verdict' = verdict
  BY Zenon DEF limitVars
<1>2. Loaded' = Loaded /\ V2Limits' = V2Limits
  BY <1>1 DEF Loaded, EnvInt, V2Limits
<1> QED
  BY <1>1, <1>2, SMTT(30), ZenonT(60) DEF LimitsInv, Valid, WithDefaults, RequestBurst, ByteBurst

\* What a request that passed the tests is known to be.
LEMMA RequestKnown ==
    ASSUME DeliveryInv
    PROVE  /\ http.path \in Seq(Segments) /\ AsksFor(http)
           /\ http.body.record.key \in Nat \cup {None} /\ http.body.record.partition \in Int \cup {None}
           /\ allow \in SUBSET (Seq(STRING) \ {<<>>})
<1>1. PICK i \in Instances : env = i.env /\ allow = i.allow /\ http = i.request
  BY DEF DeliveryInv
<1>2. /\ i.allow \subseteq Seq(STRING) \ {<<>>}
      /\ i.request.path \in Seq(Segments) /\ AsksFor(i.request)
      /\ i.request.body.record.key \in Nat \cup {None}
      /\ i.request.body.record.partition \in Int \cup {None}
  BY InstanceAssumption, Zenon
<1> QED
  BY <1>1, <1>2

LEMMA PassedKnown ==
    ASSUME DeliveryInv, status = 0
    PROVE  /\ http.asks # None
           /\ http.asks.topic = TargetOf(http.path).topic
           /\ http.asks.partition = TargetOf(http.path).partition
           /\ TargetOf(http.path).partition \in TargetPartitions
           /\ TargetOf(http.path).route # "v2" => TargetOf(http.path).partition = None
           /\ allow = {} \/ \E e \in allow : Listed(TargetOf(http.path).topic, e)
<1>1. Routes(http.path) \notin {"health", "ready"} /\ GateStatus(http, allow) = 0
  BY Zenon DEF DeliveryInv
<1> QED
  BY <1>1, RequestKnown, GatePassed, Zenon

\* The partition of a record that was accepted is one, or is left open.
LEMMA WantedPartition ==
    ASSUME DeliveryInv, verdict # NoVerdict,
           IF target.route = "v2" THEN verdict.v2 ELSE verdict.v3
    PROVE  RecordPartition(PostOf(http)) \in Nat \cup {None}
<1> DEFINE p == PostOf(http)
<1>1. /\ status = 0 /\ verdict.post[1] = p /\ target = TargetOf(http.path)
      /\ p.path = target.partition /\ p.record.partition = http.body.record.partition
  BY DEF DeliveryInv, target, PostOf
<1>2. verdict.v2 = DecodeV2(p, cfg) /\ verdict.v3 = DecodeV3(p, cfg)
  <2>1. LimitsInv
    BY Zenon DEF DeliveryInv
  <2> QED
    BY <1>1, <2>1, VerdictFacts, Zenon
<1>3. /\ p.path \in Nat \cup {None} /\ p.record.partition \in Int \cup {None}
      /\ target.route # "v2" => p.path = None
  BY <1>1, PassedKnown, RequestKnown, ZenonT(30) DEF TargetPartitions
<1>4. p.path = None => p.record.partition = None \/ p.record.partition >= 0
  <2>1. CASE target.route = "v2"
    <3>1. DecodeV2(p, cfg)
      BY <1>2, <2>1
    <3> QED
      BY <3>1, Zenon DEF DecodeV2
  <2>2. CASE target.route # "v2"
    <3>1. DecodeV3(p, cfg)
      BY <1>2, <2>2
    <3> QED
      BY <3>1, Zenon DEF DecodeV3
  <2> QED
    BY <2>1, <2>2, Zenon
<1> HIDE DEF p
<1>5. RecordPartition(p) \in Nat \cup {None}
  BY <1>3, <1>4 DEF RecordPartition
<1> QED
  BY <1>5 DEF p

LEMMA BootKeeps ==
    ASSUME DeliveryInv, Boot
    PROVE  DeliveryInv'
<1>1. /\ allow' = allow /\ http' = http /\ status' = status /\ placed' = placed
      /\ env' = env /\ verdict' = verdict
  BY Zenon DEF Boot, LoadFromEnv, NewHandlerWithSchema
<1>2. LimitsInv'
  BY LoadKeeps, NewHandlerKeeps DEF Boot, DeliveryInv
<1> QED
  BY <1>1, <1>2, Zenon DEF DeliveryInv, PlacedInv

LEMMA ProbeKeeps ==
    ASSUME DeliveryInv, Probe
    PROVE  DeliveryInv'
<1>1. /\ UNCHANGED limitVars /\ allow' = allow /\ http' = http /\ placed' = placed
      /\ status = -1 /\ status' \in {405, 200, 503}
  BY ZenonT(60) DEF Probe
<1>2. LimitsInv'
  BY <1>1, LimitsStutter DEF DeliveryInv
<1>3. env' = env /\ verdict' = verdict
  BY <1>1 DEF limitVars
<1>4. status' # 0 /\ verdict = NoVerdict /\ placed = <<>>
  BY <1>1 DEF DeliveryInv
<1> QED
  BY <1>1, <1>2, <1>3, <1>4, ZenonT(30) DEF DeliveryInv, PlacedInv

LEMMA ArriveKeeps ==
    ASSUME DeliveryInv, Arrive
    PROVE  DeliveryInv'
<1>1. /\ UNCHANGED limitVars /\ allow' = allow /\ http' = http /\ placed' = placed
      /\ status = -1 /\ status' = GateStatus(http, allow)
      /\ Routes(http.path) \notin {"health", "ready"}
  BY Zenon DEF Arrive
<1>2. LimitsInv'
  BY <1>1, LimitsStutter DEF DeliveryInv
<1>3. env' = env /\ verdict' = verdict /\ verdict = NoVerdict /\ placed = <<>>
  <2>1. env' = env /\ verdict' = verdict
    BY <1>1 DEF limitVars
  <2>2. status # 0
    BY <1>1
  <2>3. verdict = NoVerdict /\ placed = <<>>
    BY <2>2, ZenonT(30) DEF DeliveryInv
  <2> QED
    BY <2>1, <2>3, Zenon
<1> QED
  BY <1>1, <1>2, <1>3, Zenon DEF DeliveryInv, PlacedInv

LEMMA ReadKeeps ==
    ASSUME DeliveryInv, Read
    PROVE  DeliveryInv'
<1>1. /\ status = 0 /\ allow' = allow /\ http' = http /\ status' = status /\ placed' = placed
      /\ Decode(PostOf(http))
  BY Zenon DEF Read, PostOf, target
<1>2. env' = env /\ verdict = NoVerdict
  BY <1>1 DEF Decode
<1>3. LimitsInv' /\ verdict' # NoVerdict /\ verdict'.post = <<PostOf(http)>>
  BY <1>1, DecodeKeeps, ZenonT(30) DEF DeliveryInv
<1>4. placed = <<>>
  BY <1>2, ZenonT(30) DEF DeliveryInv
<1> QED
  BY <1>1, <1>2, <1>3, <1>4, ZenonT(30) DEF DeliveryInv, PlacedInv

LEMMA PlaceKeeps ==
    ASSUME DeliveryInv, Place
    PROVE  DeliveryInv'
<1> DEFINE p == PostOf(http)
<1>1. /\ UNCHANGED limitVars /\ allow' = allow /\ http' = http /\ status' = status
      /\ verdict # NoVerdict /\ (IF target.route = "v2" THEN verdict.v2 ELSE verdict.v3)
  BY Zenon DEF Place
<1>2. verdict.post[1] = p /\ status = 0
  BY <1>1 DEF DeliveryInv
<1>3. PICK writable, offered, n, rec, pick :
        /\ writable \in SUBSET (0..(Partitions - 1))
        /\ rec = AcquireRecord(p) /\ offered = Offered(rec, writable) /\ n = Cardinality(offered)
        /\ pick \in IF n = 0 THEN {0} ELSE Picks(rec, n)
        /\ placed' = <<[topic |-> target.topic, writable |-> writable,
                        partition |-> IF pick < n THEN Nth(offered, pick) ELSE None]>>
  BY <1>2, Zenon DEF Place
<1>4. PICK wanted \in Nat \cup {None} : wanted = RecordPartition(p)
  BY <1>1, WantedPartition, Zenon
<1>5. PICK key \in Nat \cup {None} : key = http.body.record.key
  BY RequestKnown, ZenonT(30)
<1>6. rec = [partition |-> IF wanted = None THEN UnspecifiedPartition ELSE wanted, key |-> key]
  BY <1>3, <1>4, <1>5, Zenon DEF AcquireRecord, PostOf
<1>7. LandsAt(wanted, key, writable, IF pick < n THEN Nth(offered, pick) ELSE None)
  BY <1>3, <1>6, PlaceLands, Zenon
<1>8. /\ placed' # <<>> /\ placed'[1].topic = TargetOf(http.path).topic
      /\ placed'[1].writable = writable
      /\ placed'[1].partition = IF pick < n THEN Nth(offered, pick) ELSE None
  BY <1>3, Zenon DEF target
<1>9. PlacedInv'
  <2>1. LandsAt(RecordPartition(p), http.body.record.key, placed'[1].writable, placed'[1].partition)
    BY <1>4, <1>5, <1>7, <1>8, ZenonT(30)
  <2> QED
    BY <1>1, <1>2, <1>8, <2>1, ZenonT(30) DEF PlacedInv
<1>10. LimitsInv'
  BY <1>1, LimitsStutter, Zenon DEF DeliveryInv
<1>11. env' = env /\ verdict' = verdict
  BY <1>1, ZenonT(30) DEF limitVars
<1> QED
  BY <1>1, <1>9, <1>10, <1>11, ZenonT(30) DEF DeliveryInv

(***************************************************************************)
(* The limits, the tests of the request and the place of its record go     *)
(* together, whatever is configured and asked for.                         *)
(***************************************************************************)
THEOREM DeliveryCorrect == DeliverySpec => []DeliveryInv
<1>1. DeliveryInit => DeliveryInv
  <2> SUFFICES ASSUME DeliveryInit PROVE DeliveryInv
    OBVIOUS
  <2>1. PICK i \in Instances : env = i.env /\ allow = i.allow /\ http = i.request
    BY DEF DeliveryInit
  <2>2. env \in Environments
    BY <2>1, InstanceAssumption, Zenon DEF Environments
  <2>3. LimitsInv /\ verdict = NoVerdict /\ status = -1 /\ placed = <<>>
    BY <2>2, LimitsInitInv DEF DeliveryInit, LimitsInit
  <2>4. status # 0
    BY <2>3
  <2>5. PlacedInv
    BY <2>3, Zenon DEF PlacedInv
  <2> QED
    BY <2>1, <2>3, <2>4, <2>5, Zenon DEF DeliveryInv
<1>2. DeliveryInv /\ [DeliveryNext]_deliveryVars => DeliveryInv'
  <2>1. DeliveryInv /\ UNCHANGED deliveryVars => DeliveryInv'
    <3> SUFFICES ASSUME DeliveryInv, UNCHANGED deliveryVars PROVE DeliveryInv'
      OBVIOUS
    <3>1. /\ UNCHANGED limitVars /\ allow' = allow /\ http' = http /\ status' = status
          /\ placed' = placed
      BY DEF deliveryVars
    <3>2. LimitsInv' /\ env' = env /\ verdict' = verdict
      BY <3>1, LimitsStutter, Zenon DEF DeliveryInv, limitVars
    <3> QED
      BY <3>1, <3>2, Zenon DEF DeliveryInv, PlacedInv
  <2> QED
    BY <2>1, BootKeeps, ProbeKeeps, ArriveKeeps, ReadKeeps, PlaceKeeps, ZenonT(30) DEF DeliveryNext
<1> QED
  BY <1>1, <1>2, PTL DEF DeliverySpec

(***************************************************************************)
(* decodeLimits, both decoders: nothing gets past a limit that was set.    *)
(***************************************************************************)
THEOREM LimitsHold == DeliverySpec => []AcceptedWithinAsked
<1>1. DeliveryInv => AcceptedWithinAsked
  BY WithinAsked, Zenon DEF DeliveryInv
<1> QED
  BY <1>1, DeliveryCorrect, PTL

(***************************************************************************)
(* decodeProduceRequestWithSchema and v3EnvelopeFromRecord differ in what  *)
(* decodeHeaders and the partition of the path make them, and only there.  *)
(***************************************************************************)
THEOREM DecodersAgree == DeliverySpec => []RoutesAgree
<1>1. DeliveryInv => RoutesAgree
  BY Agreement, Zenon DEF DeliveryInv
<1> QED
  BY <1>1, DeliveryCorrect, PTL

(***************************************************************************)
(* NewHandlerWithSchema: the default burst pays for every body.            *)
(***************************************************************************)
THEOREM DefaultBurstSuffices == DeliverySpec => []DefaultBurstPays
<1>1. DeliveryInv => DefaultBurstPays
  BY BurstPays, Zenon DEF DeliveryInv
<1> QED
  BY <1>1, DeliveryCorrect, PTL

(***************************************************************************)
(* From handleTopicProduce and handleV3Produce to the partitioner: a       *)
(* record lands in the topic its path renders, which the allowlist covers, *)
(* in the partition it asks for, else in that of its key, else where there *)
(* is a leader.                                                            *)
(***************************************************************************)
THEOREM RecordsLand == DeliverySpec => []LandsWhereAsked
<1>1. ASSUME DeliveryInv PROVE LandsWhereAsked
  <2> SUFFICES ASSUME placed # <<>> PROVE LandsWhereAsked
    BY Zenon DEF LandsWhereAsked
  <2>1. /\ status = 0 /\ placed[1].topic = TargetOf(http.path).topic
        /\ LandsAt(RecordPartition(PostOf(http)), http.body.record.key,
                   placed[1].writable, placed[1].partition)
        /\ verdict.post[1] = PostOf(http)
    <3>1. /\ status = 0 /\ placed[1].topic = TargetOf(http.path).topic
          /\ LandsAt(RecordPartition(PostOf(http)), http.body.record.key,
                     placed[1].writable, placed[1].partition)
      BY <1>1, ZenonT(30) DEF DeliveryInv, PlacedInv
    <3>2. verdict.post = <<PostOf(http)>>
      BY <1>1, ZenonT(30) DEF DeliveryInv
    <3>3. verdict.post[1] = PostOf(http)
      BY <3>2
    <3> QED
      BY <3>1, <3>3, Zenon
  <2>2. /\ http.asks # None /\ http.asks.topic = TargetOf(http.path).topic
        /\ http.asks.partition = TargetOf(http.path).partition
        /\ allow = {} \/ \E e \in allow : Listed(TargetOf(http.path).topic, e)
    BY <1>1, <2>1, PassedKnown, Zenon
  <2>3. PostOf(http).record = http.body.record /\ PostOf(http).path = http.asks.partition
    BY <2>2, Zenon DEF PostOf
  <2>4. RecordPartition(PostOf(http)) =
          IF http.asks.partition # None THEN http.asks.partition
          ELSE http.body.record.partition
    BY <2>3, Zenon DEF RecordPartition
  <2> QED
    BY <2>1, <2>2, <2>3, <2>4, Zenon DEF LandsWhereAsked, LandsAt
<1> QED
  BY <1>1, DeliveryCorrect, PTL

=============================================================================
