-------------------------- MODULE ProduceContract --------------------------
(***************************************************************************)
(* What a producer.Producer with admission control promises its callers,   *)
(* with no pool, no callbacks and no counters.                             *)
(*                                                                         *)
(* A call is admitted when its records and bytes fit beside those of the   *)
(* calls holding a reservation at that very moment, and is refused as      *)
(* overloaded only when they do not.  It answers with results only when    *)
(* each of its records is settled and its reservation is back.             *)
(***************************************************************************)
EXTENDS Integers, Weights

CONSTANTS Calls, Limit, ByteLimit

VARIABLES
    records, bytes,   \* the size of each call, fixed
    reply,            \* "none" until the call returns
    admitted,         \* the calls that were ever admitted
    held,             \* the calls that hold a reservation
    expired,          \* the calls whose context has ended
    unsettled,        \* unsettled[c]: the records of c without an outcome
    shut              \* the producer has been closed

vars == <<records, bytes, reply, admitted, held, expired, unsettled, shut>>

Init ==
    /\ records \in [Calls -> Nat] /\ bytes \in [Calls -> Nat]
    /\ reply = [c \in Calls |-> "none"]
    /\ admitted = {} /\ held = {} /\ expired = {}
    /\ unsettled = [c \in Calls |-> 1..records[c]]
    /\ shut = FALSE

HasRoom(c) ==
    /\ Limit > 0 => Weight(held, records) + records[c] <= Limit
    /\ ByteLimit > 0 => Weight(held, bytes) + bytes[c] <= ByteLimit

Waiting(c) == reply[c] = "none" /\ c \notin admitted

Admit(c) ==
    /\ Waiting(c) /\ HasRoom(c)
    /\ admitted' = admitted \cup {c}
    /\ held' = held \cup {c}
    /\ UNCHANGED <<records, bytes, reply, expired, unsettled, shut>>

\* A call that is refused, or has nothing to do, returns without reserving.
Decline(c) ==
    /\ Waiting(c)
    /\ \/ reply' = [reply EXCEPT ![c] = "overloaded"] /\ ~HasRoom(c)
       \/ reply' = [reply EXCEPT ![c] = "closed"] /\ shut
       \/ reply' = [reply EXCEPT ![c] = "ok"] /\ records[c] = 0
    /\ UNCHANGED <<records, bytes, admitted, held, expired, unsettled, shut>>

Settle(c, i) ==
    /\ c \in admitted /\ i \in unsettled[c]
    /\ unsettled' = [unsettled EXCEPT ![c] = @ \ {i}]
    /\ UNCHANGED <<records, bytes, reply, admitted, held, expired, shut>>

HandBack(c) ==
    /\ c \in held
    /\ c \in expired \/ unsettled[c] = {}
    /\ held' = held \ {c}
    /\ \/ UNCHANGED reply
       \/ c \in expired /\ reply' = [reply EXCEPT ![c] = "ctxErr"]
    /\ UNCHANGED <<records, bytes, admitted, expired, unsettled, shut>>

Answer(c) ==
    /\ reply[c] = "none" /\ c \in admitted \ held
    /\ unsettled[c] = {}
    /\ reply' = [reply EXCEPT ![c] = "ok"]
    /\ UNCHANGED <<records, bytes, admitted, held, expired, unsettled, shut>>

GiveUp(c) ==
    /\ reply[c] = "none" /\ c \in admitted \cap expired
    /\ reply' = [reply EXCEPT ![c] = "ctxErr"]
    /\ UNCHANGED <<records, bytes, admitted, held, expired, unsettled, shut>>

Expire(c) ==
    /\ reply[c] = "none"
    /\ expired' = expired \cup {c}
    /\ UNCHANGED <<records, bytes, reply, admitted, held, unsettled, shut>>

Shut ==
    /\ shut' = TRUE
    /\ UNCHANGED <<records, bytes, reply, admitted, held, expired, unsettled>>

Next ==
    \/ \E c \in Calls :
          \/ Admit(c) \/ Decline(c) \/ HandBack(c)
          \/ Answer(c) \/ GiveUp(c) \/ Expire(c)
          \/ \E i \in 1..records[c] : Settle(c, i)
    \/ Shut

Spec == Init /\ [][Next]_vars

=============================================================================
