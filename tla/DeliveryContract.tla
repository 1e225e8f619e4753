-------------------------- MODULE DeliveryContract --------------------------
(***************************************************************************)
(* What a webhook delivery promises to those who look at its row, whatever *)
(* queue, workers and retries are behind it: it is asked for once, it says *)
(* delivered only if the receiver took it, an outcome is final, and a      *)
(* delivery that has one is not sent any more. Only a delivery that was    *)
(* handed out again, since the worker at it seemed dead or did not hear    *)
(* that its outcome was written, may be sent after its outcome and have    *)
(* that overwritten. What is dropped with its webhook never comes back.    *)
(* WebhookDelivery implements it.                                          *)
(***************************************************************************)
EXTENDS Naturals

CONSTANT Deliveries

VARIABLES
    outcome,    \* of each delivery, "none" before it is asked for
    sent,       \* how often it was sent to its receiver
    taken,      \* whether the receiver took it
    again       \* the deliveries that were handed out again

Asked == {d \in Deliveries : outcome[d] # "none"}

Final == {"delivered", "failed"}

\* Whoever works at it has not finished, or does not know that another has.
Open(d) == outcome[d] = "pending" \/ (d \in again /\ outcome[d] \in Final)

ContractInit ==
    /\ outcome = [d \in Deliveries |-> "none"]
    /\ sent = [d \in Deliveries |-> 0]
    /\ taken = [d \in Deliveries |-> FALSE]
    /\ again = {}

Ask(d) ==
    /\ d \notin Asked
    /\ outcome' = [outcome EXCEPT ![d] = "pending"]
    /\ UNCHANGED <<sent, taken, again>>

\* Also a delivery that was dropped may still be on its way.
Send(d, takes) ==
    /\ Open(d) \/ outcome[d] = "gone"
    /\ sent' = [sent EXCEPT ![d] = @ + 1]
    /\ taken' = [taken EXCEPT ![d] = @ \/ takes]
    /\ UNCHANGED <<outcome, again>>

HandOutAgain(d) ==
    /\ d \in Asked
    /\ again' = again \cup {d}
    /\ UNCHANGED <<outcome, sent, taken>>

Settle(d, o) ==
    /\ Open(d)
    /\ o = "delivered" => taken[d]
    /\ outcome' = [outcome EXCEPT ![d] = o]
    /\ UNCHANGED <<sent, taken, again>>

\* Whoever settles it does not hear that it is settled.
SettleUnheard(d, o) ==
    /\ Open(d)
    /\ o = "delivered" => taken[d]
    /\ outcome' = [outcome EXCEPT ![d] = o]
    /\ again' = again \cup {d}
    /\ UNCHANGED <<sent, taken>>

\* The deliveries of a webhook go with it.
Drop(dropped) ==
    /\ outcome' = [d \in Deliveries |-> IF d \in dropped THEN "gone" ELSE outcome[d]]
    /\ UNCHANGED <<sent, taken, again>>

ContractNext ==
    \/ \E d \in Deliveries : Ask(d) \/ HandOutAgain(d)
    \/ \E d \in Deliveries, takes \in BOOLEAN : Send(d, takes)
    \/ \E d \in Deliveries, o \in Final \cup {"pending"} : Settle(d, o)
    \/ \E d \in Deliveries, o \in Final : SettleUnheard(d, o)
    \/ \E dropped \in SUBSET Asked : Drop(dropped)

ContractSpec == ContractInit /\ [][ContractNext]_<<outcome, sent, taken, again>>

=============================================================================
