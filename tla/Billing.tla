------------------------------- MODULE Billing -------------------------------
(***************************************************************************)
(* The plan of one workspace and its Stripe subscription: BillingService   *)
(* of core/workspaces/billing.service.ts, behind the checkout and portal   *)
(* routes and the Stripe webhook.                                          *)
(*                                                                         *)
(* Stripe is external: it hands out customers, keeps a subscription per    *)
(* customer, and sends an event for every change.  An event can be         *)
(* delivered at any time after it was sent, any number of times, two       *)
(* deliveries side by side.                                                *)
(***************************************************************************)
EXTENDS Naturals, Sequences, FiniteSets

CONSTANTS
    PaidPlans,   \* plans with a stripe_price_id
    Customers,   \* customer ids Stripe can hand out
    NoCustomer,
    Checkouts,   \* checkout and portal requests
    Deliverers,  \* webhook requests that overlap
    MaxEvents    \* bound: events Stripe sends

ASSUME BillingAssumption ==
    /\ {"free", "unlisted", "none"} \cap PaidPlans = {}
    /\ NoCustomer \notin Customers
    /\ MaxEvents \in Nat

VARIABLES
    plan,        \* workspaces.plan_id
    customer,    \* workspaces.stripe_customer_id
    checkout,    \* the requests
    minted,      \* customers Stripe has made
    subscribed,  \* Stripe's subscription of each customer
    sent,        \* the events, by the order Stripe sent them in
    recorded,    \* workspace_billing_events (stripe_event_id is unique)
    deliverer,   \* what each webhook request is doing
    applied      \* the events that changed the plan, in that order

billVars == <<plan, customer, checkout, minted, subscribed, sent, recorded, deliverer, applied>>

-----------------------------------------------------------------------------
\* A price no plan has is "unlisted".
Prices == PaidPlans \cup {"unlisted"}

Event == [kind : {"updated", "deleted", "invoice"}, customer : Customers,
          price : Prices \cup {"none"}]

Checkout == [step : {"new", "create", "save", "session", "done"},
             customer : Customers \cup {NoCustomer}]

Deliverer == [step : {"idle", "apply"}, event : 0 .. MaxEvents, known : BOOLEAN]

BillTypeOK ==
    /\ plan \in PaidPlans \cup {"free"}
    /\ customer \in Customers \cup {NoCustomer}
    /\ checkout \in [Checkouts -> Checkout]
    /\ minted \subseteq Customers
    /\ subscribed \in [Customers -> Prices \cup {"none"}]
    /\ sent \in Seq(Event) /\ Len(sent) <= MaxEvents
    /\ recorded \subseteq DOMAIN sent
    /\ deliverer \in [Deliverers -> Deliverer]
    /\ applied \in Seq(DOMAIN sent)

-----------------------------------------------------------------------------
\* ensureCustomer and the session

ReadCustomer(k) ==
    /\ checkout[k].step = "new"
    /\ checkout' = [checkout EXCEPT ![k] =
                      [step |-> IF customer = NoCustomer THEN "create" ELSE "session",
                       customer |-> customer]]
    /\ UNCHANGED <<plan, customer, minted, subscribed, sent, recorded,
                   deliverer, applied>>

\* Mutant: the session is opened before the customer is saved.
CreateCustomerMutant(k, c) ==
    /\ checkout[k].step = "create"
    /\ c \notin minted
    /\ minted' = minted \cup {c}
    /\ checkout' = [checkout EXCEPT ![k] = [step |-> "session", customer |-> c]]
    /\ UNCHANGED <<plan, customer, subscribed, sent, recorded, deliverer, applied>>

CreateCustomer(k, c) ==
    /\ checkout[k].step = "create"
    /\ c \notin minted
    /\ minted' = minted \cup {c}
    /\ checkout' = [checkout EXCEPT ![k] = [step |-> "save", customer |-> c]]
    /\ UNCHANGED <<plan, customer, subscribed, sent, recorded, deliverer, applied>>

SaveCustomer(k) ==
    /\ checkout[k].step = "save"
    /\ customer' = checkout[k].customer
    /\ checkout' = [checkout EXCEPT ![k].step = "session"]
    /\ UNCHANGED <<plan, minted, subscribed, sent, recorded, deliverer, applied>>

OpenSession(k) ==
    /\ checkout[k].step = "session"
    /\ checkout' = [checkout EXCEPT ![k].step = "done"]
    /\ UNCHANGED <<plan, customer, minted, subscribed, sent, recorded,
                   deliverer, applied>>

-----------------------------------------------------------------------------
\* Stripe, for a customer that has been given a session

HasSession(c) == \E k \in Checkouts : checkout[k] = [step |-> "done", customer |-> c]

Emit(e) ==
    /\ Len(sent) < MaxEvents
    /\ sent' = Append(sent, e)
    /\ UNCHANGED <<plan, customer, checkout, minted, recorded, deliverer, applied>>

Subscribe(c, p) ==
    /\ HasSession(c)
    /\ subscribed[c] # p
    /\ subscribed' = [subscribed EXCEPT ![c] = p]
    /\ Emit([kind |-> "updated", customer |-> c, price |-> p])

Unsubscribe(c) ==
    /\ subscribed[c] # "none"
    /\ subscribed' = [subscribed EXCEPT ![c] = "none"]
    /\ Emit([kind |-> "deleted", customer |-> c, price |-> "none"])

\* invoice.paid and invoice.payment_failed
Bill(c) ==
    /\ subscribed[c] # "none"
    /\ Emit([kind |-> "invoice", customer |-> c, price |-> "none"])
    /\ UNCHANGED subscribed

-----------------------------------------------------------------------------
\* applySubscriptionEvent: one transaction, whose reads may be old when it
\* writes.

\* A recorded event is answered as idempotent, and nothing changes.
ReadEvent(d, e) ==
    /\ deliverer[d].step = "idle"
    /\ e \in DOMAIN sent \ recorded
    /\ deliverer' = [deliverer EXCEPT ![d] =
                       [step |-> "apply", event |-> e, known |-> customer = sent[e].customer]]
    /\ UNCHANGED <<plan, customer, checkout, minted, subscribed, sent, recorded, applied>>

EventOf(d) == sent[deliverer[d].event]

Leave(d) == deliverer' = [deliverer EXCEPT ![d] =
                            [step |-> "idle", event |-> 0, known |-> FALSE]]

\* Mutant: the event is not recorded with the change.
RecordEventMutant(d) == UNCHANGED recorded

RecordEvent(d) == recorded' = recorded \cup {deliverer[d].event}

\* Mutant: an invoice that failed downgrades the plan.
NewPlanMutant(e) ==
    IF e.kind = "updated" /\ e.price \in PaidPlans THEN e.price ELSE "free"

\* The plan an event asks for; "none" if it asks for no change.
NewPlan(e) ==
    CASE e.kind = "updated" /\ e.price \in PaidPlans -> e.price
      [] e.kind = "deleted" -> "free"
      [] OTHER -> "none"

ApplySubscription(d) ==
    /\ deliverer[d].step = "apply"
    /\ deliverer[d].event \notin recorded
    /\ deliverer[d].known
    /\ RecordEvent(d)
    /\ IF NewPlan(EventOf(d)) = "none" THEN UNCHANGED <<plan, applied>>
       ELSE /\ plan' = NewPlan(EventOf(d))
            /\ applied' = Append(applied, deliverer[d].event)
    /\ Leave(d)
    /\ UNCHANGED <<customer, checkout, minted, subscribed, sent>>

\* The unique index rolls the transaction back, and the reply is an error,
\* not the { idempotent: true } of the service's header: nothing catches it.
AppliedBeside(d) ==
    /\ deliverer[d].step = "apply"
    /\ deliverer[d].event \in recorded
    /\ Leave(d)
    /\ UNCHANGED <<plan, customer, checkout, minted, subscribed, sent, recorded, applied>>

\* A subscription event is to be recorded without a workspace, which
\* workspace_id (NOT NULL) refuses; an invoice of an unknown customer is ignored.
UnknownCustomer(d) ==
    /\ deliverer[d].step = "apply"
    /\ ~deliverer[d].known
    /\ Leave(d)
    /\ UNCHANGED <<plan, customer, checkout, minted, subscribed, sent, recorded, applied>>

-----------------------------------------------------------------------------
BillInit ==
    /\ plan = "free"
    /\ customer = NoCustomer
    /\ checkout = [k \in Checkouts |-> [step |-> "new", customer |-> NoCustomer]]
    /\ minted = {}
    /\ subscribed = [c \in Customers |-> "none"]
    /\ sent = <<>>
    /\ recorded = {}
    /\ deliverer = [d \in Deliverers |-> [step |-> "idle", event |-> 0, known |-> FALSE]]
    /\ applied = <<>>

BillNext ==
    \/ \E k \in Checkouts :
         \/ ReadCustomer(k) \/ SaveCustomer(k) \/ OpenSession(k)
         \/ \E c \in Customers : CreateCustomer(k, c)
    \/ \E c \in Customers :
         \/ Unsubscribe(c) \/ Bill(c)
         \/ \E p \in Prices : Subscribe(c, p)
    \/ \E d \in Deliverers :
         \/ ApplySubscription(d) \/ AppliedBeside(d) \/ UnknownCustomer(d)
         \/ \E e \in 1 .. MaxEvents : ReadEvent(d, e)

BillSpec == BillInit /\ [][BillNext]_billVars

-----------------------------------------------------------------------------
Increasing(s) == \A i, j \in DOMAIN s : i < j => s[i] < s[j]

\* However often an event is delivered, and however many deliveries run side
\* by side, it changes the plan once.
EventAppliesOnce == \A i, j \in DOMAIN applied : applied[i] = applied[j] => i = j

\* When Stripe has made one customer and its changes were applied in the order
\* it made them, and all of them were, the workspace has what is subscribed: an
\* invoice changes nothing, a cancellation brings back the free plan.
PlanFollowsSubscription ==
    (/\ Cardinality(minted) = 1
     /\ Increasing(applied)
     /\ recorded = DOMAIN sent)
    => \A c \in minted : subscribed[c] # "unlisted" =>
          plan = IF subscribed[c] = "none" THEN "free" ELSE subscribed[c]

\* A workspace on a paid plan has a customer, and there is an event on record
\* that sold that plan to a customer made for it.
PaidPlanWasSold ==
    plan # "free" =>
        /\ customer # NoCustomer
        /\ \E e \in recorded : sent[e].kind = "updated" /\ sent[e].price = plan
                               /\ sent[e].customer \in minted

\* As long as Stripe has made one customer for the workspace, its events find
\* the workspace: the customer is saved before anybody can subscribe with it.
\* Of two customers one is unknown, and its events are refused for ever.
CustomerIsKnown ==
    Cardinality(minted) = 1 =>
        \A d \in Deliverers : deliverer[d].step = "apply" => deliverer[d].known

=============================================================================
