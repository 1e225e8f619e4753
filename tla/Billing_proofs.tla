----------------------------- MODULE Billing_proofs -----------------------------
(***************************************************************************)
(* Proofs about Billing, for any number of plans, customers, checkouts,    *)
(* events and deliveries.                                                  *)
(*                                                                         *)
(* CustomerInv: who has a session, a subscription or an event was made for *)
(* the workspace, which knows one by then.  LedgerInv: what changed the    *)
(* plan is recorded, once, and the last of it gave the plan.  StripeInv:   *)
(* the last change that was sent is what is subscribed.  OneInv: of one    *)
(* customer no event is unknown.                                           *)
(***************************************************************************)
EXTENDS Billing, FiniteSetTheorems, TLAPS

AtMostOne == \A x, y \in minted : x = y

CustomerInv ==
    /\ IsFiniteSet(minted)
    /\ customer # NoCustomer => customer \in minted
    /\ \A k \in Checkouts :
          /\ checkout[k].step \in {"save", "session", "done"} => checkout[k].customer \in minted
          /\ checkout[k].step \in {"session", "done"} => customer # NoCustomer
    /\ \A c \in Customers : subscribed[c] # "none" => c \in minted /\ customer # NoCustomer
    /\ \A e \in DOMAIN sent : sent[e].customer \in minted /\ customer # NoCustomer
    /\ \A d \in Deliverers : deliverer[d].step = "apply" => deliverer[d].event \in DOMAIN sent

Changes(e) == NewPlan(sent[e]) # "none"

LedgerInv ==
    /\ \A i \in DOMAIN applied : applied[i] \in recorded /\ Changes(applied[i])
    /\ \A e \in recorded : Changes(e) => \E i \in DOMAIN applied : applied[i] = e
    /\ EventAppliesOnce
    /\ plan = IF applied = <<>> THEN "free" ELSE NewPlan(sent[applied[Len(applied)]])

\* e is the last event of a subscription.
LastOf(e) == /\ e \in DOMAIN sent /\ sent[e].kind # "invoice"
             /\ \A f \in DOMAIN sent : sent[f].kind # "invoice" => f <= e

StripeInv ==
    AtMostOne => \A c \in minted :
        \/ \E e \in DOMAIN sent : LastOf(e) /\ sent[e].price = subscribed[c]
        \/ /\ \A f \in DOMAIN sent : sent[f].kind = "invoice"
           /\ subscribed[c] = "none"

EventsInv == \A e \in DOMAIN sent : sent[e].kind = "deleted" <=> sent[e].price = "none"
                                      /\ sent[e].kind # "invoice"

OneInv ==
    AtMostOne => \A d \in Deliverers : deliverer[d].step = "apply" => deliverer[d].known

BillInv ==
    BillTypeOK /\ CustomerInv /\ LedgerInv /\ StripeInv /\ EventsInv /\ OneInv

-----------------------------------------------------------------------------
\* A workspace on the free plan, without customer and events.
LEMMA InitBill == BillInit => BillInv
<1> SUFFICES ASSUME BillInit PROVE BillInv
  OBVIOUS
<1> USE BillingAssumption
<1>1. BillTypeOK
  BY DEF BillInit, BillTypeOK, Checkout, Deliverer, Prices
<1>2. CustomerInv
  BY FS_EmptySet DEF BillInit, CustomerInv
<1>3. LedgerInv /\ StripeInv /\ EventsInv /\ OneInv
  BY DEF BillInit, LedgerInv, EventAppliesOnce, StripeInv, EventsInv, OneInv
<1> QED BY <1>1, <1>2, <1>3 DEF BillInv

-----------------------------------------------------------------------------
\* Checkouts: a second customer ends what is said of one.
LEMMA CheckoutKeeps ==
    ASSUME BillInv, NEW k \in Checkouts,
           \/ ReadCustomer(k) \/ SaveCustomer(k) \/ OpenSession(k)
           \/ \E c \in Customers : CreateCustomer(k, c)
    PROVE  BillInv'
<1> USE BillingAssumption
<1>0. /\ BillTypeOK /\ CustomerInv
      /\ checkout \in [Checkouts -> Checkout] /\ checkout[k] \in Checkout
      /\ minted \subseteq Customers /\ customer \in Customers \cup {NoCustomer}
  BY DEF BillInv, BillTypeOK
<1>1. UNCHANGED <<plan, subscribed, sent, recorded, deliverer, applied>>
  BY DEF ReadCustomer, SaveCustomer, OpenSession, CreateCustomer
<1>2. BillTypeOK'
  <2>1. CASE ReadCustomer(k)
    <3>1. [step |-> IF customer = NoCustomer THEN "create" ELSE "session",
           customer |-> customer] \in Checkout
      BY <1>0 DEF Checkout
    <3> QED BY <1>0, <1>1, <2>1, <3>1 DEF ReadCustomer, BillTypeOK
  <2>2. CASE SaveCustomer(k) \/ OpenSession(k)
    BY <1>0, <1>1, <2>2 DEF SaveCustomer, OpenSession, BillTypeOK, Checkout
  <2>3. CASE \E c \in Customers : CreateCustomer(k, c)
    BY <1>0, <1>1, <2>3 DEF CreateCustomer, BillTypeOK, Checkout
  <2> QED BY <2>1, <2>2, <2>3
<1>3. minted \subseteq minted' /\ (customer # NoCustomer => customer' # NoCustomer)
      /\ IsFiniteSet(minted')
  <2>1. CASE \E c \in Customers : CreateCustomer(k, c)
    BY <1>0, <2>1, FS_AddElement DEF CreateCustomer, CustomerInv
  <2>2. CASE SaveCustomer(k)
    BY <1>0, <2>2 DEF SaveCustomer, CustomerInv
  <2>3. CASE ReadCustomer(k) \/ OpenSession(k)
    BY <1>0, <2>3 DEF ReadCustomer, OpenSession, CustomerInv
  <2> QED BY <2>1, <2>2, <2>3
<1>4. /\ customer' # NoCustomer => customer' \in minted'
      /\ checkout'[k].step \in {"save", "session", "done"} => checkout'[k].customer \in minted'
      /\ checkout'[k].step \in {"session", "done"} => customer' # NoCustomer
      /\ \A j \in Checkouts : j # k => checkout'[j] = checkout[j]
  <2>1. CASE ReadCustomer(k)
    BY <1>0, <2>1 DEF ReadCustomer, CustomerInv
  <2>2. CASE SaveCustomer(k)
    BY <1>0, <2>2 DEF SaveCustomer, CustomerInv, Checkout
  <2>3. CASE OpenSession(k)
    BY <1>0, <2>3 DEF OpenSession, CustomerInv, Checkout
  <2>4. CASE \E c \in Customers : CreateCustomer(k, c)
    BY <1>0, <2>4 DEF CreateCustomer, CustomerInv
  <2> QED BY <2>1, <2>2, <2>3, <2>4
<1>5. CustomerInv'
  BY <1>0, <1>1, <1>3, <1>4 DEF CustomerInv
<1>6. LedgerInv' /\ EventsInv'
  BY <1>1 DEF BillInv, LedgerInv, Changes, EventAppliesOnce, EventsInv
<1>7. AtMostOne' => AtMostOne
  BY <1>3 DEF AtMostOne
<1>8. OneInv'
  BY <1>1, <1>7 DEF BillInv, OneInv
<1>9. StripeInv'
  <2> SUFFICES ASSUME AtMostOne', NEW c \in minted'
               PROVE  \/ \E e \in DOMAIN sent : LastOf(e) /\ sent[e].price = subscribed[c]
                      \/ /\ \A f \in DOMAIN sent : sent[f].kind = "invoice"
                         /\ subscribed[c] = "none"
    BY <1>1 DEF StripeInv, LastOf
  <2>1. CASE c \in minted
    BY <1>7, <2>1 DEF BillInv, StripeInv
  <2>2. CASE c \notin minted
    <3>1. minted = {} /\ c \in Customers
      BY <1>2, <1>3, <2>2 DEF AtMostOne, BillTypeOK
    <3>2. sent = <<>> \/ DOMAIN sent = {}
      BY <1>0, <3>1 DEF CustomerInv
    <3>3. subscribed[c] = "none"
      BY <1>0, <3>1 DEF CustomerInv
    <3> QED BY <3>2, <3>3
  <2> QED BY <2>1, <2>2
<1> QED BY <1>2, <1>5, <1>6, <1>8, <1>9 DEF BillInv

-----------------------------------------------------------------------------
\* An event is appended: what was sent stays.
LEMMA Appended ==
    ASSUME BillInv, NEW e \in Event, Emit(e)
    PROVE  /\ sent' \in Seq(Event) /\ Len(sent') <= MaxEvents /\ Len(sent') = Len(sent) + 1
           /\ DOMAIN sent' = DOMAIN sent \cup {Len(sent) + 1}
           /\ sent'[Len(sent) + 1] = e
           /\ \A f \in DOMAIN sent : sent'[f] = sent[f] /\ f < Len(sent) + 1
BY BillingAssumption DEF BillInv, BillTypeOK, Emit

\* What Stripe does keeps the invariant: the event it sends is the last.
LEMMA StripeKeeps ==
    ASSUME BillInv, NEW c \in Customers, NEW e \in Event, NEW s \in Prices \cup {"none"},
           Emit(e), e.customer = c, c \in minted, customer # NoCustomer,
           subscribed' = [subscribed EXCEPT ![c] = s],
           e.kind # "invoice" => e.price = s,
           e.kind = "invoice" => s = subscribed[c],
           e.kind = "deleted" <=> e.price = "none" /\ e.kind # "invoice"
    PROVE  BillInv'
<1> USE BillingAssumption
<1>0. /\ BillTypeOK /\ CustomerInv /\ LedgerInv /\ StripeInv /\ EventsInv /\ OneInv
      /\ sent \in Seq(Event) /\ subscribed \in [Customers -> Prices \cup {"none"}]
  BY DEF BillInv, BillTypeOK
<1>1. PICK n \in Nat :
         /\ n = Len(sent) + 1
         /\ sent' \in Seq(Event) /\ Len(sent') <= MaxEvents
         /\ DOMAIN sent' = DOMAIN sent \cup {n}
         /\ sent'[n] = e
         /\ \A f \in DOMAIN sent : sent'[f] = sent[f] /\ f < n
  <2>1. Len(sent) + 1 \in Nat
    BY <1>0
  <2> QED BY <2>1, Appended, Zenon
<1>2. UNCHANGED <<plan, customer, checkout, minted, recorded, deliverer, applied>>
  BY DEF Emit
<1>3. recorded \subseteq DOMAIN sent /\ applied \in Seq(DOMAIN sent)
  BY <1>0 DEF BillTypeOK
<1>4. BillTypeOK'
  <2>1. applied \in Seq(DOMAIN sent')
    BY <1>1, <1>3
  <2> QED BY <1>0, <1>1, <1>2, <1>3, <2>1 DEF BillTypeOK
<1>5. CustomerInv'
  BY <1>0, <1>1, <1>2 DEF CustomerInv
<1>6. LedgerInv'
  <2>1. \A i \in DOMAIN applied : applied[i] \in DOMAIN sent
    BY <1>3
  <2>2. applied # <<>> => Len(applied) \in DOMAIN applied
    BY <1>3
  <2>3. applied # <<>> => sent'[applied[Len(applied)]] = sent[applied[Len(applied)]]
    BY <1>1, <2>1, <2>2
  <2>4. /\ \A i \in DOMAIN applied :
              applied[i] \in recorded /\ NewPlan(sent'[applied[i]]) # "none"
        /\ \A f \in recorded :
              NewPlan(sent'[f]) # "none" => \E i \in DOMAIN applied : applied[i] = f
    BY <1>0, <1>1, <1>3, <2>1 DEF LedgerInv, Changes
  <2>5. plan = IF applied = <<>> THEN "free" ELSE NewPlan(sent'[applied[Len(applied)]])
    BY <1>0, <2>3 DEF LedgerInv
  <2> QED BY <1>0, <1>2, <2>4, <2>5 DEF LedgerInv, EventAppliesOnce, Changes
<1>7. EventsInv'
  BY <1>0, <1>1 DEF EventsInv
<1>8. OneInv'
  BY <1>0, <1>2 DEF OneInv, AtMostOne
<1>9. StripeInv'
  <2> SUFFICES ASSUME AtMostOne, NEW b \in minted
               PROVE  \/ \E f \in DOMAIN sent' : LastOf(f)' /\ sent'[f].price = subscribed'[b]
                      \/ /\ \A f \in DOMAIN sent' : sent'[f].kind = "invoice"
                         /\ subscribed'[b] = "none"
    BY <1>2 DEF StripeInv, AtMostOne
  <2>1. b = c /\ subscribed'[b] = s
    BY <1>0 DEF AtMostOne
  <2>2. CASE e.kind # "invoice"
    <3>1. \A f \in DOMAIN sent' : f <= n
      BY <1>0, <1>1
    <3>2. LastOf(n)'
      BY <1>1, <2>2, <3>1 DEF LastOf
    <3> QED BY <1>1, <2>1, <2>2, <3>2
  <2>3. CASE e.kind = "invoice"
    <3>1. \A f \in DOMAIN sent : LastOf(f) => LastOf(f)'
      BY <1>1, <2>3 DEF LastOf
    <3> QED BY <1>0, <1>1, <2>1, <2>3, <3>1 DEF StripeInv
  <2> QED BY <2>2, <2>3
<1> QED BY <1>4, <1>5, <1>6, <1>7, <1>8, <1>9 DEF BillInv

\* Subscriptions, cancellations and invoices are such steps.
LEMMA SubscribeKeeps ==
    ASSUME BillInv, NEW c \in Customers,
           Unsubscribe(c) \/ Bill(c) \/ \E p \in Prices : Subscribe(c, p)
    PROVE  BillInv'
<1>0. CustomerInv /\ subscribed \in [Customers -> Prices \cup {"none"}]
  BY DEF BillInv, BillTypeOK
<1>1. c \in minted /\ customer # NoCustomer
  <2>1. CASE HasSession(c)
    BY <1>0, <2>1 DEF HasSession, CustomerInv
  <2>2. CASE subscribed[c] # "none"
    BY <1>0, <2>2 DEF CustomerInv
  <2> QED BY <2>1, <2>2 DEF Unsubscribe, Bill, Subscribe
<1>2. CASE Unsubscribe(c)
  <2> DEFINE e == [kind |-> "deleted", customer |-> c, price |-> "none"]
  <2>1. e \in Event
    BY DEF Event
  <2> QED BY <1>1, <1>2, <2>1, StripeKeeps DEF Unsubscribe
<1>3. CASE Bill(c)
  <2> DEFINE e == [kind |-> "invoice", customer |-> c, price |-> "none"]
  <2>1. e \in Event
    BY DEF Event
  <2>2. subscribed' = [subscribed EXCEPT ![c] = subscribed[c]]
        /\ subscribed[c] \in Prices \cup {"none"}
    BY <1>0, <1>3 DEF Bill
  <2>3. Emit(e)
    BY <1>3 DEF Bill
  <2> QED BY <1>1, <2>1, <2>2, <2>3, StripeKeeps
<1>4. ASSUME NEW p \in Prices, Subscribe(c, p) PROVE BillInv'
  <2> DEFINE e == [kind |-> "updated", customer |-> c, price |-> p]
  <2>1. e \in Event /\ p # "none"
    BY BillingAssumption DEF Event, Prices
  <2> QED BY <1>1, <1>4, <2>1, StripeKeeps DEF Subscribe
<1> QED BY <1>2, <1>3, <1>4

-----------------------------------------------------------------------------
\* Reading an event: of one customer it is known.
LEMMA ReadKeeps ==
    ASSUME BillInv, NEW d \in Deliverers, NEW e \in 1 .. MaxEvents, ReadEvent(d, e)
    PROVE  BillInv'
<1>0. BillTypeOK /\ CustomerInv /\ deliverer \in [Deliverers -> Deliverer]
  BY DEF BillInv, BillTypeOK
<1>1. /\ UNCHANGED <<plan, customer, checkout, minted, subscribed, sent, recorded, applied>>
      /\ e \in DOMAIN sent /\ deliverer[d].step = "idle"
      /\ deliverer' = [deliverer EXCEPT ![d] =
                         [step |-> "apply", event |-> e, known |-> customer = sent[e].customer]]
  BY DEF ReadEvent
<1>2. [step |-> "apply", event |-> e, known |-> customer = sent[e].customer] \in Deliverer
  <2>1. e \in 0 .. MaxEvents /\ (customer = sent[e].customer) \in BOOLEAN
    BY BillingAssumption
  <2> QED BY <2>1 DEF Deliverer
<1>3. BillTypeOK'
  BY <1>0, <1>1, <1>2 DEF BillTypeOK
<1>4. CustomerInv'
  BY <1>0, <1>1 DEF CustomerInv
<1>5. LedgerInv' /\ StripeInv' /\ EventsInv'
  BY <1>1 DEF BillInv, LedgerInv, Changes, EventAppliesOnce, StripeInv, AtMostOne, LastOf, EventsInv
<1>6. OneInv'
  <2>1. AtMostOne => customer = sent[e].customer
    BY <1>0, <1>1 DEF AtMostOne, CustomerInv
  <2>2. \A f \in Deliverers : f # d => deliverer'[f] = deliverer[f]
    BY <1>0, <1>1
  <2>3. deliverer'[d].known = (customer = sent[e].customer)
    BY <1>0, <1>1
  <2> QED BY <1>1, <2>1, <2>2, <2>3 DEF BillInv, OneInv, AtMostOne
<1> QED BY <1>3, <1>4, <1>5, <1>6 DEF BillInv

\* A deliverer that leaves.
LEMMA LeaveKeeps ==
    ASSUME BillInv, NEW d \in Deliverers, Leave(d)
    PROVE  /\ deliverer' \in [Deliverers -> Deliverer]
           /\ deliverer'[d].step = "idle"
           /\ \A f \in Deliverers : f # d => deliverer'[f] = deliverer[f]
<1>1. [step |-> "idle", event |-> 0, known |-> FALSE] \in Deliverer
  BY BillingAssumption DEF Deliverer
<1> QED BY <1>1 DEF BillInv, BillTypeOK, Leave

\* An event that is answered with an error changes nothing else.
LEMMA RefuseKeeps ==
    ASSUME BillInv, NEW d \in Deliverers, AppliedBeside(d) \/ UnknownCustomer(d)
    PROVE  BillInv'
<1>0. /\ BillTypeOK /\ CustomerInv
      /\ deliverer[d].step = "apply" /\ deliverer[d].event \in DOMAIN sent
  BY DEF BillInv, AppliedBeside, UnknownCustomer, CustomerInv
<1>1. /\ UNCHANGED <<plan, customer, checkout, minted, subscribed, sent, recorded, applied>>
      /\ Leave(d)
  BY DEF AppliedBeside, UnknownCustomer
<1>2. /\ deliverer' \in [Deliverers -> Deliverer]
      /\ deliverer'[d].step = "idle"
      /\ \A f \in Deliverers : f # d => deliverer'[f] = deliverer[f]
  BY <1>1, LeaveKeeps
<1>3. BillTypeOK'
  BY <1>0, <1>1, <1>2 DEF BillTypeOK
<1>4. CustomerInv'
  BY <1>0, <1>1, <1>2 DEF CustomerInv
<1>5. LedgerInv' /\ StripeInv' /\ EventsInv'
  BY <1>1 DEF BillInv, LedgerInv, Changes, EventAppliesOnce, StripeInv, AtMostOne, LastOf, EventsInv
<1>6. OneInv'
  BY <1>1, <1>2 DEF BillInv, OneInv, AtMostOne
<1> QED BY <1>3, <1>4, <1>5, <1>6 DEF BillInv

\* An event that is applied is recorded with what it changes.
LEMMA ApplyKeeps ==
    ASSUME BillInv, NEW d \in Deliverers, ApplySubscription(d)
    PROVE  BillInv'
<1>0. /\ BillTypeOK /\ CustomerInv /\ LedgerInv /\ EventsInv
      /\ sent \in Seq(Event) /\ applied \in Seq(DOMAIN sent) /\ recorded \subseteq DOMAIN sent
  BY DEF BillInv, BillTypeOK
<1>1. PICK e \in DOMAIN sent : e = deliverer[d].event
  BY <1>0 DEF ApplySubscription, CustomerInv
<1>2. /\ UNCHANGED <<customer, checkout, minted, subscribed, sent>>
      /\ e \notin recorded /\ recorded' = recorded \cup {e}
      /\ Leave(d)
  BY <1>1 DEF ApplySubscription, RecordEvent
<1>3. \/ ~Changes(e) /\ UNCHANGED <<plan, applied>>
      \/ Changes(e) /\ plan' = NewPlan(sent[e]) /\ applied' = Append(applied, e)
  BY <1>1 DEF ApplySubscription, EventOf, Changes
<1>4. /\ deliverer' \in [Deliverers -> Deliverer]
      /\ deliverer'[d].step = "idle"
      /\ \A f \in Deliverers : f # d => deliverer'[f] = deliverer[f]
  BY <1>2, LeaveKeeps
<1>5. Changes(e) => NewPlan(sent[e]) \in PaidPlans \cup {"free"}
  BY DEF Changes, NewPlan
<1>6. BillTypeOK'
  <2>1. plan' \in PaidPlans \cup {"free"}
    BY <1>0, <1>3, <1>5 DEF BillTypeOK
  <2>2. Append(applied, e) \in Seq(DOMAIN sent)
    BY <1>0, <1>1
  <2>3. applied' \in Seq(DOMAIN sent)
    BY <1>0, <1>3, <2>2
  <2> QED BY <1>0, <1>1, <1>2, <1>4, <2>1, <2>3 DEF BillTypeOK
<1>7. CustomerInv'
  BY <1>0, <1>2, <1>4 DEF CustomerInv
<1>8. StripeInv' /\ EventsInv'
  BY <1>2 DEF BillInv, StripeInv, AtMostOne, LastOf, EventsInv
<1>9. OneInv'
  BY <1>2, <1>4 DEF BillInv, OneInv, AtMostOne
<1>10. LedgerInv'
  <2>1. CASE ~Changes(e) /\ UNCHANGED <<plan, applied>>
    BY <1>0, <1>2, <2>1 DEF LedgerInv, Changes, EventAppliesOnce
  <2>2. CASE Changes(e) /\ plan' = NewPlan(sent[e]) /\ applied' = Append(applied, e)
    <3>1. PICK n \in Nat :
             /\ n = Len(applied) + 1 /\ Len(applied') = n /\ applied' # <<>>
             /\ DOMAIN applied' = DOMAIN applied \cup {n} /\ n \notin DOMAIN applied
             /\ applied'[n] = e
             /\ \A i \in DOMAIN applied : applied'[i] = applied[i]
      <4>1. Len(applied) + 1 \in Nat /\ Len(applied') = Len(applied) + 1 /\ applied' # <<>>
        BY <1>0, <2>2
      <4>2. /\ DOMAIN applied' = DOMAIN applied \cup {Len(applied) + 1}
            /\ Len(applied) + 1 \notin DOMAIN applied
        BY <1>0, <2>2
      <4>3. /\ applied'[Len(applied) + 1] = e
            /\ \A i \in DOMAIN applied : applied'[i] = applied[i]
        BY <1>0, <2>2
      <4> QED BY <4>1, <4>2, <4>3, Zenon
    <3>2. \A i \in DOMAIN applied : applied[i] # e
      BY <1>0, <1>2 DEF LedgerInv
    <3>3. EventAppliesOnce'
      BY <1>0, <3>1, <3>2 DEF LedgerInv, EventAppliesOnce
    <3>4. ASSUME NEW i \in DOMAIN applied'
          PROVE  applied'[i] \in recorded' /\ NewPlan(sent'[applied'[i]]) # "none"
      BY <1>0, <1>2, <2>2, <3>1 DEF LedgerInv, Changes
    <3>5. ASSUME NEW f \in recorded', NewPlan(sent'[f]) # "none"
          PROVE  \E i \in DOMAIN applied' : applied'[i] = f
      BY <1>0, <1>2, <3>1, <3>5 DEF LedgerInv, Changes
    <3>6. plan' = IF applied' = <<>> THEN "free" ELSE NewPlan(sent'[applied'[Len(applied')]])
      BY <1>2, <2>2, <3>1
    <3> QED BY <3>3, <3>4, <3>5, <3>6 DEF LedgerInv, Changes
  <2> QED BY <1>3, <2>1, <2>2
<1> QED BY <1>6, <1>7, <1>8, <1>9, <1>10 DEF BillInv

\* Every step keeps the invariant.
LEMMA NextBill == BillInv /\ [BillNext]_billVars => BillInv'
<1>1. ASSUME BillInv, BillNext PROVE BillInv'
  BY <1>1, CheckoutKeeps, SubscribeKeeps, ReadKeeps, RefuseKeeps, ApplyKeeps DEF BillNext
<1>2. ASSUME BillInv, UNCHANGED billVars PROVE BillInv'
  BY <1>2 DEF billVars, BillInv, BillTypeOK, CustomerInv, LedgerInv, Changes, EventAppliesOnce,
     StripeInv, AtMostOne, LastOf, EventsInv, OneInv
<1> QED BY <1>1, <1>2

-----------------------------------------------------------------------------
\* The invariant the theorems below rest on holds in every state.
THEOREM BillInvHolds == BillSpec => []BillInv
<1> QED BY InitBill, NextBill, PTL DEF BillSpec

\* The types of the workspace's plan and customer, of Stripe's events, and of
\* checkouts and deliveries (billing.service.ts).
THEOREM BillTypeHolds == BillSpec => []BillTypeOK
<1>1. BillInv => BillTypeOK
  BY DEF BillInv
<1> QED BY <1>1, BillInvHolds, PTL

\* However events are resent and overlap, one changes the plan once
\* (billing.service.ts: the row of an event is inserted with the change).
THEOREM EventAppliesOnceHolds == BillSpec => []EventAppliesOnce
<1>1. BillInv => EventAppliesOnce
  BY DEF BillInv, LedgerInv
<1> QED BY <1>1, BillInvHolds, PTL

\* One customer made: the two ways to say it agree.
LEMMA OneIsOne == BillInv /\ Cardinality(minted) = 1 => AtMostOne /\ minted # {}
<1>1. ASSUME BillInv, Cardinality(minted) = 1 PROVE AtMostOne /\ minted # {}
  <2>1. \E x : minted = {x}
    BY <1>1, FS_Singleton DEF BillInv, CustomerInv
  <2> QED BY <2>1 DEF AtMostOne
<1> QED BY <1>1

\* Only a second customer makes events unknown: of one, the workspace has it
\* by the time there is an event (billing.service.ts: ensureCustomer).
THEOREM CustomerIsKnownHolds == BillSpec => []CustomerIsKnown
<1>1. BillInv => CustomerIsKnown
  BY OneIsOne DEF CustomerIsKnown, BillInv, OneInv
<1> QED BY <1>1, BillInvHolds, PTL

\* A paid plan was sold by a recorded event (billing.service.ts: only
\* applySubscriptionEvent writes the plan).
THEOREM PaidPlanWasSoldHolds == BillSpec => []PaidPlanWasSold
<1>1. ASSUME BillInv PROVE PaidPlanWasSold
  <2> SUFFICES ASSUME plan # "free"
               PROVE  /\ customer # NoCustomer
                      /\ \E e \in recorded : sent[e].kind = "updated" /\ sent[e].price = plan
                                             /\ sent[e].customer \in minted
    BY DEF PaidPlanWasSold
  <2>1. applied \in Seq(DOMAIN sent) /\ recorded \subseteq DOMAIN sent
    BY <1>1 DEF BillInv, BillTypeOK
  <2>2. applied # <<>> /\ plan = NewPlan(sent[applied[Len(applied)]])
    BY <1>1 DEF BillInv, LedgerInv
  <2>3. Len(applied) \in DOMAIN applied
    BY <2>1, <2>2
  <2>4. applied[Len(applied)] \in recorded /\ Changes(applied[Len(applied)])
    BY <1>1, <2>3 DEF BillInv, LedgerInv
  <2> DEFINE e == applied[Len(applied)]
  <2>5. sent[e].kind = "updated" /\ sent[e].price = plan
    BY <2>2, <2>4 DEF NewPlan, Changes
  <2>6. sent[e].customer \in minted /\ customer # NoCustomer
    BY <1>1, <2>1, <2>4 DEF BillInv, CustomerInv
  <2> QED BY <2>4, <2>5, <2>6
<1> QED BY <1>1, BillInvHolds, PTL

\* Once every event is applied in the order it was sent, the workspace has the
\* plan that is subscribed (billing.service.ts: applySubscriptionEvent).
THEOREM PlanFollowsSubscriptionHolds == BillSpec => []PlanFollowsSubscription
<1>1. ASSUME BillInv PROVE PlanFollowsSubscription
  <2> SUFFICES ASSUME Cardinality(minted) = 1, Increasing(applied), recorded = DOMAIN sent,
                      NEW c \in minted, subscribed[c] # "unlisted"
               PROVE  plan = IF subscribed[c] = "none" THEN "free" ELSE subscribed[c]
    BY DEF PlanFollowsSubscription
  <2>0. /\ AtMostOne /\ applied \in Seq(DOMAIN sent) /\ sent \in Seq(Event)
        /\ LedgerInv /\ EventsInv
    BY <1>1, OneIsOne DEF BillInv, BillTypeOK
  <2>1. CASE /\ \A f \in DOMAIN sent : sent[f].kind = "invoice"
             /\ subscribed[c] = "none"
    <3>1. applied = <<>>
      <4>1. SUFFICES ASSUME applied # <<>> PROVE FALSE
        OBVIOUS
      <4>2. 1 \in DOMAIN applied /\ applied[1] \in DOMAIN sent
        BY <2>0, <4>1
      <4>3. Changes(applied[1])
        BY <2>0, <4>2 DEF LedgerInv
      <4> QED BY <2>1, <4>2, <4>3 DEF Changes, NewPlan
    <3> QED BY <2>0, <2>1, <3>1 DEF LedgerInv
  <2>2. ASSUME NEW e \in DOMAIN sent, LastOf(e), sent[e].price = subscribed[c]
        PROVE  plan = IF subscribed[c] = "none" THEN "free" ELSE subscribed[c]
    <3>1. sent[e] \in Event /\ sent[e].kind # "invoice"
      BY <2>0, <2>2 DEF LastOf
    <3>2. NewPlan(sent[e]) = IF subscribed[c] = "none" THEN "free" ELSE subscribed[c]
      BY <2>0, <2>2, <3>1 DEF NewPlan, Event, Prices, EventsInv
    <3>3. Changes(e)
      BY <2>2, <3>1, <3>2, BillingAssumption DEF Changes, Event, Prices
    <3>4. PICK i \in DOMAIN applied : applied[i] = e
      BY <2>0, <3>3 DEF LedgerInv
    <3>5. applied # <<>> /\ Len(applied) \in DOMAIN applied /\ i <= Len(applied)
          /\ applied[Len(applied)] \in DOMAIN sent
      BY <2>0, <3>4
    <3>6. sent[applied[Len(applied)]].kind # "invoice"
      BY <2>0, <3>5 DEF LedgerInv, Changes, NewPlan
    <3>7. applied[Len(applied)] <= e
      BY <2>2, <3>5, <3>6 DEF LastOf
    <3>8. i = Len(applied)
      <4>1. i < Len(applied) => e < applied[Len(applied)]
        BY <3>4, <3>5 DEF Increasing
      <4>2. i \in Nat /\ Len(applied) \in Nat /\ e \in Nat /\ applied[Len(applied)] \in Nat
        BY <2>0, <3>4, <3>5
      <4> QED BY <3>5, <3>7, <4>1, <4>2
    <3> QED BY <2>0, <3>2, <3>4, <3>5, <3>8 DEF LedgerInv
  <2> QED BY <1>1, <2>0, <2>1, <2>2 DEF BillInv, StripeInv
<1> QED BY <1>1, BillInvHolds, PTL

=============================================================================
