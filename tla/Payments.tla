------------------------------ MODULE Payments ------------------------------
(***************************************************************************)
(* Payments for submissions: core/payments/payment.service.ts and the      *)
(* payment branch of routes/internal/stripe-webhook.ts.                    *)
(*                                                                         *)
(* Three parties share one table.  Stripe moves its PaymentIntents on its  *)
(* own and sends events at least once, in any order.  A submit request     *)
(* records a payment in two awaits, the retrieve of the intent and the     *)
(* upsert of the row, and what it read may be stale when it writes.  A     *)
(* webhook handler reconciles an event in two statements which run on      *)
(* this.prisma and not on the transaction's client, so that another        *)
(* handler's statements come between them.                                 *)
(***************************************************************************)
EXTENDS Naturals

CONSTANTS
    Submissions,    \* submission ids, one per submit request
    Intents,        \* Stripe PaymentIntents
    Handlers,       \* webhook requests the server works on at one time
    NoSubmission,   \* the submissionId of a row that does not exist
    NoIntent        \* the intent of a recording or handler that has none

ASSUME SentinelAssumption ==
    /\ NoSubmission \notin Submissions
    /\ NoIntent \notin Intents

VARIABLES
    intent,     \* Stripe's status of each intent
    event,      \* Stripe's events: unsent, sent, or acknowledged with 200
    payment,    \* form_payments, by stripePaymentIntentId (unique)
    rec,        \* recordPaymentForSubmission, by the submission it runs for
    handler,    \* reconcileWebhookEvent, by webhook request
    applied     \* history: how often each event has changed its row

payVars == <<intent, event, payment, rec, handler, applied>>

-----------------------------------------------------------------------------
\* Types

IntentStatus == {"none", "requires_payment_method", "requires_capture",
                 "succeeded", "canceled"}

\* The events the service is sent.  It has no case for a canceled intent.
EventType == {"succeeded", "payment_failed", "refunded", "canceled"}

\* One event of each type and intent is followed: its id is the pair.
EventState == {"unsent", "sent", "acked"}

RowStatus == {"pending", "succeeded", "failed", "refunded"}

\* status "none" is a row that does not exist; stamp is stripeEventId.
Row == [status : RowStatus \cup {"none"},
        sub : Submissions \cup {NoSubmission},
        captured : BOOLEAN,
        stamp : EventType \cup {"none"}]

NoRow == [status |-> "none", sub |-> NoSubmission,
          captured |-> FALSE, stamp |-> "none"]

RecStep == {"idle", "retrieved", "recorded", "rejected", "failed"}

Recording == [step : RecStep, intent : Intents \cup {NoIntent},
              seen : IntentStatus]

Handling == [step : {"idle", "dispatch"}, intent : Intents \cup {NoIntent},
             type : EventType \cup {"none"}]

IdleHandler == [step |-> "idle", intent |-> NoIntent, type |-> "none"]

PayTypeOK ==
    /\ intent \in [Intents -> IntentStatus]
    /\ event \in [Intents -> [EventType -> EventState]]
    /\ payment \in [Intents -> Row]
    /\ rec \in [Submissions -> Recording]
    /\ handler \in [Handlers -> Handling]
    /\ applied \in [Intents -> [EventType -> Nat]]

-----------------------------------------------------------------------------
\* Stripe

Send(i, t) == event' = [event EXCEPT ![i][t] = "sent"]

\* createIntentForForm: Stripe makes the intent, no row is written.
CreateIntent(i) ==
    /\ intent[i] = "none"
    /\ intent' = [intent EXCEPT ![i] = "requires_payment_method"]
    /\ UNCHANGED <<event, payment, rec, handler, applied>>

\* The customer's payment method is declined.
PaymentFails(i) ==
    /\ intent[i] = "requires_payment_method"
    /\ event[i]["payment_failed"] = "unsent"
    /\ Send(i, "payment_failed")
    /\ UNCHANGED <<intent, payment, rec, handler, applied>>

\* An intent with manual capture is authorised.
Authorize(i) ==
    /\ intent[i] = "requires_payment_method"
    /\ intent' = [intent EXCEPT ![i] = "requires_capture"]
    /\ UNCHANGED <<event, payment, rec, handler, applied>>

\* The money is taken, at once or after an authorisation.
Capture(i) ==
    /\ intent[i] \in {"requires_payment_method", "requires_capture"}
    /\ intent' = [intent EXCEPT ![i] = "succeeded"]
    /\ Send(i, "succeeded")
    /\ UNCHANGED <<payment, rec, handler, applied>>

CancelIntent(i) ==
    /\ intent[i] \in {"requires_payment_method", "requires_capture"}
    /\ intent' = [intent EXCEPT ![i] = "canceled"]
    /\ Send(i, "canceled")
    /\ UNCHANGED <<payment, rec, handler, applied>>

\* A refund leaves the intent's own status at succeeded.
Refund(i) ==
    /\ intent[i] = "succeeded"
    /\ event[i]["refunded"] = "unsent"
    /\ Send(i, "refunded")
    /\ UNCHANGED <<intent, payment, rec, handler, applied>>

-----------------------------------------------------------------------------
\* recordPaymentForSubmission, for the submission s

\* Mutant: an intent that nobody has confirmed is good enough.
AcceptableStatusesMutant == {"succeeded", "requires_capture", "requires_payment_method"}

AcceptableStatuses == {"succeeded", "requires_capture"}

IntentStatusToFormStatus(status) ==
    CASE status = "succeeded" -> "succeeded"
      [] status = "canceled"  -> "failed"
      [] OTHER                -> "pending"

\* The retrieve and the check of the status it returned.
RetrieveIntent(s, i) ==
    /\ rec[s].step = "idle"
    /\ intent[i] # "none"
    /\ rec' = [rec EXCEPT ![s] =
                 [step |-> IF intent[i] \in AcceptableStatuses
                           THEN "retrieved" ELSE "rejected",
                  intent |-> i,
                  seen |-> intent[i]]]
    /\ UNCHANGED <<intent, event, payment, handler, applied>>

\* Stripe cannot be reached, or knows no such intent.
RetrieveFails(s) ==
    /\ rec[s].step = "idle"
    /\ rec' = [rec EXCEPT ![s].step = "failed"]
    /\ UNCHANGED <<intent, event, payment, handler, applied>>

\* Mutant: the update takes the row over to the submission at hand.
UpsertedRowMutant(row, s, seen) ==
    [row EXCEPT !.status = IntentStatusToFormStatus(seen), !.sub = s,
                !.captured = @ \/ seen = "succeeded"]

\* The row after the upsert: created for s, or updated where it is, which
\* leaves its submissionId and its stripeEventId as they are.
UpsertedRow(row, s, seen) ==
    IF row.status = "none"
    THEN [status |-> IntentStatusToFormStatus(seen), sub |-> s,
          captured |-> seen = "succeeded", stamp |-> "none"]
    ELSE [row EXCEPT !.status = IntentStatusToFormStatus(seen),
                     !.captured = @ \/ seen = "succeeded"]

\* The upsert commits.  Its caller is told so, or, when the connection
\* breaks after the commit, is thrown an error all the same.
UpsertPayment(s) ==
    /\ rec[s].step = "retrieved"
    /\ LET i == rec[s].intent
       IN payment' = [payment EXCEPT ![i] = UpsertedRow(@, s, rec[s].seen)]
    /\ \E outcome \in {"recorded", "failed"} :
          rec' = [rec EXCEPT ![s].step = outcome]
    /\ UNCHANGED <<intent, event, handler, applied>>

\* The upsert throws and writes nothing.
UpsertFails(s) ==
    /\ rec[s].step = "retrieved"
    /\ rec' = [rec EXCEPT ![s].step = "failed"]
    /\ UNCHANGED <<intent, event, payment, handler, applied>>

-----------------------------------------------------------------------------
\* reconcileWebhookEvent, in the handler h

Acknowledge(i, t) == event' = [event EXCEPT ![i][t] = "acked"]

\* The idempotency check finds the event's stamp, or finds no case for the
\* event's type: 200 either way, nothing is written.
SkipEvent(h, i, t) ==
    /\ handler[h].step = "idle"
    /\ event[i][t] # "unsent"
    /\ payment[i].stamp = t \/ t = "canceled"
    /\ Acknowledge(i, t)
    /\ UNCHANGED <<intent, payment, rec, handler, applied>>

\* The check finds no stamp, and the dispatch begins.
LookupEvent(h, i, t) ==
    /\ handler[h].step = "idle"
    /\ event[i][t] # "unsent"
    /\ payment[i].stamp # t
    /\ t # "canceled"
    /\ handler' = [handler EXCEPT ![h] =
                     [step |-> "dispatch", intent |-> i, type |-> t]]
    /\ UNCHANGED <<intent, event, payment, rec, applied>>

\* The row after an event of type t.
Reconciled(row, t) ==
    CASE t = "succeeded"      -> [row EXCEPT !.status = "succeeded",
                                             !.captured = TRUE, !.stamp = t]
      [] t = "payment_failed" -> [row EXCEPT !.status = "failed", !.stamp = t]
      [] t = "refunded"       -> [row EXCEPT !.status = "refunded", !.stamp = t]

\* Mutant: updateMany without the condition on stripeEventId.
MatchesMutant(row) == row.status # "none"

\* updateMany matches the intent's row while no event has stamped it.
Matches(row) == row.status # "none" /\ row.stamp = "none"

\* The update commits on its own.  If the process dies before the 200, or the
\* 200 is lost, the event is sent again.
ApplyEvent(h) ==
    LET i == handler[h].intent
        t == handler[h].type
    IN /\ handler[h].step = "dispatch"
       /\ \/ /\ Matches(payment[i])
             /\ payment' = [payment EXCEPT ![i] = Reconciled(@, t)]
             /\ applied' = [applied EXCEPT ![i][t] = @ + 1]
          \/ ~Matches(payment[i]) /\ UNCHANGED <<payment, applied>>
       /\ Acknowledge(i, t) \/ UNCHANGED event
       /\ handler' = [handler EXCEPT ![h] = IdleHandler]
       /\ UNCHANGED <<intent, rec>>

\* A statement fails or the process dies before the update: no 200, and Stripe
\* sends the event again.
HandlerFails(h) ==
    /\ handler[h].step = "dispatch"
    /\ handler' = [handler EXCEPT ![h] = IdleHandler]
    /\ UNCHANGED <<intent, event, payment, rec, applied>>

-----------------------------------------------------------------------------
PayInit ==
    /\ intent = [i \in Intents |-> "none"]
    /\ event = [i \in Intents |-> [t \in EventType |-> "unsent"]]
    /\ payment = [i \in Intents |-> NoRow]
    /\ rec = [s \in Submissions |->
                [step |-> "idle", intent |-> NoIntent, seen |-> "none"]]
    /\ handler = [h \in Handlers |-> IdleHandler]
    /\ applied = [i \in Intents |-> [t \in EventType |-> 0]]

StripeStep(i) ==
    \/ CreateIntent(i) \/ PaymentFails(i) \/ Authorize(i)
    \/ Capture(i) \/ CancelIntent(i) \/ Refund(i)

RecordStep(s) ==
    \/ \E i \in Intents : RetrieveIntent(s, i)
    \/ RetrieveFails(s) \/ UpsertPayment(s) \/ UpsertFails(s)

HandlerStep(h) ==
    \/ \E i \in Intents, t \in EventType : SkipEvent(h, i, t) \/ LookupEvent(h, i, t)
    \/ ApplyEvent(h) \/ HandlerFails(h)

PayNext ==
    \/ \E i \in Intents : StripeStep(i)
    \/ \E s \in Submissions : RecordStep(s)
    \/ \E h \in Handlers : HandlerStep(h)

PaySpec == PayInit /\ [][PayNext]_payVars

-----------------------------------------------------------------------------
\* Properties

\* Whatever a form_payments row says was true at Stripe at some time, though
\* a recording wrote a status it had read earlier and a handler applied an
\* event that was sent long ago (payment.service.ts, both writers of the row).
StatusJustified ==
    \A i \in Intents :
        /\ payment[i].status = "succeeded" => intent[i] = "succeeded"
        /\ payment[i].status = "refunded" => event[i]["refunded"] # "unsent"
        /\ payment[i].status = "failed" => event[i]["payment_failed"] # "unsent"
        /\ payment[i].status = "pending" =>
              intent[i] \in {"requires_capture", "succeeded", "canceled"}
        /\ payment[i].captured => intent[i] = "succeeded"

\* The same event changes a row once at most: "preventing double-processing on
\* retries".  Stripe sends an event again after a lost answer and also after a
\* 200, two handlers may both be past the lookup of its id, and a client's
\* recording may have rewritten the row since it was applied.
WebhookAppliesOnce ==
    \A i \in Intents, t \in EventType : applied[i][t] <= 1

\* A row stays with the submission it was created for, and its event stamp,
\* once set, is never replaced, by either writer.
OwnerAndStampKept ==
    [][\A i \in Intents : payment[i].status # "none" =>
          /\ payment'[i].status # "none"
          /\ payment'[i].sub = payment[i].sub
          /\ payment[i].stamp # "none" => payment'[i].stamp = payment[i].stamp]_payVars

\* When a handler answers 200 for the refund of a payment it has a row for,
\* the row shows the refund: the header of reconcileWebhookEvent has an event
\* either processed before, or its state transition made together with the
\* write of its id.
FirstAck(i, t) == event[i][t] = "sent" /\ event'[i][t] = "acked"

RefundReflected ==
    [][\A i \in Intents :
          FirstAck(i, "refunded") /\ payment[i].status # "none"
             => payment'[i].status = "refunded"]_payVars

=============================================================================
