--------------------------- MODULE Payments_proofs ---------------------------
(***************************************************************************)
(* Proofs about Payments, for any number of submissions, intents and       *)
(* handlers.                                                               *)
(*                                                                         *)
(* StatusJustified speaks of the rows only, and both writers write what    *)
(* they learned earlier.  It becomes inductive with what is still true of  *)
(* that when they write: a status that was read can only have moved on     *)
(* (SeenHolds), an event in a handler's hands was sent (DispatchedSent),   *)
(* and a succeeded event means a succeeded intent (SentMeans).  That an    *)
(* event is applied once rests on the stamp it leaves: whatever writes the *)
(* row later keeps it (AppliedIsStamp).                                    *)
(***************************************************************************)
EXTENDS Payments, TLAPS

\* Once an intent has been authorised, it is in one of these for ever.
Settled == {"requires_capture", "succeeded", "canceled"}

SeenHolds ==
    \A s \in Submissions : rec[s].step = "retrieved" =>
        /\ rec[s].intent \in Intents
        /\ rec[s].seen \in AcceptableStatuses
        /\ intent[rec[s].intent] \in Settled
        /\ rec[s].seen = "succeeded" => intent[rec[s].intent] = "succeeded"

DispatchedSent ==
    \A h \in Handlers : handler[h].step = "dispatch" =>
        /\ handler[h].intent \in Intents
        /\ handler[h].type \in {"succeeded", "payment_failed", "refunded"}
        /\ event[handler[h].intent][handler[h].type] # "unsent"

SentMeans ==
    \A i \in Intents : event[i]["succeeded"] # "unsent" => intent[i] = "succeeded"

\* The event that changed a row is the one whose id it bears, and did so once.
AppliedIsStamp ==
    \A i \in Intents, t \in EventType :
        /\ applied[i][t] <= 1
        /\ applied[i][t] # 0 => payment[i].status # "none" /\ payment[i].stamp = t

PayInv == PayTypeOK /\ StatusJustified /\ SeenHolds /\ DispatchedSent /\ SentMeans
            /\ AppliedIsStamp

\* Before the first intent the invariant holds.
LEMMA InitPayInv == PayInit => PayInv
<1> SUFFICES ASSUME PayInit PROVE PayInv
  OBVIOUS
<1>1. PayTypeOK
  BY DEF PayInit, PayTypeOK, NoRow, Row, IdleHandler, Handling, Recording,
     IntentStatus, EventType, EventState, RowStatus, RecStep
<1>2. StatusJustified /\ SeenHolds /\ DispatchedSent /\ SentMeans
  BY DEF PayInit, StatusJustified, SeenHolds, DispatchedSent, SentMeans, NoRow,
     IdleHandler, EventType
<1>3. AppliedIsStamp
  BY DEF PayInit, AppliedIsStamp
<1> QED BY <1>1, <1>2, <1>3 DEF PayInv

\* What Stripe does keeps the invariant: statuses move on, events get sent.
LEMMA StripeKeepsInv ==
    ASSUME PayInv, NEW i \in Intents, StripeStep(i)
    PROVE  PayInv'
<1>0. /\ intent \in [Intents -> IntentStatus]
      /\ event \in [Intents -> [EventType -> EventState]]
      /\ SentMeans
  BY DEF PayInv, PayTypeOK
<1>a. /\ \/ intent' = intent
         \/ \E st \in {"requires_payment_method"} :
               intent[i] = "none" /\ intent' = [intent EXCEPT ![i] = st]
         \/ \E st \in Settled :
               /\ intent[i] \in {"requires_payment_method", "requires_capture"}
               /\ intent' = [intent EXCEPT ![i] = st]
      /\ \/ event' = event
         \/ \E t \in EventType :
               /\ event' = [event EXCEPT ![i][t] = "sent"]
               /\ t = "succeeded" => intent' = [intent EXCEPT ![i] = "succeeded"]
      /\ UNCHANGED <<payment, rec, handler, applied>>
  BY DEF StripeStep, CreateIntent, PaymentFails, Authorize, Capture, CancelIntent, Refund,
     Send, EventType, Settled
<1>1. PayTypeOK'
  <2>1. intent' \in [Intents -> IntentStatus]
    BY <1>0, <1>a DEF IntentStatus, Settled
  <2>2. event' \in [Intents -> [EventType -> EventState]]
    BY <1>0, <1>a DEF EventState
  <2> QED BY <1>a, <2>1, <2>2 DEF PayInv, PayTypeOK
<1>2. /\ \A j \in Intents, t \in EventType : event[j][t] # "unsent" => event'[j][t] # "unsent"
      /\ \A j \in Intents : intent[j] = "succeeded" => intent'[j] = "succeeded"
      /\ \A j \in Intents : intent[j] \in Settled => intent'[j] \in Settled
      /\ \A j \in Intents : event'[j]["succeeded"] # "unsent" => intent'[j] = "succeeded"
      /\ UNCHANGED <<payment, rec, handler, applied>>
  <2>1. \A j \in Intents, t \in EventType : event[j][t] # "unsent" => event'[j][t] # "unsent"
    BY <1>0, <1>a
  <2>2. /\ \A j \in Intents : intent[j] = "succeeded" => intent'[j] = "succeeded"
        /\ \A j \in Intents : intent[j] \in Settled => intent'[j] \in Settled
    BY <1>0, <1>a DEF Settled
  <2>3. \A j \in Intents : event'[j]["succeeded"] # "unsent" => intent'[j] = "succeeded"
    <3>1. CASE event' = event
      BY <1>0, <2>2, <3>1 DEF SentMeans
    <3>2. CASE event' # event
      <4>1. PICK t \in EventType :
              /\ event' = [event EXCEPT ![i][t] = "sent"]
              /\ t = "succeeded" => intent' = [intent EXCEPT ![i] = "succeeded"]
        BY <1>a, <3>2
      <4>2. CASE t = "succeeded"
        BY <1>0, <2>2, <4>1, <4>2 DEF SentMeans
      <4>3. CASE t # "succeeded"
        <5>1. \A j \in Intents : event'[j]["succeeded"] = event[j]["succeeded"]
          BY <1>0, <4>1, <4>3 DEF EventType
        <5> QED BY <1>0, <2>2, <5>1 DEF SentMeans
      <4> QED BY <4>2, <4>3
    <3> QED BY <3>1, <3>2
  <2> QED BY <1>a, <2>1, <2>2, <2>3
<1>3. StatusJustified'
  BY <1>2 DEF PayInv, StatusJustified, EventType, Settled
<1>4. SeenHolds' /\ SentMeans'
  BY <1>2 DEF PayInv, SeenHolds, SentMeans
<1>5. DispatchedSent'
  BY <1>2 DEF PayInv, DispatchedSent, EventType
<1>6. AppliedIsStamp'
  BY <1>2 DEF PayInv, AppliedIsStamp
<1> QED BY <1>1, <1>3, <1>4, <1>5, <1>6 DEF PayInv

\* The row that an upsert leaves says what the intent has been through.
LEMMA UpsertJustified ==
    ASSUME PayInv, NEW s \in Submissions, rec[s].step = "retrieved",
           NEW row, row = UpsertedRow(payment[rec[s].intent], s, rec[s].seen)
    PROVE  /\ row \in Row
           /\ row.status \in {"succeeded", "pending"}
           /\ row.status = "succeeded" => intent[rec[s].intent] = "succeeded"
           /\ row.captured => intent[rec[s].intent] = "succeeded"
<1>1. /\ rec[s].intent \in Intents
      /\ rec[s].seen \in {"succeeded", "requires_capture"}
      /\ rec[s].seen = "succeeded" => intent[rec[s].intent] = "succeeded"
  BY DEF PayInv, SeenHolds, AcceptableStatuses
<1>2. payment[rec[s].intent] \in Row
  BY <1>1 DEF PayInv, PayTypeOK
<1>3. payment[rec[s].intent].captured => intent[rec[s].intent] = "succeeded"
  BY <1>1 DEF PayInv, StatusJustified
<1>4. CASE rec[s].seen = "succeeded"
  BY <1>1, <1>2, <1>4 DEF UpsertedRow, IntentStatusToFormStatus, Row, RowStatus
<1>5. CASE rec[s].seen = "requires_capture"
  BY <1>1, <1>2, <1>3, <1>5 DEF UpsertedRow, IntentStatusToFormStatus, Row, RowStatus
<1> QED BY <1>1, <1>4, <1>5

\* The retrieve and the upsert of a recording keep the invariant.
LEMMA RecordKeepsInv ==
    ASSUME PayInv, NEW s \in Submissions, RecordStep(s)
    PROVE  PayInv'
<1> USE DEF PayInv
<1>1. ASSUME NEW i \in Intents, RetrieveIntent(s, i) PROVE PayInv'
  <2>1. PayTypeOK'
    BY <1>1 DEF PayTypeOK, RetrieveIntent, Recording, RecStep
  <2>2. SeenHolds'
    <3>1. UNCHANGED intent
      BY <1>1 DEF RetrieveIntent
    <3>2. /\ rec'[s].intent = i /\ rec'[s].seen = intent[i]
          /\ rec'[s].step = "retrieved" => intent[i] \in AcceptableStatuses
          /\ \A q \in Submissions : q # s => rec'[q] = rec[q]
      BY <1>1 DEF PayTypeOK, RetrieveIntent
    <3> SUFFICES ASSUME NEW q \in Submissions, rec'[q].step = "retrieved"
                 PROVE  /\ rec'[q].intent \in Intents
                        /\ rec'[q].seen \in AcceptableStatuses
                        /\ intent[rec'[q].intent] \in Settled
                        /\ rec'[q].seen = "succeeded" => intent[rec'[q].intent] = "succeeded"
      BY <3>1 DEF SeenHolds
    <3>3. CASE q = s
      BY <3>2, <3>3 DEF AcceptableStatuses, Settled
    <3>4. CASE q # s
      BY <3>2, <3>4 DEF SeenHolds
    <3> QED BY <3>3, <3>4
  <2> QED BY <1>1, <2>1, <2>2 DEF RetrieveIntent, StatusJustified, DispatchedSent, SentMeans,
         AppliedIsStamp
<1>2. ASSUME RetrieveFails(s) \/ UpsertFails(s) PROVE PayInv'
  <2>1. PayTypeOK'
    BY <1>2 DEF PayTypeOK, RetrieveFails, UpsertFails, Recording, RecStep
  <2>2. SeenHolds'
    <3>1. rec' = [rec EXCEPT ![s].step = "failed"] /\ UNCHANGED intent
      BY <1>2 DEF RetrieveFails, UpsertFails
    <3> QED BY <3>1 DEF PayTypeOK, SeenHolds
  <2> QED
    BY <1>2, <2>1, <2>2 DEF RetrieveFails, UpsertFails, StatusJustified, DispatchedSent, SentMeans,
       AppliedIsStamp
<1>3. ASSUME UpsertPayment(s) PROVE PayInv'
  <2> DEFINE i == rec[s].intent
             row == UpsertedRow(payment[i], s, rec[s].seen)
  <2>1. i \in Intents /\ intent[i] \in Settled
    BY <1>3 DEF SeenHolds, UpsertPayment
  <2>2. /\ row \in Row
        /\ row.status \in {"succeeded", "pending"}
        /\ row.status = "succeeded" => intent[i] = "succeeded"
        /\ row.captured => intent[i] = "succeeded"
    BY <1>3, UpsertJustified DEF UpsertPayment
  <2>3. payment' = [payment EXCEPT ![i] = row]
    BY <1>3 DEF UpsertPayment
  <2>4. /\ UNCHANGED <<intent, event, handler, applied>>
        /\ \E o \in {"recorded", "failed"} : rec' = [rec EXCEPT ![s].step = o]
    BY <1>3 DEF UpsertPayment
  <2>k. payment[i].status # "none" => row.status # "none" /\ row.stamp = payment[i].stamp
    BY <2>1, <2>2 DEF UpsertedRow, PayTypeOK, Row
  <2> HIDE DEF i, row
  <2>5. PayTypeOK'
    BY <2>1, <2>2, <2>3, <2>4 DEF PayTypeOK, Recording, RecStep
  <2>6. StatusJustified'
    BY <2>1, <2>2, <2>3, <2>4 DEF PayTypeOK, StatusJustified, Settled
  <2>7. SeenHolds'
    BY <2>4 DEF PayTypeOK, SeenHolds
  <2>8. AppliedIsStamp'
    BY <2>1, <2>3, <2>4, <2>k DEF PayTypeOK, AppliedIsStamp
  <2> QED BY <2>4, <2>5, <2>6, <2>7, <2>8 DEF DispatchedSent, SentMeans
<1> QED BY <1>1, <1>2, <1>3 DEF RecordStep

\* The lookup and the updates of a webhook handler keep the invariant.
LEMMA HandlerKeepsInv ==
    ASSUME PayInv, NEW h \in Handlers, HandlerStep(h)
    PROVE  PayInv'
<1> USE DEF PayInv
<1>1. ASSUME NEW i \in Intents, NEW t \in EventType, SkipEvent(h, i, t) PROVE PayInv'
  <2>1. PayTypeOK'
    BY <1>1 DEF PayTypeOK, SkipEvent, Acknowledge, EventState
  <2>2. \A j \in Intents, u \in EventType :
           event'[j][u] = "unsent" <=> event[j][u] = "unsent"
    BY <1>1 DEF PayTypeOK, SkipEvent, Acknowledge
  <2> QED
    BY <1>1, <2>1, <2>2 DEF SkipEvent, StatusJustified, SeenHolds, DispatchedSent, SentMeans,
       AppliedIsStamp, EventType
<1>2. ASSUME NEW i \in Intents, NEW t \in EventType, LookupEvent(h, i, t) PROVE PayInv'
  <2>1. PayTypeOK'
    BY <1>2 DEF PayTypeOK, LookupEvent, Handling
  <2>2. DispatchedSent'
    BY <1>2 DEF PayTypeOK, LookupEvent, DispatchedSent, EventType
  <2> QED BY <1>2, <2>1, <2>2 DEF LookupEvent, StatusJustified, SeenHolds, SentMeans, AppliedIsStamp
<1>3. ASSUME ApplyEvent(h) PROVE PayInv'
  <2> DEFINE i == handler[h].intent
             t == handler[h].type
  <2>1. /\ i \in Intents
        /\ t \in {"succeeded", "payment_failed", "refunded"}
        /\ event[i][t] # "unsent"
    BY <1>3 DEF DispatchedSent, ApplyEvent
  <2>2. /\ \/ /\ Matches(payment[i])
              /\ payment' = [payment EXCEPT ![i] = Reconciled(payment[i], t)]
              /\ applied' = [applied EXCEPT ![i][t] = @ + 1]
           \/ ~Matches(payment[i]) /\ UNCHANGED <<payment, applied>>
        /\ event' = [event EXCEPT ![i][t] = "acked"] \/ event' = event
        /\ handler' = [handler EXCEPT ![h] = IdleHandler]
        /\ UNCHANGED <<intent, rec>>
    BY <1>3 DEF ApplyEvent, Acknowledge
  <2> HIDE DEF i, t
  <2>3. payment[i] \in Row
    BY <2>1 DEF PayTypeOK
  <2>e. event \in [Intents -> [EventType -> EventState]]
    BY DEF PayTypeOK
  <2>4. /\ \A j \in Intents, u \in EventType :
              event'[j][u] = "unsent" <=> event[j][u] = "unsent"
        /\ event' \in [Intents -> [EventType -> EventState]]
    <3>1. CASE event' = event
      BY <2>e, <3>1
    <3>2. CASE event' = [event EXCEPT ![i][t] = "acked"]
      <4>1. event' \in [Intents -> [EventType -> EventState]]
        BY <2>e, <3>2 DEF EventState
      <4>2. \A j \in Intents, u \in EventType :
               event'[j][u] = "unsent" <=> event[j][u] = "unsent"
        BY <2>e, <2>1, <3>2
      <4> QED BY <4>1, <4>2
    <3> QED BY <2>2, <3>1, <3>2
  <2>5. Reconciled(payment[i], t) \in Row
    BY <2>1, <2>3 DEF Reconciled, Row, RowStatus, EventType
  <2>6. PayTypeOK'
    <3>1. payment' \in [Intents -> Row]
      BY <2>1, <2>2, <2>5 DEF PayTypeOK
    <3>2. event' \in [Intents -> [EventType -> EventState]]
      BY <2>4
    <3>3. handler' \in [Handlers -> Handling]
      BY <2>2 DEF PayTypeOK, IdleHandler, Handling
    <3>4. applied' \in [Intents -> [EventType -> Nat]]
      BY <2>1, <2>2 DEF PayTypeOK, EventType
    <3> QED BY <2>2, <3>1, <3>2, <3>3, <3>4 DEF PayTypeOK
  <2>7. StatusJustified'
    <3> SUFFICES ASSUME NEW j \in Intents
                 PROVE  /\ payment'[j].status = "succeeded" => intent[j] = "succeeded"
                        /\ payment'[j].status = "refunded" => event[j]["refunded"] # "unsent"
                        /\ payment'[j].status = "failed" => event[j]["payment_failed"] # "unsent"
                        /\ payment'[j].status = "pending" =>
                              intent[j] \in {"requires_capture", "succeeded", "canceled"}
                        /\ payment'[j].captured => intent[j] = "succeeded"
      BY <2>2, <2>4 DEF StatusJustified, EventType
    <3>1. CASE j = i /\ Matches(payment[i])
      <4>1. payment'[j] = Reconciled(payment[j], t)
        BY <2>1, <2>2, <3>1 DEF PayTypeOK
      <4>2. CASE t = "succeeded"
        BY <2>1, <2>3, <3>1, <4>1, <4>2 DEF Reconciled, SentMeans, Row
      <4>3. CASE t = "payment_failed"
        BY <2>1, <2>3, <3>1, <4>1, <4>3 DEF Reconciled, StatusJustified, Row
      <4>4. CASE t = "refunded"
        BY <2>1, <2>3, <3>1, <4>1, <4>4 DEF Reconciled, StatusJustified, Row
      <4> QED BY <2>1, <4>2, <4>3, <4>4
    <3>2. CASE ~ (j = i /\ Matches(payment[i]))
      <4>1. payment'[j] = payment[j]
        BY <2>1, <2>2, <3>2 DEF PayTypeOK
      <4> QED BY <4>1 DEF StatusJustified
    <3> QED BY <3>1, <3>2
  <2>8. SeenHolds' /\ SentMeans'
    BY <2>2, <2>4 DEF SeenHolds, SentMeans, EventType
  <2>9. DispatchedSent'
    BY <2>2, <2>4 DEF PayTypeOK, DispatchedSent, IdleHandler, EventType
  <2>10. AppliedIsStamp'
    <3>1. CASE ~Matches(payment[i])
      BY <2>2, <3>1 DEF AppliedIsStamp
    <3>2. CASE Matches(payment[i])
      <4>1. /\ payment' = [payment EXCEPT ![i] = Reconciled(payment[i], t)]
            /\ applied' = [applied EXCEPT ![i][t] = @ + 1]
        BY <2>2, <3>2
      <4>2. \A u \in EventType : applied[i][u] = 0
        BY <2>1, <3>2 DEF Matches, AppliedIsStamp, EventType
      <4>3. /\ payment'[i].status # "none" /\ payment'[i].stamp = t
            /\ \A j \in Intents : j # i => payment'[j] = payment[j]
        BY <2>1, <2>3, <4>1 DEF PayTypeOK, Reconciled, Row
      <4>4. \A u \in EventType : applied'[i][u] = IF u = t THEN 1 ELSE 0
        BY <2>1, <4>1, <4>2 DEF PayTypeOK
      <4>5. \A j \in Intents : j # i => applied'[j] = applied[j]
        BY <4>1 DEF PayTypeOK
      <4> QED BY <4>3, <4>4, <4>5 DEF AppliedIsStamp
    <3> QED BY <3>1, <3>2
  <2> QED BY <2>6, <2>7, <2>8, <2>9, <2>10
<1>4. ASSUME HandlerFails(h) PROVE PayInv'
  <2>1. PayTypeOK'
    BY <1>4 DEF PayTypeOK, HandlerFails, IdleHandler, Handling
  <2>2. DispatchedSent'
    BY <1>4 DEF PayTypeOK, HandlerFails, DispatchedSent, IdleHandler
  <2> QED BY <1>4, <2>1, <2>2 DEF HandlerFails, StatusJustified, SeenHolds, SentMeans, AppliedIsStamp
<1> QED BY <1>1, <1>2, <1>3, <1>4 DEF HandlerStep

\* A step of others, which leaves the variables of Payments alone, keeps it.
LEMMA StutterKeepsInv == PayInv /\ UNCHANGED payVars => PayInv'
  BY DEF PayInv, payVars, PayTypeOK, StatusJustified, SeenHolds, DispatchedSent, SentMeans,
     AppliedIsStamp

\* Every step of Payments keeps the invariant.
LEMMA PayNextInv == PayInv /\ [PayNext]_payVars => PayInv'
  BY StripeKeepsInv, RecordKeepsInv, HandlerKeepsInv, StutterKeepsInv DEF PayNext

\* The invariants of Payments, with what makes them inductive.
THEOREM PayInvHolds == PaySpec => []PayInv
<1> QED BY InitPayInv, PayNextInv, PTL DEF PaySpec

\* Rows, recordings and handlers stay well-typed: only the statuses of the
\* enum form_payment_status are written.
THEOREM PayTypeHolds == PaySpec => []PayTypeOK
<1>1. PayInv => PayTypeOK
  BY DEF PayInv
<1> QED BY <1>1, PayInvHolds, PTL

\* What a row says was true at Stripe, whatever recordings and handlers of
\* the same intent come between each other's steps.
THEOREM StatusJustifiedHolds == PaySpec => []StatusJustified
<1>1. PayInv => StatusJustified
  BY DEF PayInv
<1> QED BY <1>1, PayInvHolds, PTL

\* No step takes a row away from its submission or a stamp from its row.
THEOREM OwnerAndStampHold == PaySpec => OwnerAndStampKept
<1> DEFINE Kept ==
      \A i \in Intents : payment[i].status # "none" =>
          /\ payment'[i].status # "none"
          /\ payment'[i].sub = payment[i].sub
          /\ payment[i].stamp # "none" => payment'[i].stamp = payment[i].stamp
<1>1. ASSUME PayInv, NEW s \in Submissions, UpsertPayment(s) PROVE Kept
  <2>1. rec[s].step = "retrieved" /\ rec[s].seen \in AcceptableStatuses
    BY <1>1 DEF UpsertPayment, PayInv, SeenHolds
  <2>2. payment' = [payment EXCEPT ![rec[s].intent] =
                      UpsertedRow(payment[rec[s].intent], s, rec[s].seen)]
    BY <1>1 DEF UpsertPayment
  <2> SUFFICES ASSUME NEW i \in Intents, payment[i].status # "none"
               PROVE  /\ payment'[i].status # "none"
                      /\ payment'[i].sub = payment[i].sub
                      /\ payment[i].stamp # "none" => payment'[i].stamp = payment[i].stamp
    OBVIOUS
  <2>3. payment[i] \in Row
    BY <1>1 DEF PayInv, PayTypeOK
  <2>4. CASE i = rec[s].intent
    <3>1. payment'[i] = [payment[i] EXCEPT !.status = IntentStatusToFormStatus(rec[s].seen),
                                           !.captured = @ \/ rec[s].seen = "succeeded"]
      BY <1>1, <2>2, <2>4 DEF PayInv, PayTypeOK, UpsertedRow
    <3> QED BY <2>1, <2>3, <3>1 DEF Row, IntentStatusToFormStatus, AcceptableStatuses
  <2>5. CASE i # rec[s].intent
    BY <1>1, <2>2, <2>5 DEF PayInv, PayTypeOK
  <2> QED BY <2>4, <2>5
<1>2. ASSUME PayInv, NEW h \in Handlers, ApplyEvent(h) PROVE Kept
  <2>1. handler[h].type \in {"succeeded", "payment_failed", "refunded"}
    BY <1>2 DEF ApplyEvent, PayInv, DispatchedSent
  <2> SUFFICES ASSUME NEW i \in Intents, payment[i].status # "none"
               PROVE  /\ payment'[i].status # "none"
                      /\ payment'[i].sub = payment[i].sub
                      /\ payment[i].stamp # "none" => payment'[i].stamp = payment[i].stamp
    OBVIOUS
  <2>2. payment[i] \in Row
    BY <1>2 DEF PayInv, PayTypeOK
  <2>3. \/ payment'[i] = payment[i]
        \/ Matches(payment[i]) /\ payment'[i] = Reconciled(payment[i], handler[h].type)
    BY <1>2 DEF ApplyEvent, PayInv, PayTypeOK
  <2>4. CASE Matches(payment[i]) /\ payment'[i] = Reconciled(payment[i], handler[h].type)
    BY <2>1, <2>2, <2>4 DEF Matches, Reconciled, Row
  <2> QED BY <2>3, <2>4
<1>3. PayInv /\ [PayNext]_payVars => [Kept]_payVars
  <2> SUFFICES ASSUME PayInv, PayNext PROVE Kept
    OBVIOUS
  <2>1. CASE UNCHANGED payment
    BY <2>1
  <2>2. CASE ~ UNCHANGED payment
    <3>1. \/ \E s \in Submissions : UpsertPayment(s)
          \/ \E h \in Handlers : ApplyEvent(h)
      BY <2>2 DEF PayNext, StripeStep, CreateIntent, PaymentFails, Authorize, Capture,
         CancelIntent, Refund, RecordStep, RetrieveIntent, RetrieveFails, UpsertFails,
         HandlerStep, SkipEvent, LookupEvent, HandlerFails
    <3> QED BY <1>1, <1>2, <3>1
  <2> QED BY <2>1, <2>2
<1> QED BY <1>3, PayInvHolds, PTL DEF PaySpec, OwnerAndStampKept

\* However often Stripe sends an event and whatever handlers and recordings are
\* under way, it changes its row once at most (payment.service.ts).
THEOREM WebhookOnceHolds == PaySpec => []WebhookAppliesOnce
<1>1. PayInv => WebhookAppliesOnce
  BY DEF PayInv, AppliedIsStamp, WebhookAppliesOnce
<1> QED BY <1>1, PayInvHolds, PTL

=============================================================================
