----------------------------- MODULE Submissions -----------------------------
(***************************************************************************)
(* The submit pipeline: the handler of POST /public/forms/:slug/submit     *)
(* (routes/public/submit.ts), the quota gate it asks, the event fill it    *)
(* writes, and an admin's soft delete and restore.                         *)
(*                                                                         *)
(* The form is one form with one published version.  A request has a step  *)
(* per await whose outcome another request, a webhook handler, an admin or *)
(* a crash can change.  The payment part is module Payments: a request on  *)
(* a payment form runs its recording, while Stripe and the webhook         *)
(* handlers go on as they do there.  A client's retry is one more request  *)
(* of the same identity, with the same payment intent.                     *)
(***************************************************************************)
EXTENDS Payments, FiniteSets

CONSTANTS
    Identities,       \* account subs and anonymous tokens
    PaymentRequired,  \* spec.payment.required_for_submit
    ReplaceMode,      \* spec.prefill.submit_behavior = 'replace'
    Quota,            \* monthlySubmissionQuota of the workspace's plan
    MaxBusy,          \* bound: requests begun whose work is not over
    Faults,           \* what goes wrong in the run
    AdminActs         \* which of soft delete and restore an admin does

FaultKind == {"insert", "update", "delete", "fill", "background", "crash"}

ASSUME SubmitAssumption ==
    /\ IsFiniteSet(Submissions)
    /\ PaymentRequired \in BOOLEAN
    /\ ReplaceMode \in BOOLEAN
    /\ Quota \in Nat
    /\ MaxBusy \in Nat \ {0}
    /\ Faults \subseteq FaultKind
    /\ AdminActs \subseteq {"delete", "restore"}

VARIABLES
    req,         \* submit requests, each by the id of the row it may insert
    submission,  \* form_submissions: none, live, deleted (soft) or gone
    stored,      \* the payload column: raw, or visible fields only
    fill,        \* form_event_fills of the event, by identity (unique)
    counter,     \* submissions:<workspace>:<month> in Redis
    counting,    \* the INCR a reply leaves behind
    enqueuing    \* the enqueueOnSubmit a reply leaves behind

subVars == <<req, submission, stored, fill, counter, counting, enqueuing>>
vars == <<payVars, subVars>>

-----------------------------------------------------------------------------
Step == {"new", "gate", "begin", "open", "strip", "pay", "rollback", "fill",
         "finish", "done", "crashed"}

Reply == {"none", "200", "400", "402", "429", "500"}

\* who sends it and the payment_intent_id in its body are the client's;
\* prior is what the replacing update has matched.
Request == [step : Step, reply : Reply, who : Identities,
            intent : Intents \cup {NoIntent}, prior : SUBSET Submissions]

Task == {"none", "due", "done", "lost"}

SubTypeOK ==
    /\ PayTypeOK
    /\ req \in [Submissions -> Request]
    /\ submission \in [Submissions -> {"none", "live", "deleted", "gone"}]
    /\ stored \in [Submissions -> {"none", "raw", "visible"}]
    /\ fill \in [Identities -> Submissions \cup {NoSubmission}]
    /\ counter \in Nat
    /\ counting \in [Submissions -> Task]
    /\ enqueuing \in [Submissions -> Task]

At(s, step) == req[s].step = step

Go(s, step) == req' = [req EXCEPT ![s].step = step]

Answer(s, code) == req' = [req EXCEPT ![s].step = "done", ![s].reply = code]

\* Begun, and neither answered nor dead, or with its INCR still to run.
Busy == {s \in Submissions :
            req[s].step \notin {"new", "done", "crashed"} \/ counting[s] = "due"}

-----------------------------------------------------------------------------
\* Up to the insert

\* The form is loaded and the required fields are there.
Arrive(s) ==
    /\ At(s, "new")
    /\ Cardinality(Busy) < MaxBusy
    /\ Go(s, "gate")
    /\ UNCHANGED <<payVars, submission, stored, fill, counter, counting, enqueuing>>

\* Mutant: the quota is compared with <=.
PassGatesLate(s) ==
    /\ At(s, "gate")
    /\ counter <= Quota
    /\ PaymentRequired => req[s].intent # NoIntent
    /\ Go(s, "begin")
    /\ UNCHANGED <<payVars, submission, stored, fill, counter, counting, enqueuing>>

\* Mutant: a submission is counted when it passes the gate.
PassGatesCounts(s) ==
    /\ At(s, "gate")
    /\ counter < Quota
    /\ Go(s, "begin")
    /\ counter' = counter + 1
    /\ UNCHANGED <<payVars, submission, stored, fill, counting, enqueuing>>

\* assertCanAcceptSubmission, then the payment gate.
PassGates(s) ==
    /\ At(s, "gate")
    /\ counter < Quota
    /\ PaymentRequired => req[s].intent # NoIntent
    /\ Go(s, "begin")
    /\ UNCHANGED <<payVars, submission, stored, fill, counter, counting, enqueuing>>

QuotaExhausted(s) ==
    /\ At(s, "gate")
    /\ counter >= Quota
    /\ Answer(s, "429")
    /\ UNCHANGED <<payVars, submission, stored, fill, counter, counting, enqueuing>>

PaymentMissing(s) ==
    /\ At(s, "gate")
    /\ counter < Quota
    /\ PaymentRequired /\ req[s].intent = NoIntent
    /\ Answer(s, "400")
    /\ UNCHANGED <<payVars, submission, stored, fill, counter, counting, enqueuing>>

LivePrior(s) == {q \in Submissions : submission[q] = "live" /\ req[q].who = req[s].who}

\* The transaction's updateMany takes its snapshot: at READ COMMITTED it sees
\* what was committed when it began, and no row inserted after that.
BeginReplace(s) ==
    /\ At(s, "begin")
    /\ req' = [req EXCEPT ![s].step = "open",
                          ![s].prior = IF ReplaceMode THEN LivePrior(s) ELSE {}]
    /\ UNCHANGED <<payVars, submission, stored, fill, counter, counting, enqueuing>>

\* The transaction commits: of the rows matched those still live are soft
\* deleted (a row another transaction changed meanwhile is looked at again
\* once that has committed), and the new row is there.
CommitSubmission(s) ==
    /\ At(s, "open")
    /\ submission' = [q \in Submissions |->
          IF q = s THEN "live"
          ELSE IF q \in req[s].prior /\ submission[q] = "live" THEN "deleted"
          ELSE submission[q]]
    /\ stored' = [stored EXCEPT ![s] = "raw"]
    /\ Go(s, "strip")
    /\ UNCHANGED <<payVars, fill, counter, counting, enqueuing>>

\* The database refuses a read or the transaction, which rolls back.
FailBeforeInsert(s) ==
    /\ "insert" \in Faults
    /\ req[s].step \in {"gate", "begin", "open"}
    /\ Answer(s, "500")
    /\ UNCHANGED <<payVars, submission, stored, fill, counter, counting, enqueuing>>

-----------------------------------------------------------------------------
\* After the insert

\* Mutant: what was stripped is not written back.
StripSkippedMutant(s) ==
    /\ At(s, "strip")
    /\ Go(s, IF PaymentRequired THEN "pay" ELSE "fill")
    /\ UNCHANGED <<payVars, submission, stored, fill, counter, counting, enqueuing>>

\* stripSkippedFields, and the update of the row when it took fields away.
StripSkipped(s) ==
    /\ At(s, "strip")
    /\ stored' = [stored EXCEPT ![s] = "visible"]
    /\ Go(s, IF PaymentRequired THEN "pay" ELSE "fill")
    /\ UNCHANGED <<payVars, submission, fill, counter, counting, enqueuing>>

StripFails(s) ==
    /\ "update" \in Faults
    /\ At(s, "strip")
    /\ Answer(s, "500")
    /\ UNCHANGED <<payVars, submission, stored, fill, counter, counting, enqueuing>>

\* Mutant: an error of the recording is swallowed.
AfterRecordingMutant(recStep) ==
    CASE recStep = "retrieved" -> "pay"
      [] recStep \in {"recorded", "failed"} -> "fill"
      [] recStep = "rejected"  -> "rollback"

\* recordPaymentForSubmission (Payments): where the request goes on when the
\* recording has reached the step given.
AfterRecording(recStep) ==
    CASE recStep = "retrieved" -> "pay"
      [] recStep = "recorded"  -> "fill"
      [] recStep \in {"rejected", "failed"} -> "rollback"

RecordPayment(s) ==
    /\ At(s, "pay")
    /\ \/ RetrieveIntent(s, req[s].intent)
       \/ RetrieveFails(s)
       \/ UpsertPayment(s)
       \/ UpsertFails(s)
    /\ Go(s, AfterRecording(rec'[s].step))
    /\ UNCHANGED <<submission, stored, fill, counter, counting, enqueuing>>

\* form_payments.submission_id and form_event_fills.submission_id are foreign
\* keys with ON DELETE RESTRICT.
Referenced(s) ==
    \/ \E i \in Intents : payment[i].sub = s
    \/ \E w \in Identities : fill[w] = s

\* Mutant: the row is deleted whatever refers to it.
DeleteOrphanCascade(s) ==
    /\ At(s, "rollback")
    /\ submission' = [submission EXCEPT ![s] = "gone"]
    /\ Answer(s, IF rec[s].step = "rejected" THEN "402" ELSE "500")
    /\ UNCHANGED <<payVars, stored, fill, counter, counting, enqueuing>>

\* Mutant: the row is left where it is.
DeleteOrphanKeeps(s) ==
    /\ At(s, "rollback")
    /\ Answer(s, IF rec[s].step = "rejected" THEN "402" ELSE "500")
    /\ UNCHANGED <<payVars, submission, stored, fill, counter, counting, enqueuing>>

\* The orphaned row is deleted; an error of the delete is swallowed.
DeleteOrphan(s) ==
    /\ At(s, "rollback")
    /\ \/ /\ ~Referenced(s)
          /\ submission' = [submission EXCEPT ![s] = "gone"]
       \/ /\ Referenced(s) \/ "delete" \in Faults
          /\ UNCHANGED submission
    /\ Answer(s, IF rec[s].step = "rejected" THEN "402" ELSE "500")
    /\ UNCHANGED <<payVars, stored, fill, counter, counting, enqueuing>>

\* markFilled, when the body names an event of this form.
MarkFilled(s) ==
    /\ At(s, "fill")
    /\ fill' \in {fill, [fill EXCEPT ![req[s].who] = s]}
    /\ Go(s, "finish")
    /\ UNCHANGED <<payVars, submission, stored, counter, counting, enqueuing>>

\* markFilled throws, before or after its commit: 500, though the row stays.
FillFails(s) ==
    /\ "fill" \in Faults
    /\ At(s, "fill")
    /\ fill' \in {fill, [fill EXCEPT ![req[s].who] = s]}
    /\ Answer(s, "500")
    /\ UNCHANGED <<payVars, submission, stored, counter, counting, enqueuing>>

\* The reply, which leaves the webhook enqueue and the INCR running behind it.
FinishSubmit(s) ==
    /\ At(s, "finish")
    /\ counting' = [counting EXCEPT ![s] = "due"]
    /\ enqueuing' = [enqueuing EXCEPT ![s] = "due"]
    /\ Answer(s, "200")
    /\ UNCHANGED <<payVars, submission, stored, fill, counter>>

-----------------------------------------------------------------------------
\* Behind the reply

\* recordSubmission.
CountSubmission(s) ==
    /\ counting[s] = "due"
    /\ counter' = counter + 1
    /\ counting' = [counting EXCEPT ![s] = "done"]
    /\ UNCHANGED <<payVars, req, submission, stored, fill, enqueuing>>

\* enqueueOnSubmit.
EnqueueWebhooks(s) ==
    /\ enqueuing[s] = "due"
    /\ enqueuing' = [enqueuing EXCEPT ![s] = "done"]
    /\ UNCHANGED <<payVars, req, submission, stored, fill, counter, counting>>

\* Their errors are logged, and a crash takes them along.
LoseTask(s) ==
    /\ "background" \in Faults
    /\ \/ /\ counting[s] = "due"
          /\ counting' = [counting EXCEPT ![s] = "lost"]
          /\ UNCHANGED enqueuing
       \/ /\ enqueuing[s] = "due"
          /\ enqueuing' = [enqueuing EXCEPT ![s] = "lost"]
          /\ UNCHANGED counting
    /\ UNCHANGED <<payVars, req, submission, stored, fill, counter>>

\* The server process that works on s dies; its open transaction rolls back.
CrashRequest(s) ==
    /\ "crash" \in Faults
    /\ req[s].step \notin {"new", "done", "crashed"}
    /\ Go(s, "crashed")
    /\ UNCHANGED <<payVars, submission, stored, fill, counter, counting, enqueuing>>

\* DELETE /admin/submissions/:id and POST /admin/submissions/:id/restore.
SoftDelete(s) ==
    /\ "delete" \in AdminActs
    /\ submission[s] = "live"
    /\ submission' = [submission EXCEPT ![s] = "deleted"]
    /\ UNCHANGED <<payVars, req, stored, fill, counter, counting, enqueuing>>

RestoreSubmission(s) ==
    /\ "restore" \in AdminActs
    /\ submission[s] = "deleted"
    /\ submission' = [submission EXCEPT ![s] = "live"]
    /\ UNCHANGED <<payVars, req, stored, fill, counter, counting, enqueuing>>

-----------------------------------------------------------------------------
Init ==
    /\ PayInit
    /\ \E who \in [Submissions -> Identities],
          pi \in [Submissions -> Intents \cup {NoIntent}] :
          req = [s \in Submissions |->
                   [step |-> "new", reply |-> "none", who |-> who[s],
                    intent |-> pi[s], prior |-> {}]]
    /\ submission = [s \in Submissions |-> "none"]
    /\ stored = [s \in Submissions |-> "none"]
    /\ fill = [w \in Identities |-> NoSubmission]
    /\ counter = 0
    /\ counting = [s \in Submissions |-> "none"]
    /\ enqueuing = [s \in Submissions |-> "none"]

RequestStep(s) ==
    \/ Arrive(s) \/ PassGates(s) \/ QuotaExhausted(s) \/ PaymentMissing(s)
    \/ BeginReplace(s) \/ CommitSubmission(s) \/ FailBeforeInsert(s)
    \/ StripSkipped(s) \/ StripFails(s) \/ RecordPayment(s) \/ DeleteOrphan(s)
    \/ MarkFilled(s) \/ FillFails(s) \/ FinishSubmit(s) \/ CrashRequest(s)

TaskStep(s) == CountSubmission(s) \/ EnqueueWebhooks(s) \/ LoseTask(s)

AdminStep(s) == SoftDelete(s) \/ RestoreSubmission(s)

\* Stripe moves and the webhook handlers run as in Payments.
PaymentsStep ==
    /\ \/ \E i \in Intents : StripeStep(i)
       \/ \E h \in Handlers : HandlerStep(h)
    /\ UNCHANGED subVars

Next ==
    \/ \E s \in Submissions : RequestStep(s) \/ TaskStep(s) \/ AdminStep(s)
    \/ PaymentsStep

Spec == Init /\ [][Next]_vars

-----------------------------------------------------------------------------
\* Properties

Accepted == {s \in Submissions : req[s].reply = "200"}

\* A submission of a payment form is accepted on a payment that is on record,
\* and of an intent that Stripe had authorised or captured: submit.ts
\* re-verifies it after the insert and takes the row back when that fails.
AcceptedIsPaid ==
    PaymentRequired =>
        \A s \in Accepted :
            /\ req[s].intent # NoIntent
            /\ payment[req[s].intent].status # "none"
            /\ intent[req[s].intent] \in {"requires_capture", "succeeded", "canceled"}

\* What refers to a submission, a payment, a fill, an accepting reply with the
\* webhook jobs and the count behind it, refers to a row that is there: the
\* delete of an orphan never takes away a row something was hung on.
NothingDangles ==
    \A s \in Submissions :
        Referenced(s) \/ s \in Accepted => submission[s] \in {"live", "deleted"}

\* Nobody downstream, a fill or a webhook job, gets a payload from which the
\* fields of skipped pages have not been stripped.
DownstreamSeesVisible ==
    \A s \in Submissions :
        enqueuing[s] # "none" \/ (\E w \in Identities : fill[w] = s)
            => stored[s] = "visible"

\* The quota counter never runs ahead of the accepted submissions: a refused
\* one costs nothing, whatever fails or dies where.
CounterNotAhead == counter <= Cardinality(Accepted)

\* A request whose reply is 402 leaves no row behind: the orphaned submission
\* is hard deleted before the reply.
RefusedLeavesNoRow ==
    \A s \in Submissions : req[s].reply = "402" => submission[s] = "gone"

\* Between the read of the quota and the INCR lie all the awaits of a request:
\* the quota is overshot by the requests that overlap, and by no more, INCRs
\* that were lost apart.
QuotaOvershootBounded ==
    Cardinality({s \in Accepted : counting[s] # "lost"}) <= Quota + MaxBusy - 1

\* A resubmit refused with 402 leaves the identity with the accepted submission
\* it had: the comment over the replacing transaction wants no half-state.
RefusedResubmitKeepsPrior ==
    \A s \in Submissions :
        req[s].reply = "402" /\ req[s].prior \cap Accepted # {} =>
            \E q \in Submissions :
                submission[q] = "live" /\ req[q].who = req[s].who

=============================================================================
