-------------------------- MODULE Submissions_proofs --------------------------
(***************************************************************************)
(* Proofs about Submissions, for any number of requests, intents, webhook  *)
(* handlers and identities, and for any faults.                            *)
(*                                                                         *)
(* AcceptedIsPaid and NothingDangles speak of finished requests and of     *)
(* rows.  PaidSteps and RowThere carry them through the steps of a         *)
(* request: what its step says about the payment and about its row, while  *)
(* Stripe, the webhook handlers, other requests and admins go on.          *)
(***************************************************************************)
EXTENDS Submissions, Payments_proofs, FiniteSetTheorems

PaidOn(s) ==
    /\ req[s].intent \in Intents
    /\ payment[req[s].intent].status # "none"
    /\ intent[req[s].intent] \in Settled

PaidSoFar(s) ==
    /\ req[s].step = "pay" => PaymentRequired
    /\ rec[s].step = "retrieved" => rec[s].intent = req[s].intent
    /\ PaymentRequired =>
          /\ req[s].step \in {"begin", "open", "strip", "pay"} => req[s].intent \in Intents
          /\ req[s].step \in {"fill", "finish"} \/ req[s].reply = "200" => PaidOn(s)

PaidSteps == \A s \in Submissions : PaidSoFar(s)

RowSoFar(s) ==
    /\ \/ req[s].step \in {"strip", "pay", "rollback", "fill", "finish"}
       \/ req[s].reply = "200"
       \/ Referenced(s)
       => submission[s] \in {"live", "deleted"}
    /\ req[s].reply = "200" => req[s].step = "done"

RowThere == \A s \in Submissions : RowSoFar(s)

SubInv == PayInv /\ SubTypeOK /\ PaidSteps /\ RowThere

-----------------------------------------------------------------------------
\* How a request moves

\* The request of s moves, and no other.
Moved(s) ==
    /\ req' \in [Submissions -> Request]
    /\ req'[s].intent = req[s].intent
    /\ \A q \in Submissions \ {s} : req'[q] = req[q]

\* Going on changes the step of one request, not its reply or its inputs.
LEMMA GoMoves ==
    ASSUME SubTypeOK, NEW s \in Submissions, NEW step \in Step, Go(s, step)
    PROVE  Moved(s) /\ req'[s].step = step /\ req'[s].reply = req[s].reply
<1>1. req[s] \in Request
  BY DEF SubTypeOK
<1>2. [req[s] EXCEPT !.step = step] \in Request
  BY <1>1 DEF Request
<1>3. req' = [req EXCEPT ![s] = [req[s] EXCEPT !.step = step]]
  BY DEF Go
<1> QED BY <1>1, <1>2, <1>3 DEF SubTypeOK, Moved, Request

\* An answer ends one request.
LEMMA AnswerMoves ==
    ASSUME SubTypeOK, NEW s \in Submissions, NEW code \in Reply, Answer(s, code)
    PROVE  Moved(s) /\ req'[s].step = "done" /\ req'[s].reply = code
<1>1. req[s] \in Request
  BY DEF SubTypeOK
<1>2. [req[s] EXCEPT !.step = "done", !.reply = code] \in Request
  BY <1>1 DEF Request, Step
<1>3. req' = [req EXCEPT ![s] = [req[s] EXCEPT !.step = "done", !.reply = code]]
  BY DEF Answer
<1> QED BY <1>1, <1>2, <1>3 DEF SubTypeOK, Moved, Request

\* What was paid stays paid.
Monotone ==
    \A i \in Intents :
        /\ payment[i].status # "none" => payment'[i].status # "none"
        /\ intent[i] \in Settled => intent'[i] \in Settled

\* A step that leaves the other requests and recordings alone keeps PaidSteps
\* when it keeps what PaidSteps says of s.
LEMMA PaidKept ==
    ASSUME PaidSteps, Monotone, NEW s \in Submissions, Moved(s), PaidSoFar(s)',
           \A q \in Submissions \ {s} : rec'[q] = rec[q]
    PROVE  PaidSteps'
<1> SUFFICES ASSUME NEW q \in Submissions \ {s} PROVE PaidSoFar(q)'
  BY DEF PaidSteps
<1>1. req'[q] = req[q] /\ rec'[q] = rec[q] /\ PaidSoFar(q)
  BY DEF PaidSteps, Moved
<1>2. PaidOn(q) => PaidOn(q)'
  BY <1>1 DEF PaidOn, Monotone
<1> QED BY <1>1, <1>2 DEF PaidSoFar

\* Likewise for RowThere.
LEMMA RowsKept ==
    ASSUME RowThere, NEW s \in Submissions, Moved(s), RowSoFar(s)',
           \A q \in Submissions \ {s} :
              /\ Referenced(q)' => Referenced(q)
              /\ submission[q] \in {"live", "deleted"} => submission'[q] \in {"live", "deleted"}
    PROVE  RowThere'
<1> SUFFICES ASSUME NEW q \in Submissions \ {s} PROVE RowSoFar(q)'
  BY DEF RowThere
<1>1. req'[q] = req[q] /\ RowSoFar(q)
  BY DEF RowThere, Moved
<1> QED BY <1>1 DEF RowSoFar

\* A step of s that touches no table, or not yet, and accepts nothing.
LEMMA QuietKeeps ==
    ASSUME SubInv, NEW s \in Submissions, Moved(s), req'[s].reply # "200",
           req'[s].step \in {"gate", "begin", "open", "done", "crashed"},
           req'[s].step \in {"begin", "open"} /\ PaymentRequired => req[s].intent \in Intents,
           UNCHANGED <<payVars, submission, stored, fill, counter, counting, enqueuing>>
    PROVE  SubInv'
<1>1. PayInv'
  BY StutterKeepsInv DEF SubInv
<1>2. SubTypeOK'
  BY <1>1 DEF SubInv, SubTypeOK, Moved, PayInv
<1>3. Monotone /\ rec' = rec
  BY DEF Monotone, payVars
<1>4. PaidSoFar(s)'
  BY <1>3 DEF SubInv, PaidSteps, PaidSoFar, Moved
<1>5. \A q \in Submissions : Referenced(q)' = Referenced(q)
  BY DEF Referenced, payVars
<1>6. RowSoFar(s)'
  BY <1>5 DEF SubInv, RowThere, RowSoFar
<1>7. PaidSteps'
  BY <1>3, <1>4, PaidKept DEF SubInv
<1>8. RowThere'
  BY <1>5, <1>6, RowsKept DEF SubInv
<1> QED BY <1>1, <1>2, <1>7, <1>8 DEF SubInv

-----------------------------------------------------------------------------
\* The steps of a request

\* Before its answer a request has accepted nothing.
LEMMA NotYetAccepted ==
    ASSUME SubInv, NEW s \in Submissions, req[s].step # "done"
    PROVE  req[s].reply # "200"
  BY DEF SubInv, RowThere, RowSoFar

\* Arriving, the two gates and a failure before the insert keep the invariant.
LEMMA GateKeeps ==
    ASSUME SubInv, NEW s \in Submissions,
           \/ Arrive(s) \/ PassGates(s) \/ QuotaExhausted(s) \/ PaymentMissing(s)
           \/ FailBeforeInsert(s) \/ StripFails(s) \/ CrashRequest(s)
    PROVE  SubInv'
<1>1. SubTypeOK /\ req[s] \in Request
  BY DEF SubInv, SubTypeOK
<1>2. CASE Arrive(s)
  <2>1. Moved(s) /\ req'[s].step = "gate" /\ req'[s].reply = req[s].reply
    BY <1>1, <1>2, GoMoves DEF Arrive, Step
  <2> QED BY <1>2, <2>1, NotYetAccepted, QuietKeeps DEF Arrive, At
<1>3. CASE PassGates(s)
  <2>1. Moved(s) /\ req'[s].step = "begin" /\ req'[s].reply = req[s].reply
    BY <1>1, <1>3, GoMoves DEF PassGates, Step
  <2>2. PaymentRequired => req[s].intent \in Intents
    BY <1>1, <1>3 DEF PassGates, Request
  <2> QED BY <1>3, <2>1, <2>2, NotYetAccepted, QuietKeeps DEF PassGates, At
<1>4. CASE CrashRequest(s)
  <2>1. Moved(s) /\ req'[s].step = "crashed" /\ req'[s].reply = req[s].reply
    BY <1>1, <1>4, GoMoves DEF CrashRequest, Step
  <2> QED BY <1>4, <2>1, NotYetAccepted, QuietKeeps DEF CrashRequest
<1>5. CASE QuotaExhausted(s) \/ PaymentMissing(s) \/ FailBeforeInsert(s) \/ StripFails(s)
  <2>1. /\ Answer(s, "429") \/ Answer(s, "400") \/ Answer(s, "500")
        /\ UNCHANGED <<payVars, submission, stored, fill, counter, counting, enqueuing>>
    BY <1>5 DEF QuotaExhausted, PaymentMissing, FailBeforeInsert, StripFails
  <2>2. Moved(s) /\ req'[s].step = "done" /\ req'[s].reply \in {"429", "400", "500"}
    BY <1>1, <2>1, AnswerMoves DEF Reply
  <2> QED BY <2>1, <2>2, QuietKeeps
<1> QED BY <1>2, <1>3, <1>4, <1>5

\* Opening the replacing transaction keeps the invariant.
LEMMA BeginKeeps ==
    ASSUME SubInv, NEW s \in Submissions, BeginReplace(s)
    PROVE  SubInv'
<1>1. req \in [Submissions -> Request] /\ req[s] \in Request /\ req[s].step = "begin"
  BY DEF SubInv, SubTypeOK, BeginReplace, At
<1>2. (IF ReplaceMode THEN LivePrior(s) ELSE {}) \in SUBSET Submissions
  BY DEF LivePrior
<1>3. Moved(s) /\ req'[s].step = "open" /\ req'[s].reply = req[s].reply
  <2> DEFINE prior == IF ReplaceMode THEN LivePrior(s) ELSE {}
  <2>1. prior \in SUBSET Submissions /\ req' = [req EXCEPT ![s].step = "open", ![s].prior = prior]
    BY <1>2 DEF BeginReplace
  <2> HIDE DEF prior
  <2>2. [req[s] EXCEPT !.step = "open", !.prior = prior] \in Request
    BY <1>1, <2>1 DEF Request, Step
  <2>3. req' = [req EXCEPT ![s] = [req[s] EXCEPT !.step = "open", !.prior = prior]]
    BY <2>1
  <2> QED BY <1>1, <2>2, <2>3 DEF Moved, Request
<1>4. PaymentRequired => req[s].intent \in Intents
  BY <1>1 DEF SubInv, PaidSteps, PaidSoFar
<1> QED BY <1>1, <1>3, <1>4, NotYetAccepted, QuietKeeps DEF BeginReplace

\* The commit keeps it: rows are added or soft deleted, never taken away.
LEMMA CommitKeeps ==
    ASSUME SubInv, NEW s \in Submissions, CommitSubmission(s)
    PROVE  SubInv'
<1>1. SubTypeOK /\ req[s].step = "open" /\ req[s].reply # "200"
  BY NotYetAccepted DEF SubInv, CommitSubmission, At
<1>2. Moved(s) /\ req'[s].step = "strip" /\ req'[s].reply = req[s].reply
  BY <1>1, GoMoves DEF CommitSubmission, Step
<1>3. /\ UNCHANGED <<payVars, fill, counter, counting, enqueuing>>
      /\ submission'[s] = "live"
      /\ \A q \in Submissions : submission[q] \in {"live", "deleted"}
                                    => submission'[q] \in {"live", "deleted"}
      /\ submission' \in [Submissions -> {"none", "live", "deleted", "gone"}]
      /\ stored' \in [Submissions -> {"none", "raw", "visible"}]
  BY DEF CommitSubmission, SubInv, SubTypeOK
<1>4. PayInv'
  BY <1>3, StutterKeepsInv DEF SubInv
<1>5. SubTypeOK'
  BY <1>2, <1>3, <1>4 DEF SubInv, SubTypeOK, Moved, PayInv
<1>6. Monotone /\ rec' = rec
  BY <1>3 DEF Monotone, payVars
<1>7. PaidSoFar(s)'
  BY <1>1, <1>2, <1>6 DEF SubInv, PaidSteps, PaidSoFar, Moved
<1>8. \A q \in Submissions : Referenced(q)' = Referenced(q)
  BY <1>3 DEF Referenced, payVars
<1>9. RowSoFar(s)'
  BY <1>1, <1>2, <1>3 DEF RowSoFar
<1>10. PaidSteps'
  BY <1>2, <1>6, <1>7, PaidKept DEF SubInv
<1>11. RowThere'
  BY <1>2, <1>3, <1>8, <1>9, RowsKept DEF SubInv
<1> QED BY <1>4, <1>5, <1>10, <1>11 DEF SubInv

\* Stripping the payload, or failing to, keeps the invariant.
LEMMA StripKeeps ==
    ASSUME SubInv, NEW s \in Submissions, StripSkipped(s)
    PROVE  SubInv'
<1>1. SubTypeOK /\ req[s].step = "strip" /\ req[s].reply # "200"
  BY NotYetAccepted DEF SubInv, StripSkipped, At
<1>2. /\ Moved(s) /\ req'[s].reply = req[s].reply
      /\ req'[s].step = IF PaymentRequired THEN "pay" ELSE "fill"
  BY <1>1, GoMoves DEF StripSkipped, Step
<1>3. /\ UNCHANGED <<payVars, submission, fill, counter, counting, enqueuing>>
      /\ stored' \in [Submissions -> {"none", "raw", "visible"}]
  BY DEF StripSkipped, SubInv, SubTypeOK
<1>4. PayInv'
  BY <1>3, StutterKeepsInv DEF SubInv
<1>5. SubTypeOK'
  BY <1>2, <1>3, <1>4 DEF SubInv, SubTypeOK, Moved, PayInv
<1>6. Monotone /\ rec' = rec
  BY <1>3 DEF Monotone, payVars
<1>7. PaidSoFar(s)'
  BY <1>1, <1>2, <1>6 DEF SubInv, PaidSteps, PaidSoFar, Moved
<1>8. \A q \in Submissions : Referenced(q)' = Referenced(q)
  BY <1>3 DEF Referenced, payVars
<1>9. RowSoFar(s)'
  BY <1>1, <1>2, <1>3 DEF SubInv, RowThere, RowSoFar
<1>10. PaidSteps'
  BY <1>2, <1>6, <1>7, PaidKept DEF SubInv
<1>11. RowThere'
  BY <1>2, <1>3, <1>8, <1>9, RowsKept DEF SubInv
<1> QED BY <1>4, <1>5, <1>10, <1>11 DEF SubInv

-----------------------------------------------------------------------------
\* The payment of a request

\* What one step of the recording for s does to the tables of Payments.
LEMMA RecordingMoves ==
    ASSUME PayInv, NEW s \in Submissions, NEW i \in Intents,
           RetrieveIntent(s, i) \/ RetrieveFails(s) \/ UpsertPayment(s) \/ UpsertFails(s)
    PROVE  /\ Monotone
           /\ \A j \in Intents : payment'[j].sub \in {payment[j].sub, s}
           /\ \A q \in Submissions \ {s} : rec'[q] = rec[q]
           /\ rec'[s].step \in {"retrieved", "recorded", "rejected", "failed"}
           /\ rec'[s].step = "retrieved" => rec'[s].intent = i
           /\ rec'[s].step = "recorded" =>
                 /\ rec[s].step = "retrieved"
                 /\ payment'[rec[s].intent].status # "none"
                 /\ intent'[rec[s].intent] \in Settled
<1>1. CASE RetrieveIntent(s, i) \/ RetrieveFails(s) \/ UpsertFails(s)
  <2>1. UNCHANGED <<intent, payment>>
    BY <1>1 DEF RetrieveIntent, RetrieveFails, UpsertFails
  <2>2. CASE RetrieveIntent(s, i)
    BY <2>1, <2>2 DEF RetrieveIntent, PayInv, PayTypeOK, Monotone
  <2>3. CASE RetrieveFails(s) \/ UpsertFails(s)
    <3>1. rec' = [rec EXCEPT ![s].step = "failed"]
      BY <2>3 DEF RetrieveFails, UpsertFails
    <3> QED BY <2>1, <3>1 DEF PayInv, PayTypeOK, Monotone
  <2> QED BY <1>1, <2>2, <2>3
<1>2. CASE UpsertPayment(s)
  <2> DEFINE k == rec[s].intent
             row == UpsertedRow(payment[k], s, rec[s].seen)
  <2>1. rec[s].step = "retrieved" /\ k \in Intents /\ intent[k] \in Settled
    BY <1>2 DEF UpsertPayment, PayInv, SeenHolds
  <2>2. row.status # "none"
    BY <1>2, <2>1, UpsertJustified
  <2>3. row.sub \in {payment[k].sub, s}
    BY <2>1 DEF UpsertedRow, PayInv, PayTypeOK, Row
  <2>4. /\ payment' = [payment EXCEPT ![k] = row]
        /\ UNCHANGED intent
        /\ \A q \in Submissions \ {s} : rec'[q] = rec[q]
        /\ rec'[s].step \in {"recorded", "failed"}
    BY <1>2 DEF UpsertPayment, PayInv, PayTypeOK
  <2> HIDE DEF k, row
  <2>5. Monotone
    BY <2>1, <2>2, <2>4 DEF Monotone, PayInv, PayTypeOK
  <2>6. \A j \in Intents : payment'[j].sub \in {payment[j].sub, s}
    BY <2>1, <2>3, <2>4 DEF PayInv, PayTypeOK
  <2>7. payment'[k].status # "none" /\ intent'[k] \in Settled
    BY <2>1, <2>2, <2>4 DEF PayInv, PayTypeOK
  <2> QED BY <2>1, <2>4, <2>5, <2>6, <2>7 DEF k
<1> QED BY <1>1, <1>2

\* A step of the recording keeps it: who goes on to finish has paid.
LEMMA PaymentKeeps ==
    ASSUME SubInv, NEW s \in Submissions, RecordPayment(s)
    PROVE  SubInv'
<1>1. SubTypeOK /\ req[s].step = "pay" /\ req[s].reply # "200"
  BY NotYetAccepted DEF SubInv, RecordPayment, At
<1>2. PaymentRequired /\ req[s].intent \in Intents
  BY <1>1 DEF SubInv, PaidSteps, PaidSoFar
<1> DEFINE i == req[s].intent
<1>3. /\ RetrieveIntent(s, i) \/ RetrieveFails(s) \/ UpsertPayment(s) \/ UpsertFails(s)
      /\ Go(s, AfterRecording(rec'[s].step))
      /\ UNCHANGED <<submission, stored, fill, counter, counting, enqueuing>>
  BY DEF RecordPayment
<1>4. PayInv'
  <2>1. RecordStep(s)
    BY <1>2, <1>3 DEF RecordStep
  <2> QED BY <2>1, RecordKeepsInv DEF SubInv
<1>5. /\ Monotone
      /\ \A j \in Intents : payment'[j].sub \in {payment[j].sub, s}
      /\ \A q \in Submissions \ {s} : rec'[q] = rec[q]
      /\ rec'[s].step \in {"retrieved", "recorded", "rejected", "failed"}
      /\ rec'[s].step = "retrieved" => rec'[s].intent = i
      /\ rec'[s].step = "recorded" =>
            /\ rec[s].step = "retrieved"
            /\ payment'[rec[s].intent].status # "none"
            /\ intent'[rec[s].intent] \in Settled
  BY <1>2, <1>3, RecordingMoves DEF SubInv
<1>6. /\ AfterRecording(rec'[s].step) \in {"pay", "fill", "rollback"}
      /\ AfterRecording(rec'[s].step) = "fill" => rec'[s].step = "recorded"
  BY <1>5 DEF AfterRecording
<1>7. /\ Moved(s) /\ req'[s].reply = req[s].reply
      /\ req'[s].step = AfterRecording(rec'[s].step)
  BY <1>1, <1>3, <1>6, GoMoves DEF Step
<1>8. SubTypeOK'
  BY <1>3, <1>4, <1>7 DEF SubInv, SubTypeOK, Moved, PayInv
<1>9. PaidSoFar(s)'
  <2>1. rec[s].step = "retrieved" => rec[s].intent = i
    BY DEF SubInv, PaidSteps, PaidSoFar
  <2>2. req'[s].step = "fill" => PaidOn(s)'
    BY <1>2, <1>5, <1>6, <1>7, <2>1 DEF PaidOn, Moved
  <2> QED BY <1>1, <1>2, <1>5, <1>6, <1>7, <2>2 DEF PaidSoFar, Moved
<1>10. \A q \in Submissions \ {s} : Referenced(q)' => Referenced(q)
  BY <1>3, <1>5 DEF Referenced
<1>11. RowSoFar(s)'
  BY <1>1, <1>3, <1>6, <1>7 DEF SubInv, RowThere, RowSoFar
<1>12. PaidSteps'
  BY <1>5, <1>7, <1>9, PaidKept DEF SubInv
<1>13. RowThere'
  BY <1>3, <1>7, <1>10, <1>11, RowsKept DEF SubInv
<1> QED BY <1>4, <1>8, <1>12, <1>13 DEF SubInv

\* The rollback keeps it: a row that is referred to is not deleted.
LEMMA DeleteKeeps ==
    ASSUME SubInv, NEW s \in Submissions, DeleteOrphan(s)
    PROVE  SubInv'
<1>1. SubTypeOK /\ req[s].step = "rollback"
  BY DEF SubInv, DeleteOrphan, At
<1>2. Answer(s, "402") \/ Answer(s, "500")
  BY DEF DeleteOrphan
<1>3. Moved(s) /\ req'[s].step = "done" /\ req'[s].reply \in {"402", "500"}
  BY <1>1, <1>2, AnswerMoves DEF Reply
<1>4. UNCHANGED <<payVars, stored, fill, counter, counting, enqueuing>>
  BY DEF DeleteOrphan
<1>5. CASE UNCHANGED submission
  BY <1>3, <1>4, <1>5, QuietKeeps
<1>6. CASE ~Referenced(s) /\ submission' = [submission EXCEPT ![s] = "gone"]
  <2>1. PayInv'
    BY <1>4, StutterKeepsInv DEF SubInv
  <2>2. SubTypeOK'
    BY <1>3, <1>4, <1>6, <2>1 DEF SubInv, SubTypeOK, Moved, PayInv
  <2>3. Monotone /\ rec' = rec
    BY <1>4 DEF Monotone, payVars
  <2>4. PaidSoFar(s)'
    BY <1>3, <2>3 DEF SubInv, PaidSteps, PaidSoFar, Moved
  <2>5. \A q \in Submissions : Referenced(q)' = Referenced(q)
    BY <1>4 DEF Referenced, payVars
  <2>6. RowSoFar(s)'
    BY <1>3, <1>6, <2>5 DEF RowSoFar
  <2>7. \A q \in Submissions \ {s} : submission'[q] = submission[q]
    BY <1>6 DEF SubInv, SubTypeOK
  <2>8. PaidSteps'
    BY <1>3, <2>3, <2>4, PaidKept DEF SubInv
  <2>9. RowThere'
    BY <1>3, <2>5, <2>6, <2>7, RowsKept DEF SubInv
  <2> QED BY <2>1, <2>2, <2>8, <2>9 DEF SubInv
<1> QED BY <1>5, <1>6 DEF DeleteOrphan

\* The fill and the reply keep it: they refer to a row that is there.
LEMMA FinishKeeps ==
    ASSUME SubInv, NEW s \in Submissions,
           MarkFilled(s) \/ FillFails(s) \/ FinishSubmit(s)
    PROVE  SubInv'
<1>1. SubTypeOK /\ req[s].step \in {"fill", "finish"} /\ req[s].who \in Identities
  BY DEF SubInv, SubTypeOK, MarkFilled, FillFails, FinishSubmit, At, Request
<1>2. /\ Moved(s) /\ req'[s].step \in {"finish", "done"}
      /\ req'[s].reply = "200" => req'[s].step = "done"
  <2>1. CASE MarkFilled(s)
    BY <1>1, <2>1, GoMoves, NotYetAccepted DEF MarkFilled, Step
  <2>2. CASE FillFails(s)
    BY <1>1, <2>2, AnswerMoves DEF FillFails, Reply
  <2>3. CASE FinishSubmit(s)
    BY <1>1, <2>3, AnswerMoves DEF FinishSubmit, Reply
  <2> QED BY <2>1, <2>2, <2>3
<1>3. /\ UNCHANGED <<payVars, submission, stored, counter>>
      /\ \A w \in Identities : fill'[w] \in {fill[w], s}
      /\ fill' \in [Identities -> Submissions \cup {NoSubmission}]
      /\ counting' \in [Submissions -> Task] /\ enqueuing' \in [Submissions -> Task]
  BY <1>1 DEF MarkFilled, FillFails, FinishSubmit, SubInv, SubTypeOK, Task
<1>4. PayInv'
  BY <1>3, StutterKeepsInv DEF SubInv
<1>5. SubTypeOK'
  BY <1>2, <1>3, <1>4 DEF SubInv, SubTypeOK, Moved, PayInv
<1>6. Monotone /\ rec' = rec
  BY <1>3 DEF Monotone, payVars
<1>7. PaidSoFar(s)'
  <2>1. PaymentRequired => PaidOn(s)
    BY <1>1 DEF SubInv, PaidSteps, PaidSoFar
  <2>2. PaidOn(s) => PaidOn(s)'
    BY <1>2, <1>6 DEF PaidOn, Monotone, Moved
  <2> QED BY <1>2, <1>6, <2>1, <2>2 DEF SubInv, PaidSteps, PaidSoFar, Moved
<1>8. \A q \in Submissions \ {s} : Referenced(q)' => Referenced(q)
  BY <1>3 DEF Referenced, payVars
<1>9. RowSoFar(s)'
  BY <1>1, <1>2, <1>3 DEF SubInv, RowThere, RowSoFar
<1>10. PaidSteps'
  BY <1>2, <1>6, <1>7, PaidKept DEF SubInv
<1>11. RowThere'
  BY <1>2, <1>3, <1>8, <1>9, RowsKept DEF SubInv
<1> QED BY <1>4, <1>5, <1>10, <1>11 DEF SubInv

-----------------------------------------------------------------------------
\* The steps of others

\* A step that leaves the requests alone, what is paid paid, and what is
\* referenced there.
LEMMA OthersKeep ==
    ASSUME SubInv, PayInv', SubTypeOK', Monotone, UNCHANGED <<req, rec>>,
           \A q \in Submissions :
              /\ Referenced(q)' => Referenced(q)
              /\ submission[q] \in {"live", "deleted"} => submission'[q] \in {"live", "deleted"}
    PROVE  SubInv'
<1>1. ASSUME NEW q \in Submissions PROVE PaidSoFar(q)'
  <2>1. PaidSoFar(q)
    BY DEF SubInv, PaidSteps
  <2>2. PaidOn(q) => PaidOn(q)'
    BY DEF PaidOn, Monotone
  <2> QED BY <2>1, <2>2 DEF PaidSoFar
<1>2. ASSUME NEW q \in Submissions PROVE RowSoFar(q)'
  BY DEF SubInv, RowThere, RowSoFar
<1> QED BY <1>1, <1>2 DEF SubInv, PaidSteps, RowThere

\* Background tasks, admins and crashes keep the invariant.
LEMMA BehindKeeps ==
    ASSUME SubInv, NEW s \in Submissions, TaskStep(s) \/ AdminStep(s)
    PROVE  SubInv'
<1>1. UNCHANGED <<payVars, req, fill>>
  BY DEF TaskStep, CountSubmission, EnqueueWebhooks, LoseTask, AdminStep, SoftDelete,
     RestoreSubmission
<1>2. PayInv'
  BY <1>1, StutterKeepsInv DEF SubInv
<1>3. /\ submission' \in [Submissions -> {"none", "live", "deleted", "gone"}]
      /\ stored' \in [Submissions -> {"none", "raw", "visible"}]
      /\ counter' \in Nat
      /\ counting' \in [Submissions -> Task]
      /\ enqueuing' \in [Submissions -> Task]
      /\ \A q \in Submissions : submission[q] \in {"live", "deleted"}
                                    => submission'[q] \in {"live", "deleted"}
  BY DEF SubInv, SubTypeOK, Task, TaskStep, CountSubmission, EnqueueWebhooks, LoseTask,
     AdminStep, SoftDelete, RestoreSubmission
<1>4. SubTypeOK'
  BY <1>1, <1>2, <1>3 DEF SubInv, SubTypeOK, PayInv
<1>5. Monotone /\ UNCHANGED rec /\ \A q \in Submissions : Referenced(q)' = Referenced(q)
  BY <1>1 DEF Monotone, Referenced, payVars
<1> QED BY <1>1, <1>2, <1>3, <1>4, <1>5, OthersKeep

\* Stripe and the webhook handlers leave recordings and owners of rows alone.
LEMMA PaymentsStepMoves ==
    ASSUME SubInv, PaymentsStep
    PROVE  /\ Monotone /\ UNCHANGED rec
           /\ \A j \in Intents : payment'[j].sub = payment[j].sub
<1>1. ASSUME NEW i \in Intents, StripeStep(i)
      PROVE  UNCHANGED <<payment, rec>>
             /\ \A j \in Intents : intent[j] \in Settled => intent'[j] \in Settled
  BY <1>1 DEF StripeStep, CreateIntent, PaymentFails, Authorize, Capture, CancelIntent,
     Refund, SubInv, PayInv, PayTypeOK, Settled
<1>2. ASSUME NEW h \in Handlers, HandlerStep(h)
      PROVE  /\ UNCHANGED <<intent, rec>>
             /\ \A j \in Intents : /\ payment[j].status # "none" => payment'[j].status # "none"
                                   /\ payment'[j].sub = payment[j].sub
  <2>1. CASE UNCHANGED payment
    BY <1>2, <2>1 DEF HandlerStep, SkipEvent, LookupEvent, ApplyEvent, HandlerFails
  <2>2. CASE ApplyEvent(h)
    <3>1. handler[h].type \in {"succeeded", "payment_failed", "refunded"}
      BY <2>2 DEF ApplyEvent, SubInv, PayInv, DispatchedSent
    <3>2. ASSUME NEW j \in Intents
          PROVE  /\ payment[j].status # "none" => payment'[j].status # "none"
                 /\ payment'[j].sub = payment[j].sub
      <4>1. payment[j] \in Row
        BY DEF SubInv, PayInv, PayTypeOK
      <4>2. payment'[j] \in {payment[j], Reconciled(payment[j], handler[h].type)}
        BY <2>2 DEF ApplyEvent, SubInv, PayInv, PayTypeOK
      <4> QED BY <3>1, <4>1, <4>2 DEF Reconciled, Row
    <3> QED BY <2>2, <3>2 DEF ApplyEvent
  <2> QED BY <1>2, <2>1, <2>2 DEF HandlerStep, SkipEvent, LookupEvent, HandlerFails
<1> QED BY <1>1, <1>2 DEF PaymentsStep, Monotone

\* Stripe and the webhook handlers keep it: no row goes away, none is unsettled.
LEMMA PaymentsStepKeeps ==
    ASSUME SubInv, PaymentsStep
    PROVE  SubInv'
<1>1. UNCHANGED subVars
  BY DEF PaymentsStep
<1>2. PayInv'
  BY StripeKeepsInv, HandlerKeepsInv DEF SubInv, PaymentsStep
<1>3. SubTypeOK'
  BY <1>1, <1>2 DEF SubInv, SubTypeOK, PayInv, subVars
<1>4. /\ Monotone /\ UNCHANGED rec
      /\ \A j \in Intents : payment'[j].sub = payment[j].sub
  BY PaymentsStepMoves
<1>5. \A q \in Submissions : Referenced(q)' => Referenced(q)
  BY <1>1, <1>4 DEF Referenced, subVars
<1> QED BY <1>1, <1>2, <1>3, <1>4, <1>5, OthersKeep DEF subVars

-----------------------------------------------------------------------------
\* Before the first request the invariant holds.
LEMMA InitSubInv == Init => SubInv
<1> SUFFICES ASSUME Init PROVE SubInv
  OBVIOUS
<1>1. PayInv
  BY InitPayInv DEF Init
<1>2. PICK who \in [Submissions -> Identities], pi \in [Submissions -> Intents \cup {NoIntent}] :
         req = [s \in Submissions |->
                  [step |-> "new", reply |-> "none", who |-> who[s],
                   intent |-> pi[s], prior |-> {}]]
  BY DEF Init
<1>3. req \in [Submissions -> Request]
  BY <1>2 DEF Request, Step, Reply
<1>4. SubTypeOK
  BY <1>1, <1>3 DEF Init, SubTypeOK, PayInv, Task
<1>5. \A s \in Submissions : rec[s].step = "idle" /\ ~Referenced(s)
  BY SentinelAssumption DEF Init, PayInit, Referenced, NoRow, SentinelAssumption
<1>6. PaidSteps /\ RowThere
  BY <1>2, <1>5 DEF PaidSteps, PaidSoFar, RowThere, RowSoFar
<1> QED BY <1>1, <1>4, <1>6 DEF SubInv

\* Every step of the pipeline keeps the invariant.
LEMMA NextSubInv == SubInv /\ [Next]_vars => SubInv'
<1> SUFFICES ASSUME SubInv, [Next]_vars PROVE SubInv'
  OBVIOUS
<1>1. ASSUME NEW s \in Submissions, RequestStep(s) PROVE SubInv'
  BY <1>1, GateKeeps, BeginKeeps, CommitKeeps, StripKeeps, PaymentKeeps, DeleteKeeps,
     FinishKeeps DEF RequestStep
<1>2. CASE UNCHANGED vars
  <2>1. PayInv'
    BY <1>2, StutterKeepsInv DEF SubInv, vars
  <2>2. SubTypeOK'
    BY <1>2, <2>1 DEF SubInv, SubTypeOK, PayInv, vars, subVars
  <2>3. /\ Monotone /\ UNCHANGED <<req, rec, submission>>
        /\ \A q \in Submissions : Referenced(q)' = Referenced(q)
    BY <1>2 DEF vars, subVars, payVars, Monotone, Referenced
  <2> QED BY <2>1, <2>2, <2>3, OthersKeep
<1> QED BY <1>1, <1>2, BehindKeeps, PaymentsStepKeeps DEF Next

\* The invariants of the pipeline, with what makes them inductive.
THEOREM SubInvHolds == Spec => []SubInv
<1> QED BY InitSubInv, NextSubInv, PTL DEF Spec

\* Requests, rows, fills and counters stay well-typed.
THEOREM SubTypeHolds == Spec => []SubTypeOK
<1>1. SubInv => SubTypeOK
  BY DEF SubInv
<1> QED BY <1>1, SubInvHolds, PTL

\* Whatever is resubmitted, retried, refused or lost, and whatever the webhook
\* handlers do meanwhile, an accepted submission of a payment form has been
\* accepted on a payment on record whose intent was authorised.
THEOREM AcceptedIsPaidHolds == Spec => []AcceptedIsPaid
<1>1. SubInv => AcceptedIsPaid
  <2> SUFFICES ASSUME SubInv, PaymentRequired, NEW s \in Accepted
               PROVE  /\ req[s].intent # NoIntent
                      /\ payment[req[s].intent].status # "none"
                      /\ intent[req[s].intent] \in {"requires_capture", "succeeded", "canceled"}
    BY DEF AcceptedIsPaid
  <2>1. PaidOn(s)
    BY DEF SubInv, PaidSteps, PaidSoFar, Accepted
  <2> QED BY <2>1, SentinelAssumption DEF PaidOn, Settled, SentinelAssumption
<1> QED BY <1>1, SubInvHolds, PTL

\* No delete of an orphan leaves a payment, a fill or an accepting reply behind
\* that refers to it.
THEOREM NothingDanglesHolds == Spec => []NothingDangles
<1>1. SubInv => NothingDangles
  BY DEF SubInv, RowThere, RowSoFar, NothingDangles, Accepted
<1> QED BY <1>1, SubInvHolds, PTL

-----------------------------------------------------------------------------
\* The quota and the payload

Passed == {"begin", "open", "strip", "pay", "rollback", "fill", "finish"}
Hung == {"new", "gate", "begin", "open", "strip", "pay", "rollback"}

\* Those that have passed the gate and may be counted yet, or are.
Through == {s \in Submissions : req[s].step \in Passed \/ counting[s] \in {"due", "done"}}

Counted == {s \in Submissions : counting[s] = "done"}

\* What is hung on the row of s, and when.
Tidy(s) ==
    /\ counting[s] # "none" <=> req[s].reply = "200"
    /\ req[s].step \in Hung => enqueuing[s] = "none" /\ \A w \in Identities : fill[w] # s
    /\ \/ req[s].step \in {"pay", "rollback", "fill", "finish"}
       \/ enqueuing[s] # "none"
       \/ \E w \in Identities : fill[w] = s
       => stored[s] = "visible"

UseInv ==
    /\ \A s \in Submissions : Tidy(s)
    /\ counter = Cardinality(Counted)
    /\ Cardinality(Busy) <= MaxBusy
    /\ Cardinality(Through) <= Quota + MaxBusy - 1

\* Sets of requests are finite.
LEMMA RequestsFinite ==
    \A R \in SUBSET Submissions :
        /\ IsFiniteSet(R) /\ Cardinality(R) \in Nat
        /\ \A Q \in SUBSET R : Cardinality(Q) <= Cardinality(R)
<1> QED BY SubmitAssumption, FS_Subset, FS_CardinalityType DEF SubmitAssumption

\* A step that nobody begins or passes the gate with, and that counts nobody.
LEMMA UseKept ==
    ASSUME SubInv, UseInv, NEW s \in Submissions, Moved(s), Tidy(s)',
           \A q \in Submissions \ {s} :
              /\ counting'[q] = counting[q] /\ enqueuing'[q] = enqueuing[q]
              /\ stored'[q] = stored[q]
              /\ \A w \in Identities : fill'[w] = q => fill[w] = q,
           s \in Busy' => s \in Busy, s \in Through' => s \in Through,
           counting'[s] = "done" <=> counting[s] = "done", counter' = counter
    PROVE  UseInv'
<1>1. ASSUME NEW q \in Submissions \ {s} PROVE Tidy(q)'
  <2>1. req'[q] = req[q] /\ Tidy(q)
    BY DEF Moved, UseInv
  <2> QED BY <2>1 DEF Tidy
<1>2. Busy' \subseteq Busy /\ Through' \subseteq Through /\ Counted' = Counted
  <2>1. \A q \in Submissions \ {s} : req'[q] = req[q] /\ counting'[q] = counting[q]
    BY DEF Moved
  <2>2. Busy' \subseteq Busy
    BY <2>1 DEF Busy
  <2>3. Through' \subseteq Through
    BY <2>1 DEF Through
  <2>4. Counted' = Counted
    BY <2>1 DEF Counted
  <2> QED BY <2>2, <2>3, <2>4
<1>3. Busy \subseteq Submissions /\ Through \subseteq Submissions
  BY DEF Busy, Through
<1>4. /\ Cardinality(Busy') <= Cardinality(Busy)
      /\ Cardinality(Through') <= Cardinality(Through)
      /\ {Cardinality(Busy), Cardinality(Busy'), Cardinality(Through), Cardinality(Through')}
            \subseteq Nat
  BY <1>2, <1>3, RequestsFinite
<1>5. Cardinality(Busy') <= MaxBusy /\ Cardinality(Through') <= Quota + MaxBusy - 1
  BY <1>4, SubmitAssumption DEF SubmitAssumption, UseInv
<1>6. counter' = Cardinality(Counted')
  BY <1>2 DEF UseInv
<1>7. \A q \in Submissions : Tidy(q)'
  BY <1>1
<1> QED BY <1>5, <1>6, <1>7 DEF UseInv

\* Steps of a request that hang nothing on its row.
LEMMA StepUse ==
    ASSUME SubInv, UseInv, NEW s \in Submissions, Moved(s),
           UNCHANGED <<fill, counter, counting, enqueuing>>,
           \A q \in Submissions \ {s} : stored'[q] = stored[q],
           req'[s].reply = "200" <=> req[s].reply = "200",
           req[s].step \notin {"new", "done", "crashed"},
           req'[s].step \in Passed => req[s].step \in Passed,
           req'[s].step \in Hung => req[s].step \in Hung,
           req'[s].step \in {"pay", "rollback", "fill", "finish"} =>
              stored'[s] = "visible",
           \/ stored'[s] \in {stored[s], "visible"}
           \/ {req[s].step, req'[s].step} \subseteq Hung
    PROVE  UseInv'
<1>1. Tidy(s)
  BY DEF UseInv
<1>2. Tidy(s)'
  BY <1>1 DEF Tidy
<1>3. s \in Busy
  BY DEF Busy
<1>4. s \in Through' => s \in Through
  BY DEF Through
<1> QED BY <1>2, <1>3, <1>4, UseKept

\* Who arrives is one more, where there was room.
LEMMA ArriveUse ==
    ASSUME SubInv, UseInv, NEW s \in Submissions, Arrive(s) PROVE UseInv'
<1>1. Moved(s) /\ req'[s].step = "gate" /\ req'[s].reply = req[s].reply /\ req[s].step = "new"
  BY GoMoves DEF Arrive, SubInv, Step, At
<1>2. UNCHANGED <<stored, fill, counter, counting, enqueuing>> /\ Cardinality(Busy) < MaxBusy
  BY DEF Arrive
<1>3. \A q \in Submissions : Tidy(q)'
  <2>1. \A q \in Submissions : Tidy(q)
    BY DEF UseInv
  <2>2. Tidy(s)'
    BY <1>1, <1>2, <2>1 DEF Tidy, Hung
  <2>3. ASSUME NEW q \in Submissions \ {s} PROVE Tidy(q)'
    <3>1. req'[q] = req[q]
      BY <1>1 DEF Moved
    <3> QED BY <1>2, <2>1, <3>1 DEF Tidy
  <2> QED BY <2>2, <2>3
<1>4. Busy' \subseteq Busy \cup {s} /\ Through' = Through /\ Counted' = Counted
  BY <1>1, <1>2 DEF Busy, Through, Counted, Passed, Moved
<1>5. Cardinality(Busy') <= MaxBusy
  <2>1. Busy \subseteq Submissions /\ IsFiniteSet(Busy) /\ Cardinality(Busy) \in Nat
    BY RequestsFinite DEF Busy
  <2>2. Cardinality(Busy \cup {s}) <= Cardinality(Busy) + 1
    BY <2>1, FS_AddElement
  <2>3. Busy \cup {s} \in SUBSET Submissions
    BY <2>1
  <2>4. /\ Cardinality(Busy') <= Cardinality(Busy \cup {s})
        /\ Cardinality(Busy') \in Nat /\ Cardinality(Busy \cup {s}) \in Nat
    <3>1. Busy' \in SUBSET (Busy \cup {s}) /\ Busy' \in SUBSET Submissions
      BY <1>4, <2>3
    <3> QED BY <2>3, <3>1, RequestsFinite
  <2> QED BY <1>2, <2>1, <2>2, <2>4, SubmitAssumption DEF SubmitAssumption
<1> QED BY <1>2, <1>3, <1>4, <1>5 DEF UseInv

\* Who passes the gate joins those counted, fewer than the quota, and the busy.
LEMMA PassUse ==
    ASSUME SubInv, UseInv, NEW s \in Submissions, PassGates(s) PROVE UseInv'
<1>1. Moved(s) /\ req'[s].step = "begin" /\ req'[s].reply = req[s].reply /\ req[s].step = "gate"
  BY GoMoves DEF PassGates, SubInv, Step, At
<1>2. UNCHANGED <<stored, fill, counter, counting, enqueuing>> /\ counter < Quota
  BY DEF PassGates
<1>3. \A q \in Submissions : Tidy(q)'
  <2>1. \A q \in Submissions : Tidy(q)
    BY DEF UseInv
  <2>2. Tidy(s)'
    BY <1>1, <1>2, <2>1 DEF Tidy, Hung
  <2>3. ASSUME NEW q \in Submissions \ {s} PROVE Tidy(q)'
    <3>1. req'[q] = req[q]
      BY <1>1 DEF Moved
    <3> QED BY <1>2, <2>1, <3>1 DEF Tidy
  <2> QED BY <2>2, <2>3
<1>4. Busy' = Busy /\ Counted' = Counted
  BY <1>1, <1>2 DEF Busy, Counted, Moved
<1>5. Through' \subseteq Counted \cup Busy
  <2>1. Through' \subseteq Counted' \cup Busy'
    BY DEF Through, Counted, Busy, Passed
  <2> QED BY <1>4, <2>1
<1>6. Cardinality(Through') <= Quota + MaxBusy - 1
  <2>1. Counted \in SUBSET Submissions /\ Busy \in SUBSET Submissions
    BY DEF Counted, Busy
  <2>2. /\ IsFiniteSet(Counted) /\ IsFiniteSet(Busy)
        /\ Cardinality(Counted) \in Nat /\ Cardinality(Busy) \in Nat
    BY <2>1, RequestsFinite
  <2>3. Cardinality(Counted \cup Busy) <= Cardinality(Counted) + Cardinality(Busy)
    <3>1. Cardinality(Counted \cup Busy) =
             Cardinality(Counted) + Cardinality(Busy) - Cardinality(Counted \cap Busy)
      BY <2>2, FS_Union
    <3>2. Cardinality(Counted \cap Busy) \in Nat
      BY <2>1, RequestsFinite
    <3> QED BY <2>2, <3>1, <3>2
  <2>4. /\ Cardinality(Through') <= Cardinality(Counted \cup Busy)
        /\ Cardinality(Through') \in Nat /\ Cardinality(Counted \cup Busy) \in Nat
    <3>1. Counted \cup Busy \in SUBSET Submissions /\ Through' \in SUBSET (Counted \cup Busy)
          /\ Through' \in SUBSET Submissions
      BY <1>5, <2>1
    <3> QED BY <3>1, RequestsFinite
  <2> QED BY <1>2, <2>2, <2>3, <2>4, SubmitAssumption DEF SubmitAssumption, UseInv
<1>7. counter' = Cardinality(Counted') /\ Cardinality(Busy') <= MaxBusy
  BY <1>2, <1>4 DEF UseInv
<1> QED BY <1>3, <1>6, <1>7 DEF UseInv

\* The INCR counts one that was through already.
LEMMA CountUse ==
    ASSUME SubInv, UseInv, NEW s \in Submissions, CountSubmission(s) PROVE UseInv'
<1>1. /\ counting[s] = "due" /\ counting' = [counting EXCEPT ![s] = "done"]
      /\ counter' = counter + 1 /\ UNCHANGED <<req, stored, fill, enqueuing>>
      /\ counting \in [Submissions -> Task]
  BY DEF CountSubmission, SubInv, SubTypeOK
<1>2. \A q \in Submissions : Tidy(q)'
  BY <1>1 DEF UseInv, Tidy
<1>3. /\ Busy' \in SUBSET Busy /\ Busy \in SUBSET Submissions
      /\ Through' = Through
      /\ Counted' = Counted \cup {s} /\ s \notin Counted /\ Counted \in SUBSET Submissions
  BY <1>1 DEF Busy, Through, Counted
<1>4. counter' = Cardinality(Counted')
  <2>1. IsFiniteSet(Counted) /\ Cardinality(Counted) \in Nat
    BY <1>3, RequestsFinite
  <2>2. Cardinality(Counted \cup {s}) = Cardinality(Counted) + 1
    BY <1>3, <2>1, FS_AddElement
  <2> QED BY <1>1, <1>3, <2>2 DEF UseInv
<1>5. Cardinality(Busy') <= MaxBusy
  <2>1. Busy' \in SUBSET Submissions
    BY <1>3
  <2>2. Cardinality(Busy') <= Cardinality(Busy)
        /\ Cardinality(Busy') \in Nat /\ Cardinality(Busy) \in Nat
    BY <1>3, <2>1, RequestsFinite
  <2> QED BY <2>2, SubmitAssumption DEF SubmitAssumption, UseInv
<1> QED BY <1>2, <1>3, <1>4, <1>5 DEF UseInv

\* What happens to a request up to its insert, or ends it without a reply of
\* acceptance.
LEMMA RefuseUse ==
    ASSUME SubInv, UseInv, NEW s \in Submissions,
           \/ QuotaExhausted(s) \/ PaymentMissing(s) \/ FailBeforeInsert(s) \/ StripFails(s)
           \/ DeleteOrphan(s) \/ CrashRequest(s)
    PROVE  UseInv'
<1>1. SubTypeOK /\ req[s].step \notin {"new", "done", "crashed"}
  BY DEF SubInv, QuotaExhausted, PaymentMissing, FailBeforeInsert, StripFails, DeleteOrphan,
     CrashRequest, At
<1>2. UNCHANGED <<fill, counter, counting, enqueuing, stored>>
  BY DEF QuotaExhausted, PaymentMissing, FailBeforeInsert, StripFails, DeleteOrphan,
     CrashRequest
<1>3. req[s].reply # "200"
  BY <1>1, NotYetAccepted
<1>4. Moved(s) /\ req'[s].step \in {"done", "crashed"} /\ req'[s].reply # "200"
  <2>1. CASE CrashRequest(s)
    BY <1>1, <1>3, <2>1, GoMoves DEF CrashRequest, Step
  <2>2. ASSUME NEW code \in {"400", "402", "429", "500"}, Answer(s, code)
        PROVE  Moved(s) /\ req'[s].step \in {"done", "crashed"} /\ req'[s].reply # "200"
    <3>1. code \in Reply /\ code # "200"
      BY <2>2 DEF Reply
    <3> QED BY <1>1, <2>2, <3>1, AnswerMoves
  <2> QED BY <2>1, <2>2 DEF QuotaExhausted, PaymentMissing, FailBeforeInsert, StripFails,
             DeleteOrphan
<1>5. /\ req'[s].step \notin Passed /\ req'[s].step \notin Hung
      /\ req'[s].step \notin {"pay", "rollback", "fill", "finish"}
  BY <1>4 DEF Passed, Hung
<1>7. Tidy(s)'
  <2>1. Tidy(s)
    BY DEF UseInv
  <2> QED BY <1>2, <1>3, <1>4, <1>5, <2>1 DEF Tidy
<1>8. s \in Busy /\ (s \in Through' => s \in Through)
  BY <1>1, <1>2, <1>5 DEF Busy, Through
<1> QED BY <1>2, <1>4, <1>7, <1>8, UseKept

\* Opening and committing the transaction, and the stripped payload.
LEMMA InsertUse ==
    ASSUME SubInv, UseInv, NEW s \in Submissions,
           BeginReplace(s) \/ CommitSubmission(s) \/ StripSkipped(s)
    PROVE  UseInv'
<1>0. SubTypeOK /\ req \in [Submissions -> Request]
  BY DEF SubInv, SubTypeOK
<1>1. CASE BeginReplace(s)
  <2>1. PICK prior \in SUBSET Submissions :
           req' = [req EXCEPT ![s].step = "open", ![s].prior = prior]
    <3>1. (IF ReplaceMode THEN LivePrior(s) ELSE {}) \in SUBSET Submissions
      BY DEF LivePrior
    <3> QED BY <1>1, <3>1 DEF BeginReplace
  <2>2. req' = [req EXCEPT ![s] = [req[s] EXCEPT !.step = "open", !.prior = prior]]
    BY <1>0, <2>1
  <2>0. req[s] \in Request /\ "open" \in Step
    BY <1>0 DEF Step
  <2>5. [req[s] EXCEPT !.step = "open", !.prior = prior] \in Request
    BY <2>0 DEF Request
  <2>3. Moved(s) /\ req'[s].step = "open" /\ req'[s].reply = req[s].reply
    BY <1>0, <2>0, <2>2, <2>5 DEF Moved, Request
  <2>4. req[s].step = "begin" /\ UNCHANGED <<stored, fill, counter, counting, enqueuing>>
    BY <1>1 DEF BeginReplace, At
  <2> QED BY <2>3, <2>4, StepUse DEF Passed, Hung
<1>2. CASE CommitSubmission(s)
  <2>1. Moved(s) /\ req'[s].step = "strip" /\ req'[s].reply = req[s].reply
    BY <1>0, <1>2, GoMoves DEF CommitSubmission, Step
  <2>2. req[s].step = "open" /\ UNCHANGED <<fill, counter, counting, enqueuing>>
        /\ \A q \in Submissions \ {s} : stored'[q] = stored[q]
    BY <1>0, <1>2 DEF CommitSubmission, At, SubTypeOK
  <2> QED BY <2>1, <2>2, StepUse DEF Passed, Hung
<1>3. CASE StripSkipped(s)
  <2>1. /\ Moved(s) /\ req'[s].step \in {"pay", "fill"} /\ req'[s].reply = req[s].reply
    BY <1>0, <1>3, GoMoves DEF StripSkipped, Step
  <2>2. req[s].step = "strip" /\ UNCHANGED <<fill, counter, counting, enqueuing>>
        /\ stored'[s] = "visible"
        /\ \A q \in Submissions \ {s} : stored'[q] = stored[q]
    BY <1>0, <1>3 DEF StripSkipped, At, SubTypeOK
  <2> QED BY <2>1, <2>2, StepUse DEF Passed, Hung
<1> QED BY <1>1, <1>2, <1>3

\* The recording of the payment hangs nothing on the row yet.
LEMMA RecordUse ==
    ASSUME SubInv, UseInv, NEW s \in Submissions, RecordPayment(s)
    PROVE  UseInv'
<1>1. SubTypeOK /\ PayInv /\ req[s].step = "pay" /\ PaymentRequired /\ req[s].intent \in Intents
  BY DEF SubInv, PaidSteps, PaidSoFar, RecordPayment, At
<1>2. rec'[s].step \in {"retrieved", "recorded", "rejected", "failed"}
  BY <1>1, RecordingMoves DEF RecordPayment
<1>3. AfterRecording(rec'[s].step) \in {"pay", "fill", "rollback"}
  BY <1>2 DEF AfterRecording
<1>4. Moved(s) /\ req'[s].step \in {"pay", "fill", "rollback"} /\ req'[s].reply = req[s].reply
  BY <1>1, <1>3, GoMoves DEF RecordPayment, Step
<1>5. UNCHANGED <<stored, fill, counter, counting, enqueuing>>
  BY DEF RecordPayment
<1>6. stored[s] = "visible"
  BY <1>1 DEF UseInv, Tidy
<1> QED BY <1>1, <1>4, <1>5, <1>6, StepUse DEF Passed, Hung

\* The fill, and the reply with its two tasks.
LEMMA ReplyUse ==
    ASSUME SubInv, UseInv, NEW s \in Submissions,
           MarkFilled(s) \/ FillFails(s) \/ FinishSubmit(s)
    PROVE  UseInv'
<1>1. /\ SubTypeOK /\ req[s].step \in {"fill", "finish"} /\ req[s].reply # "200" /\ Tidy(s)
      /\ req[s].who \in Identities /\ NoSubmission \notin Submissions
  <2>1. req[s].who \in Identities
    BY DEF SubInv, SubTypeOK, Request
  <2> QED BY <2>1, NotYetAccepted, SentinelAssumption
          DEF SubInv, MarkFilled, FillFails, FinishSubmit, At, UseInv, SentinelAssumption
<1>2. stored[s] = "visible" /\ counting[s] = "none" /\ s \in Busy /\ s \in Through
  BY <1>1 DEF Tidy, Busy, Through, Passed
<1>3. CASE MarkFilled(s) \/ FillFails(s)
  <2>1. /\ Moved(s) /\ req'[s].step \in {"finish", "done"} /\ req'[s].reply # "200"
    <3>1. CASE MarkFilled(s)
      BY <1>1, <3>1, GoMoves DEF MarkFilled, Step
    <3>2. CASE FillFails(s)
      BY <1>1, <3>2, AnswerMoves DEF FillFails, Reply
    <3> QED BY <1>3, <3>1, <3>2
  <2>2. UNCHANGED <<stored, counter, counting, enqueuing>>
        /\ \A w \in Identities : fill'[w] \in {fill[w], s}
    BY <1>1, <1>3 DEF MarkFilled, FillFails, SubTypeOK
  <2>3. Tidy(s)'
    BY <1>1, <1>2, <2>1, <2>2 DEF Tidy, Hung
  <2>4. \A q \in Submissions \ {s} : \A w \in Identities : fill'[w] = q => fill[w] = q
    BY <2>2
  <2> QED BY <1>2, <2>1, <2>2, <2>3, <2>4, UseKept
<1>4. CASE FinishSubmit(s)
  <2>1. Moved(s) /\ req'[s].step = "done" /\ req'[s].reply = "200"
    BY <1>1, <1>4, AnswerMoves DEF FinishSubmit, Reply
  <2>2. /\ UNCHANGED <<stored, counter, fill>>
        /\ counting'[s] = "due" /\ enqueuing'[s] = "due"
        /\ \A q \in Submissions \ {s} : /\ counting'[q] = counting[q]
                                        /\ enqueuing'[q] = enqueuing[q]
    BY <1>1, <1>4 DEF FinishSubmit, SubTypeOK
  <2>3. Tidy(s)'
    BY <1>2, <2>1, <2>2 DEF Tidy, Hung
  <2> QED BY <1>2, <2>1, <2>2, <2>3, UseKept
<1> QED BY <1>3, <1>4

\* The other tasks, admins, Stripe and the webhook handlers.
LEMMA AsideUse ==
    ASSUME SubInv, UseInv,
           \/ \E s \in Submissions : EnqueueWebhooks(s) \/ LoseTask(s) \/ AdminStep(s)
           \/ PaymentsStep \/ UNCHANGED vars
    PROVE  UseInv'
<1>0. SubTypeOK /\ \A q \in Submissions : Tidy(q)
  BY DEF SubInv, UseInv
<1>1. ASSUME NEW s \in Submissions, EnqueueWebhooks(s) \/ LoseTask(s) PROVE UseInv'
  <2>1. UNCHANGED <<req, stored, fill, counter>>
    BY <1>1 DEF EnqueueWebhooks, LoseTask
  <2>2. /\ enqueuing'[s] # "none" <=> enqueuing[s] # "none"
        /\ counting'[s] # "none" <=> counting[s] # "none"
        /\ counting'[s] \in {counting[s], "lost"} /\ (counting'[s] = "done" <=> counting[s] = "done")
        /\ \A q \in Submissions \ {s} : /\ counting'[q] = counting[q]
                                        /\ enqueuing'[q] = enqueuing[q]
    BY <1>0, <1>1 DEF EnqueueWebhooks, LoseTask, SubTypeOK
  <2>3. Moved(s)
    BY <1>0, <2>1 DEF Moved, SubTypeOK
  <2>4. Tidy(s)'
    BY <1>0, <2>1, <2>2 DEF Tidy
  <2>5. (s \in Busy' => s \in Busy) /\ (s \in Through' => s \in Through)
    BY <2>1, <2>2 DEF Busy, Through
  <2> QED BY <2>1, <2>2, <2>3, <2>4, <2>5, UseKept
<1>2. ASSUME UNCHANGED <<req, stored, fill, counter, counting, enqueuing>> PROVE UseInv'
  BY <1>2 DEF UseInv, Tidy, Counted, Busy, Through
<1>3. ASSUME NEW s \in Submissions, AdminStep(s) PROVE UseInv'
  BY <1>2, <1>3 DEF AdminStep, SoftDelete, RestoreSubmission
<1> QED BY <1>1, <1>2, <1>3 DEF PaymentsStep, subVars, vars

\* Every step keeps it.
LEMMA NextUse == SubInv /\ UseInv /\ [Next]_vars => UseInv'
<1> SUFFICES ASSUME SubInv, UseInv, [Next]_vars PROVE UseInv'
  OBVIOUS
<1>1. ASSUME NEW s \in Submissions, RequestStep(s) PROVE UseInv'
  BY <1>1, ArriveUse, PassUse, RefuseUse, InsertUse, RecordUse, ReplyUse DEF RequestStep
<1>2. ASSUME NEW s \in Submissions, TaskStep(s) \/ AdminStep(s) PROVE UseInv'
  BY <1>2, CountUse, AsideUse DEF TaskStep
<1>3. CASE PaymentsStep \/ UNCHANGED vars
  BY <1>3, AsideUse
<1> QED BY <1>1, <1>2, <1>3 DEF Next

\* At first nothing is counted and nobody is busy.
LEMMA InitUse == Init => UseInv
<1> SUFFICES ASSUME Init PROVE UseInv
  OBVIOUS
<1>0. PICK who \in [Submissions -> Identities], pi \in [Submissions -> Intents \cup {NoIntent}] :
         req = [s \in Submissions |->
                  [step |-> "new", reply |-> "none", who |-> who[s],
                   intent |-> pi[s], prior |-> {}]]
  BY DEF Init
<1>1. \A s \in Submissions : req[s].step = "new" /\ req[s].reply = "none"
  BY <1>0
<1>2. \A s \in Submissions : Tidy(s)
  BY <1>1, SentinelAssumption DEF Init, Tidy, Hung, SentinelAssumption
<1>3. Counted = {} /\ Busy = {} /\ Through = {}
  BY <1>1 DEF Init, Counted, Busy, Through, Passed
<1>4. Cardinality({}) = 0
  BY FS_EmptySet
<1> QED BY <1>2, <1>3, <1>4, SubmitAssumption DEF Init, UseInv, SubmitAssumption

\* The counts and what is hung on rows, in every state.
THEOREM UseInvHolds == Spec => [](SubInv /\ UseInv)
<1> QED BY InitSubInv, NextSubInv, InitUse, NextUse, PTL DEF Spec

\* No fill and no webhook job is there before the payload is stripped
\* (submit.ts: the update of the stripped payload precedes both).
THEOREM DownstreamSeesVisibleHolds == Spec => []DownstreamSeesVisible
<1>1. SubInv /\ UseInv => DownstreamSeesVisible
  BY DEF UseInv, Tidy, DownstreamSeesVisible
<1> QED BY <1>1, UseInvHolds, PTL

\* The quota counter counts accepted submissions, each once at most
\* (submit.ts: recordSubmission runs behind the reply).
THEOREM CounterNotAheadHolds == Spec => []CounterNotAhead
<1>1. SubInv /\ UseInv => CounterNotAhead
  <2> SUFFICES ASSUME SubInv, UseInv PROVE counter <= Cardinality(Accepted)
    BY DEF CounterNotAhead
  <2>1. Counted \in SUBSET Accepted /\ Accepted \in SUBSET Submissions
    BY DEF Counted, Accepted, UseInv, Tidy
  <2> QED BY <2>1, RequestsFinite DEF UseInv
<1> QED BY <1>1, UseInvHolds, PTL

\* Requests that overlap overshoot the quota by their number less one at most
\* (plan.service.ts: the gate's read and the INCR are a request apart).
THEOREM OvershootBoundedHolds == Spec => []QuotaOvershootBounded
<1>1. SubInv /\ UseInv => QuotaOvershootBounded
  <2> SUFFICES ASSUME SubInv, UseInv
               PROVE  Cardinality({s \in Accepted : counting[s] # "lost"}) <= Quota + MaxBusy - 1
    BY DEF QuotaOvershootBounded
  <2> DEFINE A == {s \in Accepted : counting[s] # "lost"}
  <2>1. \A s \in Submissions : counting[s] \in Task
    BY DEF SubInv, SubTypeOK
  <2>2. A \in SUBSET Through /\ Through \in SUBSET Submissions /\ A \in SUBSET Submissions
    BY <2>1 DEF Through, Accepted, UseInv, Tidy, Task
  <2> HIDE DEF A
  <2>3. Cardinality(A) <= Cardinality(Through)
        /\ Cardinality(A) \in Nat /\ Cardinality(Through) \in Nat
    BY <2>2, RequestsFinite
  <2>4. Cardinality(A) <= Quota + MaxBusy - 1
    BY <2>3, SubmitAssumption DEF UseInv, SubmitAssumption
  <2> QED BY <2>4 DEF A
<1> QED BY <1>1, UseInvHolds, PTL

-----------------------------------------------------------------------------
\* The refused

\* A recording that has written nothing has no payment, and a reply of 402
\* came with the delete of the row.
RefusedSoFar(s) ==
    /\ rec[s].step \in {"idle", "retrieved", "rejected"} =>
          \A i \in Intents : payment[i].sub # s
    /\ req[s].reply = "402" => req[s].step = "done" /\ submission[s] = "gone"

RefusedInv == \A s \in Submissions : RefusedSoFar(s)

\* A deleted row does not come back, and what else a step of s must not do.
LEMMA RefusedKept ==
    ASSUME RefusedInv, NEW s \in Submissions, Moved(s), RefusedSoFar(s)',
           \A q \in Submissions \ {s} :
              /\ rec'[q] = rec[q]
              /\ submission[q] = "gone" => submission'[q] = "gone"
              /\ \A i \in Intents : payment'[i].sub = q => payment[i].sub = q
    PROVE  RefusedInv'
<1> SUFFICES ASSUME NEW q \in Submissions \ {s} PROVE RefusedSoFar(q)'
  BY DEF RefusedInv
<1>1. req'[q] = req[q] /\ rec'[q] = rec[q] /\ RefusedSoFar(q)
  BY DEF RefusedInv, Moved
<1> QED BY <1>1 DEF RefusedSoFar

\* The recording: a payment of s is there only when it has gone past "retrieved".
LEMMA RecordRefuses ==
    ASSUME SubInv, RefusedInv, NEW s \in Submissions, RecordPayment(s)
    PROVE  RefusedInv'
<1>1. SubTypeOK /\ PayInv /\ req[s].step = "pay" /\ req[s].intent \in Intents /\ RefusedSoFar(s)
  BY DEF SubInv, PaidSteps, PaidSoFar, RecordPayment, At, RefusedInv
<1> DEFINE i == req[s].intent
<1>2. /\ RetrieveIntent(s, i) \/ RetrieveFails(s) \/ UpsertPayment(s) \/ UpsertFails(s)
      /\ Go(s, AfterRecording(rec'[s].step))
      /\ UNCHANGED <<submission, stored, fill, counter, counting, enqueuing>>
  BY DEF RecordPayment
<1>3. /\ \A j \in Intents : payment'[j].sub \in {payment[j].sub, s}
      /\ \A q \in Submissions \ {s} : rec'[q] = rec[q]
      /\ rec'[s].step \in {"retrieved", "recorded", "rejected", "failed"}
  BY <1>1, <1>2, RecordingMoves
<1>4. rec'[s].step \in {"retrieved", "rejected"} => UNCHANGED payment /\ rec[s].step = "idle"
  <2>1. CASE RetrieveIntent(s, i)
    BY <2>1 DEF RetrieveIntent
  <2>2. CASE RetrieveFails(s) \/ UpsertPayment(s) \/ UpsertFails(s)
    <3>1. rec \in [Submissions -> Recording]
      BY <1>1 DEF PayInv, PayTypeOK
    <3>2. PICK outcome \in {"recorded", "failed"} : rec' = [rec EXCEPT ![s].step = outcome]
      BY <2>2 DEF RetrieveFails, UpsertPayment, UpsertFails
    <3>3. rec'[s].step = outcome
      BY <3>1, <3>2
    <3> QED BY <3>2, <3>3
  <2> QED BY <1>2, <2>1, <2>2
<1>5. AfterRecording(rec'[s].step) \in {"pay", "fill", "rollback"}
  BY <1>3 DEF AfterRecording
<1>6. Moved(s) /\ req'[s].reply = req[s].reply
  BY <1>1, <1>2, <1>5, GoMoves DEF Step
<1>7. RefusedSoFar(s)'
  BY <1>1, <1>2, <1>3, <1>4, <1>6 DEF RefusedSoFar
<1> QED BY <1>2, <1>3, <1>6, <1>7, RefusedKept

\* The rollback of a rejected payment meets no reference, and deletes the row.
LEMMA DeleteRefuses ==
    ASSUME SubInv, UseInv, RefusedInv, "delete" \notin Faults,
           NEW s \in Submissions, DeleteOrphan(s)
    PROVE  RefusedInv'
<1>1. SubTypeOK /\ req[s].step = "rollback" /\ RefusedSoFar(s) /\ Tidy(s)
  BY DEF SubInv, DeleteOrphan, At, RefusedInv, UseInv
<1>2. /\ UNCHANGED payVars
      /\ \/ Answer(s, "402") /\ rec[s].step = "rejected"
         \/ Answer(s, "500")
  BY DEF DeleteOrphan
<1>3. /\ Moved(s) /\ req'[s].step = "done" /\ req'[s].reply \in {"402", "500"}
      /\ req'[s].reply = "402" => rec[s].step = "rejected"
  <2>1. "402" \in Reply /\ "500" \in Reply /\ "402" # "500"
    BY DEF Reply
  <2> QED BY <1>1, <1>2, <2>1, AnswerMoves
<1>4. rec[s].step = "rejected" => ~Referenced(s)
  BY <1>1 DEF Tidy, Hung, RefusedSoFar, Referenced
<1>5. /\ req'[s].reply = "402" => submission'[s] = "gone"
      /\ \A q \in Submissions \ {s} : submission'[q] = submission[q]
  BY <1>1, <1>3, <1>4 DEF DeleteOrphan, SubTypeOK
<1>6. RefusedSoFar(s)'
  BY <1>1, <1>2, <1>3, <1>5 DEF RefusedSoFar, payVars
<1> QED BY <1>2, <1>3, <1>5, <1>6, RefusedKept DEF payVars

\* Every other step of a request replies something else, or nothing.
LEMMA RequestRefuses ==
    ASSUME SubInv, RefusedInv, NEW s \in Submissions, RequestStep(s),
           ~RecordPayment(s), ~DeleteOrphan(s)
    PROVE  RefusedInv'
<1>1. SubTypeOK /\ RefusedSoFar(s) /\ req[s].step # "done" /\ req[s].reply # "402"
  BY DEF SubInv, RefusedInv, RefusedSoFar, RequestStep, At, Arrive, PassGates, QuotaExhausted,
     PaymentMissing, BeginReplace, CommitSubmission, FailBeforeInsert, StripSkipped, StripFails,
     MarkFilled, FillFails, FinishSubmit, CrashRequest
<1>2. UNCHANGED payVars
  BY DEF RequestStep, Arrive, PassGates, QuotaExhausted, PaymentMissing, BeginReplace,
     CommitSubmission, FailBeforeInsert, StripSkipped, StripFails, MarkFilled, FillFails,
     FinishSubmit, CrashRequest
<1>3. \A q \in Submissions \ {s} : submission[q] = "gone" => submission'[q] = "gone"
  <2>1. CASE CommitSubmission(s)
    BY <2>1 DEF CommitSubmission
  <2>2. CASE UNCHANGED submission
    BY <2>2
  <2> QED BY <2>1, <2>2 DEF RequestStep, Arrive, PassGates, QuotaExhausted, PaymentMissing,
             BeginReplace, FailBeforeInsert, StripSkipped, StripFails, MarkFilled,
             FillFails, FinishSubmit, CrashRequest
<1>4. Moved(s) /\ req'[s].reply # "402"
  <2>1. ASSUME NEW step \in Step, Go(s, step) PROVE Moved(s) /\ req'[s].reply # "402"
    BY <1>1, <2>1, GoMoves
  <2>2. ASSUME NEW code \in Reply \ {"402"}, Answer(s, code)
        PROVE  Moved(s) /\ req'[s].reply # "402"
    BY <1>1, <2>2, AnswerMoves
  <2>3. CASE Arrive(s) \/ PassGates(s) \/ CommitSubmission(s) \/ StripSkipped(s)
             \/ MarkFilled(s) \/ CrashRequest(s)
    BY <2>1, <2>3 DEF Step, Arrive, PassGates, CommitSubmission, StripSkipped, MarkFilled,
       CrashRequest
  <2>4. CASE QuotaExhausted(s) \/ PaymentMissing(s) \/ FailBeforeInsert(s) \/ StripFails(s)
             \/ FillFails(s) \/ FinishSubmit(s)
    BY <2>2, <2>4 DEF Reply, QuotaExhausted, PaymentMissing, FailBeforeInsert, StripFails,
       FillFails, FinishSubmit
  <2>5. CASE BeginReplace(s)
    <3> DEFINE prior == IF ReplaceMode THEN LivePrior(s) ELSE {}
    <3>1. prior \in SUBSET Submissions /\ req' = [req EXCEPT ![s].step = "open", ![s].prior = prior]
      BY <2>5 DEF BeginReplace, LivePrior
    <3> HIDE DEF prior
    <3>2. req[s] \in Request /\ "open" \in Step /\ req \in [Submissions -> Request]
      BY <1>1 DEF SubTypeOK, Step
    <3>3. [req[s] EXCEPT !.step = "open", !.prior = prior] \in Request
      BY <3>1, <3>2 DEF Request
    <3>4. req' = [req EXCEPT ![s] = [req[s] EXCEPT !.step = "open", !.prior = prior]]
      BY <3>1, <3>2
    <3> QED BY <1>1, <3>2, <3>3, <3>4 DEF Moved, Request
  <2> QED BY <2>3, <2>4, <2>5 DEF RequestStep
<1>5. RefusedSoFar(s)'
  BY <1>1, <1>2, <1>4 DEF RefusedSoFar, payVars
<1> QED BY <1>2, <1>3, <1>4, <1>5, RefusedKept DEF payVars

\* Every step keeps it.
LEMMA NextRefuses ==
    SubInv /\ UseInv /\ RefusedInv /\ "delete" \notin Faults /\ [Next]_vars => RefusedInv'
<1> SUFFICES ASSUME SubInv, UseInv, RefusedInv, "delete" \notin Faults, [Next]_vars
             PROVE  RefusedInv'
  OBVIOUS
<1>1. ASSUME NEW s \in Submissions, RequestStep(s) PROVE RefusedInv'
  BY <1>1, RecordRefuses, DeleteRefuses, RequestRefuses
<1>2. ASSUME UNCHANGED <<req, rec>>,
             \A s \in Submissions :
                /\ submission[s] = "gone" => submission'[s] = "gone"
                /\ \A i \in Intents : payment'[i].sub = payment[i].sub
      PROVE  RefusedInv'
  BY <1>2 DEF RefusedInv, RefusedSoFar
<1>3. ASSUME NEW s \in Submissions, TaskStep(s) \/ AdminStep(s) PROVE RefusedInv'
  <2>1. UNCHANGED <<req, rec, payment>>
    BY <1>3 DEF TaskStep, CountSubmission, EnqueueWebhooks, LoseTask, AdminStep, SoftDelete,
       RestoreSubmission, payVars
  <2>2. \A q \in Submissions : submission[q] = "gone" => submission'[q] = "gone"
    BY <1>3 DEF TaskStep, CountSubmission, EnqueueWebhooks, LoseTask, AdminStep, SoftDelete,
       RestoreSubmission, SubInv, SubTypeOK
  <2> QED BY <1>2, <2>1, <2>2
<1>4. CASE PaymentsStep
  <2>1. UNCHANGED <<req, submission>>
    BY <1>4 DEF PaymentsStep, subVars
  <2> QED BY <1>2, <1>4, <2>1, PaymentsStepMoves
<1>5. CASE UNCHANGED vars
  BY <1>2, <1>5 DEF vars, subVars, payVars
<1> QED BY <1>1, <1>3, <1>4, <1>5 DEF Next

\* A refusal leaves no row, unless the delete itself fails, an error that
\* submit.ts swallows.
THEOREM RefusedLeavesNoRowHolds ==
    ASSUME "delete" \notin Faults
    PROVE  Spec => []RefusedLeavesNoRow
<1>1. Init => RefusedInv
  <2> SUFFICES ASSUME Init PROVE RefusedInv
    OBVIOUS
  <2>1. PICK who \in [Submissions -> Identities],
             pi \in [Submissions -> Intents \cup {NoIntent}] :
           req = [s \in Submissions |->
                    [step |-> "new", reply |-> "none", who |-> who[s],
                     intent |-> pi[s], prior |-> {}]]
    BY DEF Init
  <2>2. \A s \in Submissions : req[s].reply = "none"
    BY <2>1
  <2> QED BY <2>2, SentinelAssumption
          DEF Init, PayInit, NoRow, RefusedInv, RefusedSoFar, SentinelAssumption
<1>2. SubInv /\ UseInv /\ RefusedInv /\ [Next]_vars => RefusedInv'
  BY NextRefuses
<1>3. RefusedInv => RefusedLeavesNoRow
  BY DEF RefusedInv, RefusedSoFar, RefusedLeavesNoRow
<1> QED BY <1>1, <1>2, <1>3, UseInvHolds, PTL DEF Spec

=============================================================================
