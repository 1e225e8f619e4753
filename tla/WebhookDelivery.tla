-------------------------- MODULE WebhookDelivery --------------------------
(***************************************************************************)
(* Webhook deliveries: enqueueOnSubmit, replayDelivery and deleteWebhook   *)
(* of core/webhooks/webhook.service.ts, the queue (queues/webhook.queue.ts)*)
(* and processDelivery of workers/webhook.worker.ts.                       *)
(*                                                                         *)
(* A delivery lives twice: as a row in Postgres and as a job in Redis,     *)
(* written one after the other by whoever asks for it, a submit or an      *)
(* admin's replay.  A worker process takes the job, reads the row, POSTs,  *)
(* writes the outcome to the row, and returns or throws, upon which BullMQ *)
(* completes the job, delays it for a retry, or fails it.  BullMQ is       *)
(* modelled as the worker uses it: a taken job is locked; a job whose lock *)
(* has expired has stalled and is given out again, MaxStalled times.       *)
(***************************************************************************)
EXTENDS Naturals, FiniteSets

CONSTANTS
    Webhooks,      \* the webhooks of the form
    Broken,        \* those whose secret cannot be opened with the server's key
    Submits,       \* accepted submits, each runs enqueueOnSubmit
    Replays,       \* admins' replay requests
    Deliveries,    \* ids of delivery rows, and so of jobs
    Workers,       \* slots of worker processes, each works on one job
    NoDelivery, NoWebhook, NoWorker,
    MaxAttempts,   \* attempts of a job: 8 in the code
    MaxStalled,    \* maxStalledCount of a Worker, 1 by default
    Faults         \* what goes wrong in the run

FaultKind == {"enqueue", "database", "crash", "lock"}

ASSUME DeliveryAssumption ==
    /\ Broken \subseteq Webhooks
    /\ NoDelivery \notin Deliveries
    /\ NoWebhook \notin Webhooks
    /\ NoWorker \notin Workers
    /\ IsFiniteSet(Workers)
    /\ MaxAttempts \in Nat \ {0}
    /\ MaxStalled \in Nat
    /\ Faults \subseteq FaultKind

VARIABLES
    hook,      \* form_webhooks
    row,       \* form_webhook_deliveries
    job,       \* the jobs in Redis
    producer,  \* the requests that make deliveries
    worker,    \* what each worker is doing
    posts,     \* how often the receiver was sent a delivery
    received,  \* the receiver took it (with 2xx, if it could answer)
    hit,       \* a fault struck the add of its job, or the latest attempt at it
    untold     \* history: the worker was not told of the outcome it had written

vars == <<hook, row, job, producer, worker, posts, received, hit, untold>>

-----------------------------------------------------------------------------
Producers == Submits \cup Replays

Row == [status : {"none", "pending", "delivered", "failed", "gone"},
        hook : Webhooks \cup {NoWebhook},
        attempt : Nat]

Job == [state : {"none", "waiting", "active", "delayed", "completed", "failed"},
        made : 0 .. MaxAttempts, stalls : 0 .. MaxStalled + 1,
        lock : Workers \cup {NoWorker}]

Producer == [step : {"new", "create", "add", "done", "failed"},
             todo : SUBSET Webhooks, delivery : Deliveries \cup {NoDelivery}]

Work == [step : {"idle", "load", "post", "write", "report"},
         delivery : Deliveries \cup {NoDelivery},
         made : 0 .. MaxAttempts,
         answer : {"none", "ok", "refused", "unsealed"},
         result : {"none", "return", "throw"}]

IdleWork == [step |-> "idle", delivery |-> NoDelivery, made |-> 0,
             answer |-> "none", result |-> "none"]

TypeOK ==
    /\ hook \in [Webhooks -> {"active", "inactive", "deleted"}]
    /\ row \in [Deliveries -> Row]
    /\ job \in [Deliveries -> Job]
    /\ producer \in [Producers -> Producer]
    /\ worker \in [Workers -> Work]
    /\ posts \in [Deliveries -> Nat]
    /\ received \in [Deliveries -> BOOLEAN]
    /\ hit \subseteq Deliveries
    /\ untold \subseteq Deliveries

Exists(d) == row[d].status \notin {"none", "gone"}

-----------------------------------------------------------------------------
\* Producers

\* The webhooks that are active and want the event are listed.
ListWebhooks(s) ==
    /\ producer[s].step = "new"
    /\ LET todo == {h \in Webhooks : hook[h] = "active"}
       IN producer' = [producer EXCEPT ![s].todo = todo,
                         ![s].step = IF todo = {} THEN "done" ELSE "create"]
    /\ UNCHANGED <<hook, row, job, worker, posts, received, hit, untold>>

\* The row of a delivery, pending, before its job is there.
InsertRow(p, d, h, attempt) ==
    /\ row[d].status = "none"
    /\ hook[h] # "deleted"
    /\ row' = [row EXCEPT ![d] = [status |-> "pending", hook |-> h, attempt |-> attempt]]
    /\ producer' = [producer EXCEPT ![p].step = "add", ![p].delivery = d,
                                    ![p].todo = @ \ {h}]
    /\ UNCHANGED <<hook, job, worker, posts, received, hit, untold>>

CreateDelivery(s, d, h) ==
    /\ producer[s].step = "create"
    /\ h \in producer[s].todo
    /\ InsertRow(s, d, h, 1)

\* replayDelivery of the row o, whatever its status.
ReplayDelivery(r, o, d) ==
    /\ producer[r].step = "new"
    /\ Exists(o)
    /\ InsertRow(r, d, row[o].hook, row[o].attempt + 1)

NewJob == [state |-> "waiting", made |-> 0, stalls |-> 0, lock |-> NoWorker]

\* enqueueWebhookDelivery: the row's id is the job's.
AddJob(p) ==
    /\ producer[p].step = "add"
    /\ job' = [job EXCEPT ![producer[p].delivery] = NewJob]
    /\ producer' = [producer EXCEPT ![p].delivery = NoDelivery,
                      ![p].step = IF producer[p].todo = {} THEN "done" ELSE "create"]
    /\ UNCHANGED <<hook, row, worker, posts, received, hit, untold>>

\* A statement or the add throws, or the process dies.  Nobody resumes the
\* loop: the webhooks left get no row, and a row without a job stays so.
ProducerFails(p) ==
    /\ producer[p].step \in {"create", "add"}
    /\ \/ "enqueue" \in Faults
       \/ /\ producer[p].step = "create"
          /\ \E h \in producer[p].todo : hook[h] = "deleted"
    /\ producer' = [producer EXCEPT ![p].step = "failed"]
    /\ hit' = IF producer[p].step = "add" THEN hit \cup {producer[p].delivery} ELSE hit
    /\ UNCHANGED <<hook, row, job, worker, posts, received, untold>>

-----------------------------------------------------------------------------
\* Admins: updateWebhook, and deleteWebhook, which takes the rows along.

SwitchWebhook(h) ==
    /\ hook[h] # "deleted"
    /\ hook' = [hook EXCEPT ![h] = IF @ = "active" THEN "inactive" ELSE "active"]
    /\ UNCHANGED <<row, job, producer, worker, posts, received, hit, untold>>

DeleteWebhook(h) ==
    /\ hook[h] # "deleted"
    /\ hook' = [hook EXCEPT ![h] = "deleted"]
    /\ row' = [d \in Deliveries |->
                 IF row[d].hook = h THEN [row[d] EXCEPT !.status = "gone"] ELSE row[d]]
    /\ UNCHANGED <<job, producer, worker, posts, received, hit, untold>>

-----------------------------------------------------------------------------
\* The queue

\* attemptsMade is the job's when it is taken.  The new attempt makes up for a
\* fault, unless a worker that lost its lock may still write.
TakeJob(w, d) ==
    /\ worker[w].step = "idle"
    /\ job[d].state = "waiting"
    /\ job' = [job EXCEPT ![d].state = "active", ![d].lock = w]
    /\ worker' = [worker EXCEPT ![w] =
                    [IdleWork EXCEPT !.step = "load", !.delivery = d, !.made = job[d].made]]
    /\ hit' = IF \E v \in Workers : worker[v].delivery = d THEN hit ELSE hit \ {d}
    /\ UNCHANGED <<hook, row, producer, posts, received, untold>>

\* The backoff is over.
Retry(d) ==
    /\ job[d].state = "delayed"
    /\ job' = [job EXCEPT ![d].state = "waiting"]
    /\ UNCHANGED <<hook, row, producer, worker, posts, received, hit, untold>>

\* The worker that holds the job died.
Abandoned(d) == job[d].state = "active" /\ worker[job[d].lock].delivery # d

\* Or it could not renew the lock, and does not know that.
LockExpired(d) == Abandoned(d) \/ (job[d].state = "active" /\ "lock" \in Faults)

Stall(d) ==
    /\ LockExpired(d)
    /\ job' = [job EXCEPT ![d].stalls = @ + 1, ![d].lock = NoWorker,
                 ![d].state = IF job[d].stalls = MaxStalled THEN "failed" ELSE "waiting"]
    /\ hit' = hit \cup {d}
    /\ UNCHANGED <<hook, row, producer, worker, posts, received, untold>>

\* BullMQ takes the result of the process function from the lock's holder.
Report(w) ==
    LET d == worker[w].delivery
        made == job[d].made + 1
    IN /\ worker[w].step = "report"
       /\ job' = IF job[d].lock # w THEN job
                 ELSE [job EXCEPT ![d].lock = NoWorker, ![d].made = made,
                        ![d].state = IF worker[w].result = "return" THEN "completed"
                                       ELSE IF made >= MaxAttempts THEN "failed"
                                       ELSE "delayed"]
       /\ worker' = [worker EXCEPT ![w] = IdleWork]
       /\ UNCHANGED <<hook, row, producer, posts, received, hit, untold>>

-----------------------------------------------------------------------------
\* processDelivery

Ends(w, result) ==
    worker' = [worker EXCEPT ![w].step = "report", ![w].result = result]

\* The row is loaded, and the webhook's secret opened.
LoadDelivery(w) ==
    LET d == worker[w].delivery
    IN /\ worker[w].step = "load"
       /\ \/ ~Exists(d) /\ Ends(w, "return")
          \/ /\ Exists(d) /\ row[d].hook \in Broken
             /\ worker' = [worker EXCEPT ![w].step = "write", ![w].answer = "unsealed"]
          \/ /\ Exists(d) /\ row[d].hook \notin Broken
             /\ worker' = [worker EXCEPT ![w].step = "post"]
       /\ UNCHANGED <<hook, row, job, producer, posts, received, hit, untold>>

\* Mutant: a POST that is refused is repeated at once.
PostDeliveryMutant(w) ==
    LET d == worker[w].delivery
    IN /\ worker[w].step = "post"
       /\ posts' = [posts EXCEPT ![d] = @ + 1]
       /\ UNCHANGED <<hook, row, job, producer, received, worker, hit, untold>>

\* The POST.  It may be taken and the answer lost, or the timeout come first.
PostDelivery(w) ==
    LET d == worker[w].delivery
    IN /\ worker[w].step = "post"
       /\ posts' = [posts EXCEPT ![d] = @ + 1]
       /\ \E taken \in BOOLEAN, answer \in {"ok", "refused"} :
             /\ answer = "ok" => taken
             /\ received' = [received EXCEPT ![d] = @ \/ taken]
             /\ worker' = [worker EXCEPT ![w].step = "write", ![w].answer = answer]
       /\ UNCHANGED <<hook, row, job, producer, hit, untold>>

\* Mutant: attemptsMade is compared with the attempts.
IsLastAttemptMutant(w) == worker[w].made >= MaxAttempts

IsLastAttempt(w) == worker[w].made >= MaxAttempts - 1

\* Mutant: a refusal is the outcome, though another attempt is to come.
OutcomeMutant(w) == IF worker[w].answer = "ok" THEN "delivered" ELSE "failed"

Outcome(w) ==
    CASE worker[w].answer = "ok"       -> "delivered"
      [] worker[w].answer = "unsealed" -> "failed"
      [] worker[w].answer = "refused"  -> IF IsLastAttempt(w) THEN "failed" ELSE "pending"

\* Mutant: a refused POST does not throw.
WriteOutcomeMutant(w) ==
    LET d == worker[w].delivery
    IN /\ worker[w].step = "write"
       /\ Exists(d)
       /\ row' = [row EXCEPT ![d].status = Outcome(w)]
       /\ Ends(w, "return")
       /\ UNCHANGED <<hook, job, producer, posts, received, hit, untold>>

\* The row is overwritten, whatever its status is by now.
WriteOutcome(w) ==
    LET d == worker[w].delivery
    IN /\ worker[w].step = "write"
       /\ Exists(d)
       /\ row' = [row EXCEPT ![d].status = Outcome(w)]
       /\ Ends(w, IF worker[w].answer = "refused" THEN "throw" ELSE "return")
       /\ UNCHANGED <<hook, job, producer, posts, received, hit, untold>>

\* The outcome commits, and the connection breaks before the worker hears of
\* it: it throws where it would have returned, and BullMQ makes another attempt
\* at a delivery that has its outcome.  (After a refusal it throws as well, as
\* in WriteOutcome.)
OutcomeUntold(w) ==
    LET d == worker[w].delivery
    IN /\ "database" \in Faults
       /\ worker[w].step = "write"
       /\ worker[w].answer # "refused"
       /\ Exists(d)
       /\ row' = [row EXCEPT ![d].status = Outcome(w)]
       /\ Ends(w, "throw")
       /\ hit' = hit \cup {d}
       /\ untold' = untold \cup {d}
       /\ UNCHANGED <<hook, job, producer, posts, received>>

\* Mutant: an error of the write is caught, and the function never returns.
ProcessThrowsMutant(w) ==
    /\ worker[w].step = "load"
    /\ "database" \in Faults
    /\ Ends(w, "throw")
    /\ UNCHANGED <<hook, row, job, producer, posts, received, hit, untold>>

\* The row is gone, or a statement fails and writes nothing: the error goes to
\* BullMQ.
ProcessThrows(w) ==
    /\ worker[w].step \in {"load", "write"}
    /\ \/ "database" \in Faults
       \/ worker[w].step = "write" /\ ~Exists(worker[w].delivery)
    /\ Ends(w, "throw")
    /\ hit' = hit \cup {worker[w].delivery}
    /\ UNCHANGED <<hook, row, job, producer, posts, received, untold>>

\* The worker process dies and is started again.
WorkerDies(w) ==
    /\ "crash" \in Faults
    /\ worker[w].step # "idle"
    /\ worker' = [worker EXCEPT ![w] = IdleWork]
    /\ hit' = hit \cup {worker[w].delivery}
    /\ UNCHANGED <<hook, row, job, producer, posts, received, untold>>

-----------------------------------------------------------------------------
Init ==
    /\ hook = [h \in Webhooks |-> "active"]
    /\ row = [d \in Deliveries |->
                [status |-> "none", hook |-> NoWebhook, attempt |-> 0]]
    /\ job = [d \in Deliveries |-> [NewJob EXCEPT !.state = "none"]]
    /\ producer = [p \in Producers |->
                     [step |-> "new", todo |-> {}, delivery |-> NoDelivery]]
    /\ worker = [w \in Workers |-> IdleWork]
    /\ posts = [d \in Deliveries |-> 0]
    /\ received = [d \in Deliveries |-> FALSE]
    /\ hit = {}
    /\ untold = {}

ProducerStep(p) ==
    \/ p \in Submits /\ ListWebhooks(p)
    \/ \E d \in Deliveries, h \in Webhooks : CreateDelivery(p, d, h)
    \/ AddJob(p) \/ ProducerFails(p)

ReplayStep(r) == \E o, d \in Deliveries : ReplayDelivery(r, o, d)

ProcessStep(w) ==
    \/ LoadDelivery(w) \/ PostDelivery(w) \/ WriteOutcome(w)
    \/ OutcomeUntold(w) \/ ProcessThrows(w) \/ Report(w)

Next ==
    \/ \E p \in Producers : ProducerStep(p)
    \/ \E r \in Replays : ReplayStep(r)
    \/ \E h \in Webhooks : SwitchWebhook(h) \/ DeleteWebhook(h)
    \/ \E w \in Workers, d \in Deliveries : TakeJob(w, d)
    \/ \E d \in Deliveries : Retry(d) \/ Stall(d)
    \/ \E w \in Workers : ProcessStep(w) \/ WorkerDies(w)

Spec == Init /\ [][Next]_vars

\* Servers and workers go on with what they have begun, a worker that has
\* nothing to do takes a job that waits, and Redis's clock goes on: a backoff
\* ends, and the lock of a worker that died expires.
Fairness ==
    /\ \A p \in Producers : WF_vars(ProducerStep(p))
    /\ \A w \in Workers : WF_vars(ProcessStep(w))
    /\ \A d \in Deliveries :
          WF_vars(\E w \in Workers : TakeJob(w, d)) /\ WF_vars(Retry(d))
          /\ WF_vars(Abandoned(d) /\ Stall(d))

FairSpec == Spec /\ Fairness

-----------------------------------------------------------------------------
\* Properties

\* A delivery that was handed out again, or will be, though it may have its outcome.
Again == {d \in Deliveries : job[d].stalls > 0} \cup untold

\* To those who read the rows, the two stores, the retries and the workers are
\* a delivery with one outcome, which is final and true, and after which nothing
\* is sent to the receiver, unless its job has stalled or its worker was not told
\* that the outcome is written: processDelivery does not look at the row's status
\* before it sends.
Contract ==
    INSTANCE DeliveryContract WITH
        outcome <- [d \in Deliveries |-> row[d].status],
        sent <- posts,
        taken <- received,
        again <- Again

ContractImplemented == Contract!ContractSpec

\* A row says delivered only when the receiver has taken the delivery.
DeliveredWasReceived ==
    \A d \in Deliveries : row[d].status = "delivered" => received[d]

\* A receiver is not sent a delivery without end: crashes, timeouts and errors
\* together cost it the job's attempts and one more POST per stall.
PostsBounded == \A d \in Deliveries : posts[d] <= MaxAttempts + MaxStalled

\* No delivery is dropped behind its row's back, though row and job are written
\* apart: when its job is completed the row has an outcome, and when BullMQ has
\* given the job up the row says so ("the delivery row is also marked failed in
\* the final catch"), unless a fault struck the last attempt, of which there is
\* no final catch.
EndedHasOutcome ==
    \A d \in Deliveries :
        /\ job[d].state = "completed" => row[d].status \in {"delivered", "failed", "gone"}
        /\ job[d].state = "failed" /\ d \notin hit => row[d].status \in {"failed", "gone"}

\* A delivery that has been asked for comes to an outcome, its retries
\* included: "after all attempts, the delivery row is marked failed".  It may
\* stay pending only if a fault struck the add of its job or the last attempt:
\* a fault of an earlier attempt is made up for.
DeliveriesSettle ==
    \A d \in Deliveries :
        row[d].status = "pending" ~> \/ row[d].status \in {"delivered", "failed", "gone"}
                                     \/ d \in hit

\* Every job comes to its end, in spite of crashes, expired locks and errors
\* at any step.
JobsEnd ==
    \A d \in Deliveries :
        job[d].state = "waiting" ~> job[d].state \in {"completed", "failed"}

=============================================================================
