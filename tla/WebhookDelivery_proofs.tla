------------------------- MODULE WebhookDelivery_proofs -------------------------
(***************************************************************************)
(* Proofs about WebhookDelivery, for any number of webhooks, submits,      *)
(* replays, workers, attempts and stalls, and any faults.                  *)
(*                                                                         *)
(* AddInv: a job is added once, to a row that has none.  JobInv: a job     *)
(* that is not over has attempts and stalls left.  WorkInv: what a worker  *)
(* knows of its delivery is so.  Counted: who takes a job may POST once,   *)
(* and a job is taken once per attempt and stall.  HeldInv, when no lock   *)
(* expires under a living worker: a worker is alone with its job, so that  *)
(* the row is still what it wrote when BullMQ hears of it.  FinalInv: a    *)
(* delivery that never stalled is with one worker, and undecided as long   *)
(* as an attempt is to come, unless the worker was not told that its       *)
(* outcome is written; so WebhookDelivery implements DeliveryContract.     *)
(***************************************************************************)
EXTENDS WebhookDelivery, FiniteSetTheorems, TLAPS

AddInv ==
    /\ \A p \in Producers : producer[p].step = "add" =>
          /\ producer[p].delivery \in Deliveries
          /\ job[producer[p].delivery].state = "none"
          /\ row[producer[p].delivery].status # "none"
    /\ \A p, q \in Producers :
          /\ producer[p].step = "add" /\ producer[q].step = "add"
          /\ producer[p].delivery = producer[q].delivery
          => p = q
    /\ \A d \in Deliveries :
          /\ row[d].status = "none" => job[d].state = "none"
          /\ Exists(d) => row[d].hook \in Webhooks

JobRight(j) ==
    /\ j.state = "none" => j.made = 0 /\ j.stalls = 0
    /\ j.state \in {"waiting", "active", "delayed"} =>
          j.made < MaxAttempts /\ j.stalls <= MaxStalled
    /\ j.state = "active" <=> j.lock \in Workers
    /\ j.made + j.stalls <= MaxAttempts + MaxStalled

JobInv == \A d \in Deliveries : JobRight(job[d])

WorkRight(w) ==
    /\ worker[w].step = "idle" => worker[w] = IdleWork
    /\ worker[w].step # "idle" => worker[w].delivery \in Deliveries
    /\ worker[w].step = "write" => worker[w].answer # "none"
    /\ worker[w].step = "report" => worker[w].result # "none"
    /\ worker[w].answer = "ok" => received[worker[w].delivery]

WorkInv == \A w \in Workers : WorkRight(w)

SafeInv == TypeOK /\ AddInv /\ JobInv /\ WorkInv /\ DeliveredWasReceived

-----------------------------------------------------------------------------
\* Nothing is asked for and nothing is queued: the parts hold.
LEMMA InitSafe == Init => SafeInv
<1> SUFFICES ASSUME Init PROVE SafeInv
  OBVIOUS
<1> USE DeliveryAssumption
<1>1. TypeOK
  BY DEF Init, TypeOK, Row, Job, NewJob, Producer, Work, IdleWork
<1>2. AddInv
  BY DEF Init, AddInv, NewJob, Exists
<1>3. JobInv
  BY DEF Init, JobInv, JobRight, NewJob
<1>4. WorkInv /\ DeliveredWasReceived
  BY DEF Init, WorkInv, WorkRight, IdleWork, DeliveredWasReceived
<1> QED BY <1>1, <1>2, <1>3, <1>4 DEF SafeInv

-----------------------------------------------------------------------------
\* Requests: a producer, or an administrator, keeps the types.
LEMMA RequestTypes ==
    ASSUME SafeInv,
           \/ \E p \in Producers : ProducerStep(p)
           \/ \E r \in Replays : ReplayStep(r)
           \/ \E h \in Webhooks : SwitchWebhook(h) \/ DeleteWebhook(h)
    PROVE  TypeOK'
<1> USE DeliveryAssumption
<1>0. TypeOK
  BY DEF SafeInv
<1>p. producer \in [Producers -> Producer]
  BY <1>0 DEF TypeOK
<1>1. ASSUME NEW p \in Submits, ListWebhooks(p) PROVE TypeOK'
  <2> DEFINE todo == {h \in Webhooks : hook[h] = "active"}
  <2>1. todo \in SUBSET Webhooks /\ p \in Producers /\ producer[p] \in Producer
    BY <1>0 DEF Producers, TypeOK
  <2>2. PICK s \in {"done", "create"} :
          producer' = [producer EXCEPT ![p].todo = todo, ![p].step = s]
    BY <1>1 DEF ListWebhooks
  <2> HIDE DEF todo
  <2>3. producer' \in [Producers -> Producer]
    BY <1>0, <2>1, <2>2 DEF TypeOK, Producer
  <2> QED BY <1>0, <1>1, <2>3 DEF ListWebhooks, TypeOK
<1>2. ASSUME NEW p \in Producers, NEW d \in Deliveries, NEW h \in Webhooks, NEW n \in Nat,
             InsertRow(p, d, h, n)
      PROVE  TypeOK'
  <2>1. [status |-> "pending", hook |-> h, attempt |-> n] \in Row
    BY DEF Row
  <2>2. row' \in [Deliveries -> Row]
    BY <1>0, <1>2, <2>1 DEF InsertRow, TypeOK
  <2>3. producer' = [producer EXCEPT ![p] =
                       [producer[p] EXCEPT !.step = "add", !.delivery = d, !.todo = @ \ {h}]]
    BY <1>0, <1>2 DEF InsertRow, TypeOK
  <2>4. producer' \in [Producers -> Producer]
    BY <1>p, <2>3 DEF Producer
  <2> QED BY <1>0, <1>2, <2>2, <2>4 DEF InsertRow, TypeOK
<1>3. ASSUME NEW p \in Producers, NEW d \in Deliveries, NEW h \in Webhooks,
             CreateDelivery(p, d, h)
      PROVE  TypeOK'
  BY <1>2, <1>3 DEF CreateDelivery
<1>4. ASSUME NEW r \in Replays, NEW o \in Deliveries, NEW d \in Deliveries,
             ReplayDelivery(r, o, d)
      PROVE  TypeOK'
  <2>1. row[o].hook \in Webhooks
    BY <1>4 DEF ReplayDelivery, SafeInv, AddInv
  <2>2. row[o].attempt + 1 \in Nat /\ r \in Producers
    BY <1>0 DEF TypeOK, Row, Producers
  <2> QED BY <1>2, <1>4, <2>1, <2>2 DEF ReplayDelivery
<1>5. ASSUME NEW p \in Producers, AddJob(p) PROVE TypeOK'
  <2>1. NewJob \in Job
    BY DEF NewJob, Job
  <2>2. PICK s \in {"done", "create"} :
          producer' = [producer EXCEPT ![p].delivery = NoDelivery, ![p].step = s]
    BY <1>5 DEF AddJob
  <2>3. producer' = [producer EXCEPT ![p] =
                       [producer[p] EXCEPT !.delivery = NoDelivery, !.step = s]]
    BY <1>0, <2>2 DEF TypeOK
  <2>4. producer' \in [Producers -> Producer]
    BY <1>p, <2>3 DEF Producer
  <2> QED BY <1>0, <1>5, <2>1, <2>4 DEF AddJob, TypeOK
<1>6. ASSUME NEW p \in Producers, ProducerFails(p) PROVE TypeOK'
  <2>1. producer[p].step = "add" => producer[p].delivery \in Deliveries
    BY DEF SafeInv, AddInv
  <2> QED BY <1>0, <1>6, <2>1 DEF ProducerFails, TypeOK, Producer
<1>7. ASSUME NEW h \in Webhooks, SwitchWebhook(h) PROVE TypeOK'
  BY <1>0, <1>7 DEF SwitchWebhook, TypeOK
<1>8. ASSUME NEW h \in Webhooks, DeleteWebhook(h) PROVE TypeOK'
  BY <1>0, <1>8 DEF DeleteWebhook, TypeOK, Row
<1> QED BY <1>1, <1>3, <1>4, <1>5, <1>6, <1>7, <1>8 DEF ProducerStep, ReplayStep

\* The queue and the workers keep them.
LEMMA WorkTypes ==
    ASSUME SafeInv,
           \/ \E w \in Workers, d \in Deliveries : TakeJob(w, d)
           \/ \E d \in Deliveries : Retry(d) \/ Stall(d)
           \/ \E w \in Workers : ProcessStep(w) \/ WorkerDies(w)
    PROVE  TypeOK'
<1> USE DeliveryAssumption
<1>0. TypeOK /\ JobInv /\ WorkInv
  BY DEF SafeInv
<1>t. job \in [Deliveries -> Job] /\ worker \in [Workers -> Work]
  BY <1>0 DEF TypeOK
<1>i. IdleWork \in Work
  BY DEF IdleWork, Work
<1>1. ASSUME NEW w \in Workers, NEW d \in Deliveries, TakeJob(w, d) PROVE TypeOK'
  <2>1. job[d] \in Job
    BY <1>0 DEF TypeOK
  <2>2. [IdleWork EXCEPT !.step = "load", !.delivery = d, !.made = job[d].made] \in Work
    BY <2>1 DEF Job, Work, IdleWork
  <2>3. job' = [job EXCEPT ![d] = [job[d] EXCEPT !.state = "active", !.lock = w]]
    BY <1>0, <1>1 DEF TakeJob, TypeOK
  <2>4. job' \in [Deliveries -> Job]
    BY <1>t, <2>3 DEF Job
  <2> QED BY <1>0, <1>1, <2>2, <2>4 DEF TakeJob, TypeOK
<1>2. ASSUME NEW d \in Deliveries, Retry(d) PROVE TypeOK'
  <2>1. job' = [job EXCEPT ![d] = [job[d] EXCEPT !.state = "waiting"]]
    BY <1>t, <1>2 DEF Retry
  <2>2. [job[d] EXCEPT !.state = "waiting"] \in Job
    BY <1>t DEF Job
  <2>3. job' \in [Deliveries -> Job]
    BY <1>t, <2>1, <2>2
  <2> QED BY <1>0, <1>2, <2>3 DEF Retry, TypeOK
<1>3. ASSUME NEW d \in Deliveries, Stall(d) PROVE TypeOK'
  <2>1. job[d] \in Job /\ job[d].state = "active" /\ job[d].stalls <= MaxStalled
    BY <1>0, <1>3 DEF Stall, LockExpired, Abandoned, TypeOK, JobInv, JobRight
  <2>2. job[d].stalls + 1 \in 0 .. MaxStalled + 1
    BY <2>1 DEF Job
  <2>3. job' \in [Deliveries -> Job]
    BY <1>0, <1>3, <2>1, <2>2 DEF Stall, TypeOK, Job
  <2> QED BY <1>0, <1>3, <2>3 DEF Stall, TypeOK
<1>4. ASSUME NEW w \in Workers, Report(w) PROVE TypeOK'
  <2> DEFINE d == worker[w].delivery
  <2>1. d \in Deliveries
    BY <1>0, <1>4 DEF Report, WorkInv, WorkRight
  <2>2. worker' \in [Workers -> Work]
    BY <1>0, <1>i, <1>4 DEF Report, TypeOK
  <2>3. job' \in [Deliveries -> Job]
    <3>1. CASE job[d].lock # w
      BY <1>0, <1>4, <3>1 DEF Report, TypeOK
    <3>2. CASE job[d].lock = w
      <4>1. job[d] \in Job /\ job[d].made < MaxAttempts
        BY <1>0, <2>1, <3>2 DEF TypeOK, JobInv, JobRight
      <4>2. job[d].made + 1 \in 0 .. MaxAttempts
        BY <4>1 DEF Job
      <4> QED BY <1>0, <1>4, <2>1, <3>2, <4>1, <4>2 DEF Report, TypeOK, Job
    <3> QED BY <3>1, <3>2
  <2> QED BY <1>0, <1>4, <2>2, <2>3 DEF Report, TypeOK
<1>5. ASSUME NEW w \in Workers, LoadDelivery(w) PROVE TypeOK'
  BY <1>0, <1>5 DEF LoadDelivery, Ends, TypeOK, Work
<1>6. ASSUME NEW w \in Workers, PostDelivery(w) PROVE TypeOK'
  <2> DEFINE d == worker[w].delivery
  <2>1. d \in Deliveries
    BY <1>0, <1>6 DEF PostDelivery, WorkInv, WorkRight
  <2>2. posts' \in [Deliveries -> Nat] /\ received' \in [Deliveries -> BOOLEAN]
    BY <1>0, <1>6, <2>1 DEF PostDelivery, TypeOK
  <2>3. PICK a \in {"ok", "refused"} :
          worker' = [worker EXCEPT ![w].step = "write", ![w].answer = a]
    BY <1>6 DEF PostDelivery
  <2>4. worker' = [worker EXCEPT ![w] = [worker[w] EXCEPT !.step = "write", !.answer = a]]
    BY <1>0, <2>3 DEF TypeOK
  <2>5. worker' \in [Workers -> Work]
    <3>1. [worker[w] EXCEPT !.step = "write", !.answer = a] \in Work
      BY <1>t DEF Work
    <3> QED BY <1>t, <2>4, <3>1
  <2> QED BY <1>0, <1>6, <2>2, <2>5 DEF PostDelivery, TypeOK
<1>7. ASSUME NEW w \in Workers, WriteOutcome(w) \/ OutcomeUntold(w) PROVE TypeOK'
  <2> DEFINE d == worker[w].delivery
  <2>1. d \in Deliveries /\ worker[w] \in Work /\ worker[w].answer # "none"
    BY <1>0, <1>7 DEF WriteOutcome, OutcomeUntold, WorkInv, WorkRight, TypeOK
  <2>2. Outcome(w) \in {"delivered", "failed", "pending"}
    BY <2>1 DEF Outcome, Work
  <2>3. row' \in [Deliveries -> Row]
    <3>1. row \in [Deliveries -> Row] /\ row' = [row EXCEPT ![d].status = Outcome(w)]
      BY <1>0, <1>7 DEF WriteOutcome, OutcomeUntold, TypeOK
    <3>2. row' = [row EXCEPT ![d] = [row[d] EXCEPT !.status = Outcome(w)]]
      BY <2>1, <3>1
    <3>3. [row[d] EXCEPT !.status = Outcome(w)] \in Row
      BY <2>1, <2>2, <3>1 DEF Row
    <3> QED BY <3>1, <3>2, <3>3
  <2>4. PICK r \in {"throw", "return"} :
          worker' = [worker EXCEPT ![w].step = "report", ![w].result = r]
    BY <1>7 DEF WriteOutcome, OutcomeUntold, Ends
  <2>5. worker' = [worker EXCEPT ![w] = [worker[w] EXCEPT !.step = "report", !.result = r]]
    BY <1>0, <2>4 DEF TypeOK
  <2>6. worker' \in [Workers -> Work]
    <3>1. [worker[w] EXCEPT !.step = "report", !.result = r] \in Work
      BY <1>t DEF Work
    <3> QED BY <1>t, <2>5, <3>1
  <2>7. UNCHANGED <<hook, job, producer, posts, received>>
    BY <1>7 DEF WriteOutcome, OutcomeUntold
  <2>8. hit' \subseteq Deliveries /\ untold' \subseteq Deliveries
    BY <1>0, <1>7, <2>1 DEF WriteOutcome, OutcomeUntold, TypeOK
  <2> QED BY <1>0, <2>3, <2>6, <2>7, <2>8 DEF TypeOK
<1>8. ASSUME NEW w \in Workers, ProcessThrows(w) PROVE TypeOK'
  <2>1. worker[w].delivery \in Deliveries
    BY <1>0, <1>8 DEF ProcessThrows, WorkInv, WorkRight
  <2>2. worker' = [worker EXCEPT ![w].step = "report", ![w].result = "throw"]
    BY <1>8 DEF ProcessThrows, Ends
  <2>3. worker' = [worker EXCEPT ![w] = [worker[w] EXCEPT !.step = "report", !.result = "throw"]]
    BY <1>0, <2>2 DEF TypeOK
  <2>4. worker' \in [Workers -> Work]
    <3>1. [worker[w] EXCEPT !.step = "report", !.result = "throw"] \in Work
      BY <1>t DEF Work
    <3> QED BY <1>t, <2>3, <3>1
  <2> QED BY <1>0, <1>8, <2>1, <2>4 DEF ProcessThrows, TypeOK
<1>9. ASSUME NEW w \in Workers, WorkerDies(w) PROVE TypeOK'
  <2>1. worker[w].delivery \in Deliveries
    BY <1>0, <1>9 DEF WorkerDies, WorkInv, WorkRight
  <2> QED BY <1>0, <1>i, <1>9, <2>1 DEF WorkerDies, TypeOK
<1> QED BY <1>1, <1>2, <1>3, <1>4, <1>5, <1>6, <1>7, <1>8, <1>9 DEF ProcessStep

-----------------------------------------------------------------------------
\* What AddInv says is not disturbed by who adds nothing.
LEMMA NothingAdded ==
    ASSUME AddInv, UNCHANGED producer,
           \A d \in Deliveries :
              /\ job'[d].state = "none" <=> job[d].state = "none"
              /\ row'[d].hook = row[d].hook
              /\ row'[d].status = "none" => row[d].status = "none"
              /\ Exists(d)' => Exists(d)
    PROVE  AddInv'
<1>1. ASSUME NEW p \in Producers, producer[p].step = "add"
      PROVE  /\ producer'[p].delivery \in Deliveries
             /\ job'[producer'[p].delivery].state = "none"
             /\ row'[producer'[p].delivery].status # "none"
  BY <1>1 DEF AddInv
<1> QED BY <1>1 DEF AddInv

\* Requests keep it: a row is new when it is inserted, and its job is added by
\* who inserted it.
LEMMA RequestAdds ==
    ASSUME SafeInv,
           \/ \E p \in Producers : ProducerStep(p)
           \/ \E r \in Replays : ReplayStep(r)
           \/ \E h \in Webhooks : SwitchWebhook(h) \/ DeleteWebhook(h)
    PROVE  AddInv' /\ JobInv'
<1>0. /\ AddInv /\ JobInv
      /\ producer \in [Producers -> Producer]
      /\ job \in [Deliveries -> Job] /\ row \in [Deliveries -> Row]
  BY DEF SafeInv, TypeOK
<1>1. ASSUME NEW p \in Producers, UNCHANGED <<row, job>>,
             \A q \in Producers : /\ q # p => producer'[q] = producer[q]
                                  /\ q = p => producer'[q].step # "add"
      PROVE  AddInv' /\ JobInv'
  <2>1. AddInv'
    BY <1>0, <1>1 DEF AddInv, Exists
  <2> QED BY <1>0, <1>1, <2>1 DEF JobInv, JobRight
<1>2. ASSUME NEW p \in Submits, ListWebhooks(p) PROVE AddInv' /\ JobInv'
  <2>1. p \in Producers /\ row' = row /\ job' = job
    BY <1>2 DEF Producers, ListWebhooks
  <2>2. \A q \in Producers : /\ q # p => producer'[q] = producer[q]
                             /\ q = p => producer'[q].step # "add"
    BY <1>0, <1>2, <2>1 DEF ListWebhooks, Producer
  <2> QED BY <1>1, <2>1, <2>2
<1>3. ASSUME NEW p \in Producers, NEW d \in Deliveries, NEW h \in Webhooks, NEW n,
             InsertRow(p, d, h, n)
      PROVE  AddInv' /\ JobInv'
  <2>1. /\ row[d].status = "none" /\ job[d].state = "none" /\ job' = job
        /\ row'[d].status = "pending" /\ row'[d].hook = h
        /\ \A e \in Deliveries : e # d => row'[e] = row[e]
    BY <1>0, <1>3 DEF InsertRow, AddInv
  <2>2. /\ producer'[p].step = "add" /\ producer'[p].delivery = d
        /\ \A q \in Producers : q # p => producer'[q] = producer[q]
    BY <1>0, <1>3 DEF InsertRow, Producer
  <2>3. ASSUME NEW q \in Producers, q # p, producer[q].step = "add"
        PROVE  producer[q].delivery \in Deliveries /\ producer[q].delivery # d
    BY <1>0, <2>1, <2>3 DEF AddInv
  <2>4. AddInv'
    BY <1>0, <2>1, <2>2, <2>3 DEF AddInv, Exists
  <2> QED BY <1>0, <2>1, <2>4 DEF JobInv, JobRight
<1>4. ASSUME NEW p \in Producers, NEW d \in Deliveries, NEW h \in Webhooks,
             CreateDelivery(p, d, h)
      PROVE  AddInv' /\ JobInv'
  BY <1>3, <1>4 DEF CreateDelivery
<1>5. ASSUME NEW r \in Replays, NEW o \in Deliveries, NEW d \in Deliveries,
             ReplayDelivery(r, o, d)
      PROVE  AddInv' /\ JobInv'
  <2>1. row[o].hook \in Webhooks /\ r \in Producers
    BY <1>0, <1>5 DEF ReplayDelivery, AddInv, Producers
  <2> QED BY <1>3, <1>5, <2>1 DEF ReplayDelivery
<1>6. ASSUME NEW p \in Producers, AddJob(p) PROVE AddInv' /\ JobInv'
  <2> DEFINE d == producer[p].delivery
  <2>1. d \in Deliveries /\ row[d].status # "none" /\ producer[p].step = "add" /\ row' = row
    BY <1>0, <1>6 DEF AddJob, AddInv
  <2>2. /\ job'[d] = NewJob
        /\ \A e \in Deliveries : e # d => job'[e] = job[e]
    BY <1>0, <1>6, <2>1 DEF AddJob
  <2>3. \A q \in Producers : /\ q # p => producer'[q] = producer[q]
                             /\ q = p => producer'[q].step # "add"
    BY <1>0, <1>6 DEF AddJob, Producer
  <2>4. \A q \in Producers : q # p /\ producer[q].step = "add" => producer[q].delivery # d
    BY <1>0, <2>1 DEF AddInv
  <2>5. AddInv'
    BY <1>0, <2>1, <2>2, <2>3, <2>4 DEF AddInv, Exists
  <2>6. JobRight(NewJob)
    BY DeliveryAssumption DEF JobRight, NewJob
  <2>7. ASSUME NEW e \in Deliveries PROVE JobRight(job'[e])
    BY <1>0, <2>2, <2>6 DEF JobInv
  <2> QED BY <2>5, <2>7 DEF JobInv, JobRight
<1>7. ASSUME NEW p \in Producers, ProducerFails(p) PROVE AddInv' /\ JobInv'
  <2>1. /\ row' = row /\ job' = job
        /\ \A q \in Producers : /\ q # p => producer'[q] = producer[q]
                                /\ q = p => producer'[q].step # "add"
    BY <1>0, <1>7 DEF ProducerFails, Producer
  <2> QED BY <1>1, <2>1
<1>8. ASSUME NEW h \in Webhooks, SwitchWebhook(h) \/ DeleteWebhook(h) PROVE AddInv' /\ JobInv'
  <2>1. \A d \in Deliveries :
           /\ row'[d].hook = row[d].hook
           /\ row'[d].status = row[d].status \/ row'[d].status = "gone"
    BY <1>0, <1>8 DEF SwitchWebhook, DeleteWebhook, Row
  <2>2. job' = job /\ producer' = producer
    BY <1>8 DEF SwitchWebhook, DeleteWebhook
  <2>3. AddInv'
    BY <1>0, <2>1, <2>2, NothingAdded DEF Exists
  <2> QED BY <1>0, <2>2, <2>3 DEF JobInv, JobRight
<1> QED BY <1>2, <1>4, <1>5, <1>6, <1>7, <1>8 DEF ProducerStep, ReplayStep

\* The queue and the workers keep it: a job that is over has used up its
\* attempts or its stalls.
LEMMA WorkAdds ==
    ASSUME SafeInv,
           \/ \E w \in Workers, d \in Deliveries : TakeJob(w, d)
           \/ \E d \in Deliveries : Retry(d) \/ Stall(d)
           \/ \E w \in Workers : ProcessStep(w) \/ WorkerDies(w)
    PROVE  AddInv' /\ JobInv'
<1>0. /\ AddInv /\ JobInv /\ WorkInv
      /\ job \in [Deliveries -> Job] /\ row \in [Deliveries -> Row]
  BY DEF SafeInv, TypeOK
<1>a. MaxAttempts \in Nat /\ MaxStalled \in Nat /\ NoWorker \notin Workers
  BY DeliveryAssumption DEF DeliveryAssumption
<1>1. ASSUME NEW d \in Deliveries, UNCHANGED <<producer, row>>,
             job[d].state # "none", job'[d].state # "none", JobRight(job'[d]),
             \A e \in Deliveries : e # d => job'[e] = job[e]
      PROVE  AddInv' /\ JobInv'
  <2>1. AddInv'
    BY <1>0, <1>1, NothingAdded DEF Exists
  <2>2. ASSUME NEW e \in Deliveries PROVE JobRight(job'[e])
    BY <1>0, <1>1 DEF JobInv
  <2> QED BY <2>1, <2>2 DEF JobInv, JobRight
<1>2. ASSUME NEW w \in Workers, NEW d \in Deliveries, TakeJob(w, d) PROVE AddInv' /\ JobInv'
  <2>1. /\ job'[d] = [job[d] EXCEPT !.state = "active", !.lock = w]
        /\ job[d] \in Job /\ job[d].state = "waiting" /\ JobRight(job[d])
        /\ \A e \in Deliveries : e # d => job'[e] = job[e]
    BY <1>0, <1>2 DEF TakeJob, JobInv
  <2>2. JobRight(job'[d]) /\ job'[d].state # "none"
    BY <2>1 DEF JobRight, Job
  <2> QED BY <1>1, <1>2, <2>1, <2>2 DEF TakeJob
<1>3. ASSUME NEW d \in Deliveries, Retry(d) PROVE AddInv' /\ JobInv'
  <2>1. /\ job'[d] = [job[d] EXCEPT !.state = "waiting"]
        /\ job[d] \in Job /\ job[d].state = "delayed" /\ JobRight(job[d])
        /\ \A e \in Deliveries : e # d => job'[e] = job[e]
    BY <1>0, <1>3 DEF Retry, JobInv
  <2>2. JobRight(job'[d]) /\ job'[d].state # "none"
    BY <2>1 DEF JobRight, Job
  <2> QED BY <1>1, <1>3, <2>1, <2>2 DEF Retry
<1>4. ASSUME NEW d \in Deliveries, Stall(d) PROVE AddInv' /\ JobInv'
  <2>1. job[d] \in Job /\ job[d].state = "active" /\ JobRight(job[d])
    BY <1>0, <1>4 DEF Stall, LockExpired, Abandoned, JobInv
  <2>2. /\ job'[d].stalls = job[d].stalls + 1 /\ job'[d].lock = NoWorker
        /\ job'[d].made = job[d].made
        /\ job'[d].state = IF job[d].stalls = MaxStalled THEN "failed" ELSE "waiting"
        /\ \A e \in Deliveries : e # d => job'[e] = job[e]
    BY <1>0, <1>4, <2>1 DEF Stall, Job
  <2>3. JobRight(job'[d]) /\ job'[d].state # "none"
    BY <1>a, <2>1, <2>2 DEF JobRight, Job
  <2> QED BY <1>1, <1>4, <2>1, <2>2, <2>3 DEF Stall
<1>5. ASSUME NEW w \in Workers, Report(w) PROVE AddInv' /\ JobInv'
  <2> DEFINE d == worker[w].delivery
  <2>0. d \in Deliveries
    BY <1>0, <1>5 DEF Report, WorkInv, WorkRight
  <2>1. CASE job[d].lock # w
    <3>1. UNCHANGED <<producer, row, job>>
      BY <1>5, <2>1 DEF Report
    <3> QED BY <1>0, <3>1 DEF AddInv, Exists, JobInv, JobRight
  <2>2. CASE job[d].lock = w
    <3>1. job[d] \in Job /\ job[d].state = "active" /\ JobRight(job[d])
      BY <1>0, <2>0, <2>2 DEF JobInv, JobRight
    <3>2. /\ job'[d].stalls = job[d].stalls /\ job'[d].lock = NoWorker
          /\ job'[d].made = job[d].made + 1
          /\ job'[d].state = IF worker[w].result = "return" THEN "completed"
                               ELSE IF job[d].made + 1 >= MaxAttempts THEN "failed"
                               ELSE "delayed"
          /\ \A e \in Deliveries : e # d => job'[e] = job[e]
      BY <1>0, <1>5, <2>0, <2>2, <3>1 DEF Report, Job
    <3>3. JobRight(job'[d]) /\ job'[d].state # "none"
      BY <1>a, <3>1, <3>2 DEF JobRight, Job
    <3> QED BY <1>1, <1>5, <2>0, <3>1, <3>2, <3>3 DEF Report
  <2> QED BY <2>1, <2>2
<1>6. ASSUME NEW w \in Workers, WriteOutcome(w) \/ OutcomeUntold(w) PROVE AddInv' /\ JobInv'
  <2> DEFINE d == worker[w].delivery
  <2>1. d \in Deliveries /\ Exists(d) /\ job' = job /\ producer' = producer
    BY <1>0, <1>6 DEF WriteOutcome, OutcomeUntold, WorkInv, WorkRight
  <2>2. \A e \in Deliveries : row'[e].hook = row[e].hook /\ (e # d => row'[e] = row[e])
    BY <1>0, <1>6 DEF WriteOutcome, OutcomeUntold, Row
  <2>3. row'[d].status # "none"
    <3>1. row'[d].status = Outcome(w)
      BY <1>0, <1>6, <2>1 DEF WriteOutcome, OutcomeUntold, Row
    <3>2. worker[w] \in Work /\ worker[w].answer # "none"
      BY <1>0, <1>6 DEF WriteOutcome, OutcomeUntold, WorkInv, WorkRight, SafeInv, TypeOK
    <3> QED BY <3>1, <3>2 DEF Outcome, Work
  <2>4. AddInv'
    BY <1>0, <2>1, <2>2, <2>3, NothingAdded DEF Exists
  <2> QED BY <1>0, <2>1, <2>4 DEF JobInv, JobRight
<1>7. ASSUME UNCHANGED <<producer, row, job>> PROVE AddInv' /\ JobInv'
  BY <1>0, <1>7 DEF AddInv, Exists, JobInv, JobRight
<1>8. ASSUME NEW w \in Workers,
             LoadDelivery(w) \/ PostDelivery(w) \/ ProcessThrows(w) \/ WorkerDies(w)
      PROVE  AddInv' /\ JobInv'
  BY <1>7, <1>8 DEF LoadDelivery, PostDelivery, ProcessThrows, WorkerDies
<1> QED BY <1>2, <1>3, <1>4, <1>5, <1>6, <1>8 DEF ProcessStep

\* Requests write no row delivered.
LEMMA RequestWork ==
    ASSUME SafeInv,
           \/ \E p \in Producers : ProducerStep(p)
           \/ \E r \in Replays : ReplayStep(r)
           \/ \E h \in Webhooks : SwitchWebhook(h) \/ DeleteWebhook(h)
    PROVE  WorkInv' /\ DeliveredWasReceived'
<1>0. WorkInv /\ DeliveredWasReceived /\ row \in [Deliveries -> Row]
  BY DEF SafeInv, TypeOK
<1>1. UNCHANGED <<worker, received>>
  BY DEF ProducerStep, ReplayStep, ListWebhooks, CreateDelivery, ReplayDelivery, InsertRow,
     AddJob, ProducerFails, SwitchWebhook, DeleteWebhook
<1>2. WorkInv'
  BY <1>0, <1>1 DEF WorkInv, WorkRight
<1>3. ASSUME \/ row' = row
             \/ \E p \in Producers, d \in Deliveries, h \in Webhooks \cup {NoWebhook}, n \in Nat :
                   InsertRow(p, d, h, n)
             \/ \E h \in Webhooks : DeleteWebhook(h)
      PROVE  DeliveredWasReceived'
  <2>1. \A d \in Deliveries : row'[d].status = "delivered" => row[d].status = "delivered"
    <3>1. ASSUME NEW p \in Producers, NEW d \in Deliveries, NEW h, NEW n, InsertRow(p, d, h, n)
          PROVE  <2>1
      BY <1>0, <3>1 DEF InsertRow
    <3>2. ASSUME NEW h \in Webhooks, DeleteWebhook(h) PROVE <2>1
      BY <1>0, <3>2 DEF DeleteWebhook, Row
    <3> QED BY <1>3, <3>1, <3>2
  <2> QED BY <1>0, <1>1, <2>1 DEF DeliveredWasReceived
<1>4. ASSUME NEW r \in Replays, NEW o \in Deliveries, NEW d \in Deliveries,
             ReplayDelivery(r, o, d)
      PROVE  DeliveredWasReceived'
  <2>1. row[o].hook \in Webhooks \cup {NoWebhook} /\ row[o].attempt + 1 \in Nat /\ r \in Producers
    BY <1>0 DEF Row, Producers
  <2> QED BY <1>3, <1>4, <2>1 DEF ReplayDelivery
<1>5. ASSUME NEW p \in Producers, ProducerStep(p) PROVE DeliveredWasReceived'
  BY <1>3, <1>5 DEF ProducerStep, ListWebhooks, CreateDelivery, AddJob, ProducerFails
<1>6. DeliveredWasReceived'
  BY <1>3, <1>4, <1>5 DEF ReplayStep, SwitchWebhook
<1> QED BY <1>2, <1>6

\* One worker moves, and what it knows is right.
LEMMA OneWorker ==
    ASSUME WorkInv, NEW w \in Workers,
           \A v \in Workers : v # w => worker'[v] = worker[v],
           \A d \in Deliveries : received[d] => received'[d],
           WorkRight(w)'
    PROVE  WorkInv'
<1>1. ASSUME NEW v \in Workers, v # w PROVE WorkRight(v)'
  <2>1. WorkRight(v) /\ worker'[v] = worker[v]
    BY <1>1 DEF WorkInv
  <2>2. worker[v].answer = "ok" => worker[v].delivery \in Deliveries
    BY <2>1 DEF WorkRight, IdleWork
  <2> QED BY <2>1, <2>2 DEF WorkRight
<1> QED BY <1>1 DEF WorkInv

\* Workers keep what they know, and write delivered after an answer only.
LEMMA WorkWork ==
    ASSUME SafeInv,
           \/ \E w \in Workers, d \in Deliveries : TakeJob(w, d)
           \/ \E d \in Deliveries : Retry(d) \/ Stall(d)
           \/ \E w \in Workers : ProcessStep(w) \/ WorkerDies(w)
    PROVE  WorkInv' /\ DeliveredWasReceived'
<1>0. /\ WorkInv /\ DeliveredWasReceived /\ row \in [Deliveries -> Row]
      /\ worker \in [Workers -> Work] /\ received \in [Deliveries -> BOOLEAN]
  BY DEF SafeInv, TypeOK
<1>1. ASSUME NEW w \in Workers, NEW d \in Deliveries, TakeJob(w, d)
      PROVE  WorkInv' /\ DeliveredWasReceived'
  <2>1. /\ worker'[w] = [IdleWork EXCEPT !.step = "load", !.delivery = d, !.made = job[d].made]
        /\ \A v \in Workers : v # w => worker'[v] = worker[v]
        /\ UNCHANGED <<row, received>>
    BY <1>0, <1>1 DEF TakeJob
  <2>2. WorkRight(w)'
    BY <2>1 DEF WorkRight, IdleWork
  <2> QED BY <1>0, <2>1, <2>2, OneWorker DEF DeliveredWasReceived
<1>2. ASSUME NEW d \in Deliveries, Retry(d) \/ Stall(d) PROVE WorkInv' /\ DeliveredWasReceived'
  BY <1>0, <1>2 DEF Retry, Stall, WorkInv, WorkRight, DeliveredWasReceived
<1>3. ASSUME NEW w \in Workers, Report(w) \/ WorkerDies(w) PROVE WorkInv' /\ DeliveredWasReceived'
  <2>1. /\ worker'[w] = IdleWork
        /\ \A v \in Workers : v # w => worker'[v] = worker[v]
        /\ UNCHANGED <<row, received>>
    BY <1>0, <1>3 DEF Report, WorkerDies
  <2>2. WorkRight(w)'
    BY <2>1 DEF WorkRight, IdleWork
  <2> QED BY <1>0, <2>1, <2>2, OneWorker DEF DeliveredWasReceived
<1>4. ASSUME NEW w \in Workers, LoadDelivery(w) \/ ProcessThrows(w)
      PROVE  WorkInv' /\ DeliveredWasReceived'
  <2>1. /\ worker'[w].delivery = worker[w].delivery /\ worker[w].delivery \in Deliveries
        /\ \/ worker'[w].step = "report" /\ worker'[w].result \in {"return", "throw"}
              /\ worker'[w].answer = worker[w].answer
           \/ worker'[w].step = "write" /\ worker'[w].answer = "unsealed"
           \/ worker'[w].step = "post" /\ worker'[w].answer = worker[w].answer
        /\ \A v \in Workers : v # w => worker'[v] = worker[v]
        /\ UNCHANGED <<row, received>>
    BY <1>0, <1>4 DEF LoadDelivery, ProcessThrows, Ends, WorkInv, WorkRight, Work
  <2>2. WorkRight(w)'
    BY <1>0, <2>1 DEF WorkInv, WorkRight
  <2> QED BY <1>0, <2>1, <2>2, OneWorker DEF DeliveredWasReceived
<1>5. ASSUME NEW w \in Workers, PostDelivery(w) PROVE WorkInv' /\ DeliveredWasReceived'
  <2> DEFINE d == worker[w].delivery
  <2>1. d \in Deliveries
    BY <1>0, <1>5 DEF PostDelivery, WorkInv, WorkRight
  <2>2. PICK taken \in BOOLEAN, answer \in {"ok", "refused"} :
           /\ answer = "ok" => taken
           /\ received' = [received EXCEPT ![d] = @ \/ taken]
           /\ worker' = [worker EXCEPT ![w].step = "write", ![w].answer = answer]
    BY <1>5 DEF PostDelivery
  <2>3. /\ worker'[w].step = "write" /\ worker'[w].answer = answer /\ worker'[w].delivery = d
        /\ \A v \in Workers : v # w => worker'[v] = worker[v]
    BY <1>0, <2>2 DEF Work
  <2>4. received'[d] = (received[d] \/ taken)
    BY <1>0, <2>1, <2>2
  <2>5. \A e \in Deliveries : received[e] => received'[e]
    <3>1. \A e \in Deliveries : e # d => received'[e] = received[e]
      BY <1>0, <2>2
    <3> QED BY <2>4, <3>1
  <2>6. WorkRight(w)'
    BY <2>1, <2>2, <2>3, <2>4 DEF WorkRight
  <2>7. row' = row
    BY <1>5 DEF PostDelivery
  <2> QED BY <1>0, <2>3, <2>5, <2>6, <2>7, OneWorker DEF DeliveredWasReceived
<1>6. ASSUME NEW w \in Workers, WriteOutcome(w) \/ OutcomeUntold(w) PROVE WorkInv' /\ DeliveredWasReceived'
  <2> DEFINE d == worker[w].delivery
  <2>1. /\ d \in Deliveries /\ WorkRight(w) /\ worker[w] \in Work
        /\ worker[w].answer # "none" /\ received' = received
    BY <1>0, <1>6 DEF WriteOutcome, OutcomeUntold, WorkInv, WorkRight
  <2>2. PICK r \in {"throw", "return"} :
          worker' = [worker EXCEPT ![w].step = "report", ![w].result = r]
    BY <1>6 DEF WriteOutcome, OutcomeUntold, Ends
  <2>3. /\ worker'[w].step = "report" /\ worker'[w].result = r
        /\ worker'[w].answer = worker[w].answer /\ worker'[w].delivery = d
        /\ \A v \in Workers : v # w => worker'[v] = worker[v]
    BY <1>0, <2>2 DEF Work
  <2>4. WorkRight(w)'
    BY <2>1, <2>3 DEF WorkRight
  <2>5. Outcome(w) = "delivered" => worker[w].answer = "ok"
    BY <2>1 DEF Outcome, Work
  <2>6. /\ row'[d].status = Outcome(w)
        /\ \A e \in Deliveries : e # d => row'[e] = row[e]
    BY <1>0, <1>6, <2>1 DEF WriteOutcome, OutcomeUntold, Row
  <2>7. DeliveredWasReceived'
    BY <1>0, <2>1, <2>5, <2>6 DEF DeliveredWasReceived, WorkRight
  <2> QED BY <1>0, <2>1, <2>3, <2>4, <2>7, OneWorker
<1> QED BY <1>1, <1>2, <1>3, <1>4, <1>5, <1>6 DEF ProcessStep

\* Every step keeps the invariant.
LEMMA NextSafe == SafeInv /\ [Next]_vars => SafeInv'
<1>1. ASSUME SafeInv, Next PROVE SafeInv'
  <2>1. CASE \/ \E p \in Producers : ProducerStep(p)
             \/ \E r \in Replays : ReplayStep(r)
             \/ \E h \in Webhooks : SwitchWebhook(h) \/ DeleteWebhook(h)
    BY <1>1, <2>1, RequestTypes, RequestAdds, RequestWork DEF SafeInv
  <2>2. CASE \/ \E w \in Workers, d \in Deliveries : TakeJob(w, d)
             \/ \E d \in Deliveries : Retry(d) \/ Stall(d)
             \/ \E w \in Workers : ProcessStep(w) \/ WorkerDies(w)
    BY <1>1, <2>2, WorkTypes, WorkAdds, WorkWork DEF SafeInv
  <2> QED BY <1>1, <2>1, <2>2 DEF Next
<1>2. ASSUME SafeInv, UNCHANGED vars PROVE SafeInv'
  BY <1>2 DEF vars, SafeInv, TypeOK, AddInv, Exists, JobInv, JobRight, WorkInv, WorkRight,
     DeliveredWasReceived
<1> QED BY <1>1, <1>2

-----------------------------------------------------------------------------
\* How often a delivery is posted

\* Who has taken d and may yet POST it.
Unposted(d) == {w \in Workers : worker[w].delivery = d /\ worker[w].step \in {"load", "post"}}

\* How often j was taken.
Takes(j) == j.made + j.stalls + (IF j.state = "active" THEN 1 ELSE 0)

CountRight(d) == posts[d] + Cardinality(Unposted(d)) <= Takes(job[d])

Counted == \A d \in Deliveries : CountRight(d)

\* Of each delivery they are finitely many.
LEMMA UnpostedIsFinite ==
    ASSUME NEW d \in Deliveries
    PROVE  IsFiniteSet(Unposted(d)) /\ Cardinality(Unposted(d)) \in Nat
<1>1. Unposted(d) \subseteq Workers
  BY DEF Unposted
<1>2. IsFiniteSet(Workers)
  BY DeliveryAssumption DEF DeliveryAssumption
<1> QED BY <1>1, <1>2, FS_Subset, FS_CardinalityType

\* A step that takes no job and posts nothing.
LEMMA NoPost ==
    ASSUME SafeInv, NEW d \in Deliveries, CountRight(d), posts'[d] = posts[d],
           Unposted(d)' \subseteq Unposted(d), Takes(job'[d]) = Takes(job[d])
    PROVE  CountRight(d)'
<1> DEFINE n == Cardinality(Unposted(d))
<1> DEFINE m == Cardinality(Unposted(d)')
<1>1. m \in Nat /\ n \in Nat /\ m <= n
  BY UnpostedIsFinite, FS_Subset, FS_CardinalityType
<1>2. posts[d] \in Nat /\ Takes(job[d]) \in Nat
  BY DEF SafeInv, TypeOK, Job, Takes
<1>3. posts[d] + n <= Takes(job[d])
  BY DEF CountRight
<1> HIDE DEF n, m
<1>4. posts'[d] + m <= Takes(job'[d])
  BY <1>1, <1>2, <1>3
<1> QED BY <1>4 DEF CountRight, m

\* Nothing is posted and nobody has taken a job.
LEMMA InitCounted == Init => Counted
<1> SUFFICES ASSUME Init, NEW d \in Deliveries PROVE CountRight(d)
  BY DEF Counted
<1>1. Unposted(d) = {}
  BY DEF Init, Unposted, IdleWork
<1>2. Cardinality(Unposted(d)) = 0
  BY <1>1, FS_EmptySet
<1>3. posts[d] = 0 /\ Takes(job[d]) = 0
  BY DEF Init, NewJob, Takes
<1> QED BY <1>2, <1>3 DEF CountRight

\* Requests post nothing; a job is added untaken.
LEMMA RequestCounts ==
    ASSUME SafeInv, Counted,
           \/ \E p \in Producers : ProducerStep(p)
           \/ \E r \in Replays : ReplayStep(r)
           \/ \E h \in Webhooks : SwitchWebhook(h) \/ DeleteWebhook(h)
    PROVE  Counted'
<1>1. UNCHANGED <<worker, posts>>
  BY DEF ProducerStep, ReplayStep, ListWebhooks, CreateDelivery, ReplayDelivery, InsertRow,
     AddJob, ProducerFails, SwitchWebhook, DeleteWebhook
<1>2. job' = job \/ \E p \in Producers : AddJob(p)
  BY DEF ProducerStep, ReplayStep, ListWebhooks, CreateDelivery, ReplayDelivery, InsertRow,
     ProducerFails, SwitchWebhook, DeleteWebhook
<1>3. ASSUME NEW d \in Deliveries PROVE Takes(job'[d]) = Takes(job[d])
  <2>1. ASSUME NEW p \in Producers, AddJob(p), producer[p].delivery = d
        PROVE  Takes(job'[d]) = Takes(job[d])
    <3>1. job[d].state = "none" /\ job[d].made = 0 /\ job[d].stalls = 0
      BY <2>1 DEF AddJob, SafeInv, AddInv, JobInv, JobRight
    <3>2. job'[d] = NewJob
      BY <2>1 DEF AddJob, SafeInv, TypeOK
    <3> QED BY <3>1, <3>2 DEF Takes, NewJob
  <2>2. ASSUME NEW p \in Producers, AddJob(p), producer[p].delivery # d
        PROVE  job'[d] = job[d]
    BY <2>2 DEF AddJob, SafeInv, TypeOK
  <2> QED BY <1>2, <2>1, <2>2
<1>4. ASSUME NEW d \in Deliveries PROVE CountRight(d)'
  <2>1. Unposted(d)' \subseteq Unposted(d)
    BY <1>1 DEF Unposted
  <2>2. CountRight(d)
    BY DEF Counted
  <2> QED BY <1>1, <1>3, <2>1, <2>2, NoPost
<1> QED BY <1>4 DEF Counted

\* Who takes a job may post it once.
LEMMA WorkCounts ==
    ASSUME SafeInv, Counted,
           \/ \E w \in Workers, d \in Deliveries : TakeJob(w, d)
           \/ \E d \in Deliveries : Retry(d) \/ Stall(d)
           \/ \E w \in Workers : ProcessStep(w) \/ WorkerDies(w)
    PROVE  Counted'
<1>0. /\ job \in [Deliveries -> Job] /\ worker \in [Workers -> Work]
      /\ posts \in [Deliveries -> Nat] /\ JobInv /\ WorkInv
  BY DEF SafeInv, TypeOK
<1>1. ASSUME posts' = posts,
             \A d \in Deliveries : Unposted(d)' \subseteq Unposted(d),
             \A d \in Deliveries : Takes(job'[d]) = Takes(job[d])
      PROVE  Counted'
  BY <1>1, NoPost DEF Counted
<1>2. ASSUME NEW w \in Workers, NEW d \in Deliveries, TakeJob(w, d) PROVE Counted'
  <2>1. /\ worker'[w].step = "load" /\ worker'[w].delivery = d /\ worker[w].step = "idle"
        /\ \A v \in Workers : v # w => worker'[v] = worker[v]
        /\ job'[d] = [job[d] EXCEPT !.state = "active", !.lock = w] /\ job[d].state = "waiting"
        /\ \A e \in Deliveries : e # d => job'[e] = job[e]
        /\ posts' = posts
    BY <1>0, <1>2 DEF TakeJob, IdleWork
  <2>2. ASSUME NEW e \in Deliveries, e # d PROVE CountRight(e)'
    <3>1. Unposted(e)' \subseteq Unposted(e)
      BY <2>1, <2>2 DEF Unposted
    <3> QED BY <2>1, <2>2, <3>1, NoPost DEF Counted
  <2>3. CountRight(d)'
    <3> DEFINE n == Cardinality(Unposted(d))
    <3> DEFINE m == Cardinality(Unposted(d)')
    <3>1. Unposted(d)' = Unposted(d) \cup {w} /\ w \notin Unposted(d)
      BY <2>1 DEF Unposted
    <3>2. m = n + 1 /\ n \in Nat
      BY <3>1, UnpostedIsFinite, FS_AddElement
    <3>3. Takes(job'[d]) = Takes(job[d]) + 1 /\ Takes(job[d]) \in Nat
      BY <1>0, <2>1 DEF Takes, Job
    <3>4. posts[d] + n <= Takes(job[d]) /\ posts[d] \in Nat
      BY <1>0 DEF Counted, CountRight
    <3> HIDE DEF n, m
    <3>5. posts'[d] + m <= Takes(job'[d])
      BY <2>1, <3>2, <3>3, <3>4
    <3> QED BY <3>5 DEF CountRight, m
  <2> QED BY <2>2, <2>3 DEF Counted
<1>3. ASSUME NEW d \in Deliveries, Retry(d) \/ Stall(d) PROVE Counted'
  <2>1. posts' = posts /\ worker' = worker
    BY <1>3 DEF Retry, Stall
  <2>2. ASSUME NEW e \in Deliveries PROVE Takes(job'[e]) = Takes(job[e])
    <3>1. job[e] \in Job /\ job'[e] \in Job
      BY WorkTypes, <1>0, <1>3 DEF TypeOK
    <3>2. e # d => job'[e] = job[e]
      BY <1>0, <1>3 DEF Retry, Stall
    <3>3. CASE e = d /\ Retry(d)
      BY <1>0, <3>1, <3>3 DEF Retry, Takes, Job
    <3>4. CASE e = d /\ Stall(d)
      <4>1. job[d].state = "active" /\ job'[d].stalls = job[d].stalls + 1
            /\ job'[d].made = job[d].made /\ job'[d].state # "active"
        BY <1>0, <3>1, <3>4 DEF Stall, LockExpired, Abandoned, Job
      <4> QED BY <3>1, <3>4, <4>1 DEF Takes, Job
    <3> QED BY <1>3, <3>2, <3>3, <3>4
  <2>3. \A e \in Deliveries : Unposted(e)' \subseteq Unposted(e)
    BY <2>1 DEF Unposted
  <2> QED BY <1>1, <2>1, <2>2, <2>3
<1>4. ASSUME NEW w \in Workers, Report(w) PROVE Counted'
  <2> DEFINE d == worker[w].delivery
  <2>1. /\ d \in Deliveries /\ posts' = posts
        /\ worker'[w].step = "idle"
        /\ \A v \in Workers : v # w => worker'[v] = worker[v]
    BY <1>0, <1>4 DEF Report, WorkInv, WorkRight, IdleWork
  <2>2. \A e \in Deliveries : Unposted(e)' \subseteq Unposted(e)
    BY <2>1 DEF Unposted
  <2>3. ASSUME NEW e \in Deliveries PROVE Takes(job'[e]) = Takes(job[e])
    <3>1. CASE job[d].lock # w
      BY <1>4, <3>1 DEF Report
    <3>2. CASE job[d].lock = w
      <4>1. job[d] \in Job /\ job[d].state = "active"
        BY <1>0, <2>1, <3>2 DEF JobInv, JobRight
      <4>2. /\ job'[d].stalls = job[d].stalls /\ job'[d].made = job[d].made + 1
            /\ job'[d].state # "active"
            /\ e # d => job'[e] = job[e]
        BY <1>0, <1>4, <2>1, <3>2, <4>1 DEF Report, Job
      <4>3. Takes(job'[d]) = Takes(job[d])
        BY <4>1, <4>2 DEF Takes, Job
      <4> QED BY <4>2, <4>3
    <3> QED BY <3>1, <3>2
  <2> QED BY <1>1, <2>1, <2>2, <2>3
<1>5. ASSUME NEW w \in Workers,
             LoadDelivery(w) \/ WriteOutcome(w) \/ OutcomeUntold(w)
             \/ ProcessThrows(w) \/ WorkerDies(w)
      PROVE  Counted'
  <2>1. /\ worker'[w].step \in {"load", "post"} =>
              worker[w].step = "load" /\ worker'[w].delivery = worker[w].delivery
        /\ \A v \in Workers : v # w => worker'[v] = worker[v]
        /\ posts' = posts /\ job' = job
    BY <1>0, <1>5 DEF LoadDelivery, WriteOutcome, OutcomeUntold, ProcessThrows, WorkerDies, Ends, IdleWork, Work
  <2>2. \A e \in Deliveries : Unposted(e)' \subseteq Unposted(e)
    BY <2>1 DEF Unposted
  <2> QED BY <1>1, <2>1, <2>2
<1>6. ASSUME NEW w \in Workers, PostDelivery(w) PROVE Counted'
  <2>0. PICK d \in Deliveries : d = worker[w].delivery
    BY <1>0, <1>6 DEF PostDelivery, WorkInv, WorkRight
  <2>1. /\ worker[w].step = "post" /\ job' = job
        /\ posts' = [posts EXCEPT ![d] = @ + 1]
        /\ worker'[w].step = "write"
        /\ \A v \in Workers : v # w => worker'[v] = worker[v]
    BY <1>0, <1>6, <2>0 DEF PostDelivery, Work
  <2>2. ASSUME NEW e \in Deliveries, e # d PROVE CountRight(e)'
    <3>1. Unposted(e)' \subseteq Unposted(e) /\ posts'[e] = posts[e]
      BY <1>0, <2>1, <2>2 DEF Unposted
    <3> QED BY <2>1, <2>2, <3>1, NoPost DEF Counted
  <2>3. CountRight(d)'
    <3> DEFINE n == Cardinality(Unposted(d))
    <3> DEFINE m == Cardinality(Unposted(d)')
    <3>1. Unposted(d)' = Unposted(d) \ {w} /\ w \in Unposted(d)
      BY <2>0, <2>1 DEF Unposted
    <3>2. m = n - 1 /\ n \in Nat
      BY <2>1, <3>1, UnpostedIsFinite, FS_RemoveElement
    <3>3. posts[d] + n <= Takes(job[d]) /\ posts[d] \in Nat /\ Takes(job[d]) \in Nat
      BY <1>0, <2>1 DEF Counted, CountRight, Takes, Job
    <3>4. posts'[d] = posts[d] + 1
      BY <1>0, <2>1
    <3> HIDE DEF n, m
    <3>5. posts'[d] + m <= Takes(job'[d])
      BY <2>1, <3>2, <3>3, <3>4
    <3> QED BY <3>5 DEF CountRight, m
  <2> QED BY <2>2, <2>3 DEF Counted
<1> QED BY <1>2, <1>3, <1>4, <1>5, <1>6 DEF ProcessStep

\* Every step keeps the count.
LEMMA NextCounted == SafeInv /\ Counted /\ [Next]_vars => Counted'
<1>1. ASSUME SafeInv, Counted, Next PROVE Counted'
  BY <1>1, RequestCounts, WorkCounts DEF Next
<1>2. ASSUME SafeInv, Counted, UNCHANGED vars PROVE Counted'
  <2>1. \A d \in Deliveries : Unposted(d)' \subseteq Unposted(d)
    BY <1>2 DEF vars, Unposted
  <2> QED BY <1>2, <2>1, NoPost DEF vars, Counted
<1> QED BY <1>1, <1>2

-----------------------------------------------------------------------------
\* Rows and jobs, when no lock expires under a worker that lives

HeldRight(w) ==
    worker[w].step # "idle" =>
        LET j == job[worker[w].delivery]
        IN  j.state = "active" /\ j.lock = w /\ j.made = worker[w].made

ResultRight(w) ==
    LET status == row[worker[w].delivery].status
    IN  worker[w].step = "report" =>
          /\ worker[w].result = "return" => status \in {"delivered", "failed", "gone"}
          /\ /\ worker[w].result = "throw"
             /\ worker[w].made >= MaxAttempts - 1
             /\ worker[w].delivery \notin hit
             => status \in {"failed", "gone"}

EndedRight(d) ==
    /\ job[d].state = "completed" => row[d].status \in {"delivered", "failed", "gone"}
    /\ job[d].state = "failed" /\ d \notin hit => row[d].status \in {"failed", "gone"}

HeldInv == /\ \A w \in Workers : HeldRight(w) /\ ResultRight(w)
           /\ \A d \in Deliveries : EndedRight(d)

\* No worker has a job, and no job is there.
LEMMA InitHeld == Init => HeldInv
BY DEF Init, HeldInv, HeldRight, ResultRight, EndedRight, IdleWork, NewJob

\* Two workers do not work on one delivery.
LEMMA Alone ==
    ASSUME HeldInv, NEW v \in Workers, NEW w \in Workers,
           worker[v].step # "idle", worker[w].step # "idle",
           worker[v].delivery = worker[w].delivery
    PROVE  v = w
BY DEF HeldInv, HeldRight

\* What requests do to jobs and rows: they add jobs to rows that have none and
\* rows that have no job, and otherwise rows change to gone only.
JobOfRequest(d) ==
    \/ job'[d] = job[d]
    \/ /\ job[d].state = "none" /\ job[d].stalls = 0 /\ row[d].status # "none"
       /\ job'[d].state = "waiting" /\ job'[d].stalls = 0 /\ row'[d] = row[d]

RowOfRequest(d) ==
    \/ row'[d] = row[d]
    \/ row'[d].status = "gone"
    \/ job[d].state = "none" /\ job'[d] = job[d] /\ row'[d].status = "pending"

LEMMA RequestEffect ==
    ASSUME SafeInv,
           \/ \E p \in Producers : ProducerStep(p)
           \/ \E r \in Replays : ReplayStep(r)
           \/ \E h \in Webhooks : SwitchWebhook(h) \/ DeleteWebhook(h)
    PROVE  /\ worker' = worker /\ hit \subseteq hit'
           /\ \A d \in Deliveries : JobOfRequest(d) /\ RowOfRequest(d)
<1>0. /\ AddInv /\ JobInv /\ job \in [Deliveries -> Job] /\ row \in [Deliveries -> Row]
  BY DEF SafeInv, TypeOK
<1>1. worker' = worker
  BY DEF ProducerStep, ReplayStep, ListWebhooks, CreateDelivery, ReplayDelivery, InsertRow,
     AddJob, ProducerFails, SwitchWebhook, DeleteWebhook
<1>2. hit \subseteq hit'
  BY DEF ProducerStep, ReplayStep, ListWebhooks, CreateDelivery, ReplayDelivery, InsertRow,
     AddJob, ProducerFails, SwitchWebhook, DeleteWebhook
<1>3. ASSUME NEW d \in Deliveries PROVE JobOfRequest(d) /\ RowOfRequest(d)
  <2>1. ASSUME NEW p \in Producers, AddJob(p) PROVE JobOfRequest(d) /\ RowOfRequest(d)
    <3>1. /\ row' = row /\ producer[p].delivery \in Deliveries
          /\ job[producer[p].delivery].state = "none"
          /\ row[producer[p].delivery].status # "none"
          /\ job' = [job EXCEPT ![producer[p].delivery] = NewJob]
      BY <1>0, <2>1 DEF AddJob, AddInv
    <3>2. job[producer[p].delivery].stalls = 0
      BY <1>0, <3>1 DEF JobInv, JobRight
    <3> QED BY <1>0, <3>1, <3>2 DEF NewJob, JobOfRequest, RowOfRequest
  <2>2. ASSUME NEW p, NEW e \in Deliveries, NEW h, NEW n, InsertRow(p, e, h, n)
        PROVE  JobOfRequest(d) /\ RowOfRequest(d)
    <3>1. /\ job[e].state = "none" /\ job' = job
          /\ row'[e].status = "pending" /\ (d # e => row'[d] = row[d])
      BY <1>0, <2>2 DEF InsertRow, AddInv
    <3> QED BY <3>1 DEF JobOfRequest, RowOfRequest
  <2>3. ASSUME NEW h \in Webhooks, DeleteWebhook(h) PROVE JobOfRequest(d) /\ RowOfRequest(d)
    BY <1>0, <2>3 DEF DeleteWebhook, Row, JobOfRequest, RowOfRequest
  <2>4. ASSUME UNCHANGED <<row, job>> PROVE JobOfRequest(d) /\ RowOfRequest(d)
    BY <2>4 DEF JobOfRequest, RowOfRequest
  <2> QED BY <2>1, <2>2, <2>3, <2>4 DEF ProducerStep, ReplayStep, ListWebhooks, CreateDelivery,
       ReplayDelivery, ProducerFails, SwitchWebhook
<1> QED BY <1>1, <1>2, <1>3

\* A step of requests: new rows have no job, rows change to gone only.
LEMMA RequestHolds ==
    ASSUME SafeInv, HeldInv,
           \/ \E p \in Producers : ProducerStep(p)
           \/ \E r \in Replays : ReplayStep(r)
           \/ \E h \in Webhooks : SwitchWebhook(h) \/ DeleteWebhook(h)
    PROVE  HeldInv'
<1>0. /\ AddInv /\ WorkInv /\ job \in [Deliveries -> Job] /\ row \in [Deliveries -> Row]
  BY DEF SafeInv, TypeOK
<1>1. worker' = worker /\ hit \subseteq hit'
  BY RequestEffect
<1>2. \A d \in Deliveries : JobOfRequest(d) /\ RowOfRequest(d)
  BY RequestEffect
<1>3. \A d \in Deliveries :
         job'[d] = job[d] \/ (job[d].state = "none" /\ job'[d].state = "waiting")
  BY <1>2 DEF JobOfRequest
<1>4. \A d \in Deliveries :
         row'[d] = row[d] \/ row'[d].status = "gone" \/ job[d].state = "none"
  BY <1>2 DEF RowOfRequest
<1>5. ASSUME NEW w \in Workers PROVE HeldRight(w)' /\ ResultRight(w)'
  <2>1. CASE worker[w].step = "idle"
    BY <1>1, <2>1 DEF HeldRight, ResultRight
  <2>2. CASE worker[w].step # "idle"
    <3>1. /\ worker[w].delivery \in Deliveries /\ HeldRight(w) /\ ResultRight(w)
          /\ job[worker[w].delivery].state = "active"
      BY <1>0, <2>2 DEF WorkInv, WorkRight, HeldInv, HeldRight
    <3> QED BY <1>1, <1>2, <1>3, <1>4, <2>2, <3>1 DEF HeldRight, ResultRight
  <2> QED BY <2>1, <2>2
<1>6. ASSUME NEW d \in Deliveries PROVE EndedRight(d)'
  BY <1>1, <1>3, <1>4 DEF HeldInv, EndedRight
<1> QED BY <1>5, <1>6 DEF HeldInv

\* A step of the queue: the holder of an abandoned job is not at work on it.
LEMMA QueueHolds ==
    ASSUME SafeInv, HeldInv, "lock" \notin Faults, NEW d \in Deliveries,
           Retry(d) \/ Stall(d) \/ \E w \in Workers : TakeJob(w, d)
    PROVE  HeldInv'
<1>0. /\ WorkInv /\ job \in [Deliveries -> Job] /\ worker \in [Workers -> Work]
      /\ row' = row
  BY DEF SafeInv, TypeOK, Retry, Stall, TakeJob
<1>1. \A e \in Deliveries : e # d => job'[e] = job[e] /\ (e \in hit => e \in hit')
  BY <1>0 DEF Retry, Stall, TakeJob
<1>2. ASSUME NEW w \in Workers, worker[w].step # "idle"
      PROVE  worker[w].delivery \in Deliveries /\ worker[w].delivery # d
  <2>1. /\ worker[w].delivery \in Deliveries
        /\ job[worker[w].delivery].state = "active" /\ job[worker[w].delivery].lock = w
    BY <1>0, <1>2 DEF WorkInv, WorkRight, HeldInv, HeldRight
  <2> QED BY <2>1 DEF Retry, Stall, TakeJob, LockExpired, Abandoned
<1>3. ASSUME NEW w \in Workers, worker'[w] = worker[w] PROVE HeldRight(w)' /\ ResultRight(w)'
  BY <1>0, <1>1, <1>2, <1>3 DEF HeldInv, HeldRight, ResultRight
<1>4. ASSUME NEW w \in Workers, TakeJob(w, d) PROVE HeldRight(w)' /\ ResultRight(w)'
  <2>1. /\ worker'[w] = [IdleWork EXCEPT !.step = "load", !.delivery = d, !.made = job[d].made]
        /\ job'[d] = [job[d] EXCEPT !.state = "active", !.lock = w]
    BY <1>0, <1>4 DEF TakeJob
  <2>2. /\ job'[d].state = "active" /\ job'[d].lock = w /\ job'[d].made = job[d].made
        /\ worker'[w].step = "load" /\ worker'[w].delivery = d /\ worker'[w].made = job[d].made
    BY <1>0, <2>1 DEF IdleWork, Job
  <2> QED BY <2>2 DEF HeldRight, ResultRight
<1>5. ASSUME NEW w \in Workers PROVE HeldRight(w)' /\ ResultRight(w)'
  BY <1>0, <1>3, <1>4 DEF Retry, Stall, TakeJob
<1>6. ASSUME NEW e \in Deliveries PROVE EndedRight(e)'
  <2>1. CASE e # d
    BY <1>0, <1>1, <2>1 DEF HeldInv, EndedRight
  <2>2. CASE e = d
    <3>1. job'[d].state \in {"waiting", "active"} \/ (job'[d].state = "failed" /\ d \in hit')
      BY <1>0 DEF Retry, Stall, TakeJob, Job
    <3> QED BY <2>2, <3>1 DEF EndedRight
  <2> QED BY <2>1, <2>2
<1> QED BY <1>5, <1>6 DEF HeldInv

\* A step of a worker in processDelivery: nobody else writes its row.
LEMMA ProcessHolds ==
    ASSUME SafeInv, HeldInv, NEW w \in Workers,
           \/ LoadDelivery(w) \/ PostDelivery(w) \/ WriteOutcome(w)
           \/ OutcomeUntold(w) \/ ProcessThrows(w)
    PROVE  HeldInv'
<1>0. /\ WorkInv /\ AddInv /\ row \in [Deliveries -> Row] /\ worker \in [Workers -> Work]
      /\ worker[w] \in Work
  BY DEF SafeInv, TypeOK
<1>1. PICK d \in Deliveries : d = worker[w].delivery
  BY <1>0 DEF LoadDelivery, PostDelivery, WriteOutcome, OutcomeUntold, ProcessThrows, WorkInv, WorkRight
<1>2. /\ worker[w].step # "idle" /\ job' = job
      /\ worker'[w].delivery = d /\ worker'[w].made = worker[w].made
      /\ \A v \in Workers : v # w => worker'[v] = worker[v]
      /\ \A e \in Deliveries : e # d => row'[e] = row[e]
      /\ hit \subseteq hit'
  BY <1>0, <1>1 DEF LoadDelivery, PostDelivery, WriteOutcome, OutcomeUntold, ProcessThrows, Ends, Work
<1>3. HeldRight(w) /\ ResultRight(w) /\ job[d].state = "active"
  BY <1>1, <1>2 DEF HeldInv, HeldRight
<1>4. HeldRight(w)'
  BY <1>1, <1>2, <1>3 DEF HeldRight
<1>5. ResultRight(w)'
  <2>1. CASE LoadDelivery(w)
    <3>1. worker'[w].step = "report" =>
             worker'[w].result = "return" /\ ~Exists(d) /\ row' = row
      BY <1>0, <1>1, <2>1 DEF LoadDelivery, Ends, Work
    <3>2. row[d].status # "none"
      BY <1>0, <1>3 DEF AddInv
    <3> QED BY <1>2, <3>1, <3>2 DEF ResultRight, Exists
  <2>2. CASE PostDelivery(w)
    <3>1. worker'[w].step = "write"
      BY <1>0, <2>2 DEF PostDelivery, Work
    <3> QED BY <3>1 DEF ResultRight
  <2>3. CASE WriteOutcome(w)
    <3>1. worker[w].answer \in {"ok", "refused", "unsealed"}
      BY <1>0, <2>3 DEF WriteOutcome, WorkInv, WorkRight, Work
    <3>2. /\ row'[d].status = Outcome(w)
          /\ worker'[w].result = IF worker[w].answer = "refused" THEN "throw" ELSE "return"
      BY <1>0, <1>1, <2>3 DEF WriteOutcome, Ends, Work, Row
    <3> QED BY <1>2, <3>1, <3>2 DEF ResultRight, Outcome, IsLastAttempt
  <2>4. CASE ProcessThrows(w) \/ OutcomeUntold(w)
    <3>1. worker'[w].result = "throw" /\ d \in hit'
      BY <1>0, <1>1, <2>4 DEF ProcessThrows, OutcomeUntold, Ends, Work
    <3> QED BY <1>2, <3>1 DEF ResultRight
  <2> QED BY <2>1, <2>2, <2>3, <2>4
<1>6. ASSUME NEW v \in Workers, v # w PROVE HeldRight(v)' /\ ResultRight(v)'
  <2>1. worker'[v] = worker[v] /\ HeldRight(v) /\ ResultRight(v)
    BY <1>2, <1>6 DEF HeldInv
  <2>2. worker[v].step # "idle" => worker[v].delivery \in Deliveries /\ worker[v].delivery # d
    BY <1>0, <1>1, <1>2, <1>6, Alone DEF WorkInv, WorkRight
  <2> QED BY <1>2, <2>1, <2>2 DEF HeldRight, ResultRight
<1>7. ASSUME NEW e \in Deliveries PROVE EndedRight(e)'
  BY <1>2, <1>3 DEF HeldInv, EndedRight
<1> QED BY <1>4, <1>5, <1>6, <1>7 DEF HeldInv

\* A worker that is idle again: its job has ended as its row says.
LEMMA IdleHolds ==
    ASSUME SafeInv, HeldInv, NEW w \in Workers, Report(w) \/ WorkerDies(w)
    PROVE  HeldInv'
<1>0. /\ WorkInv /\ JobInv /\ job \in [Deliveries -> Job] /\ worker \in [Workers -> Work]
      /\ worker[w] \in Work
  BY DEF SafeInv, TypeOK
<1>1. PICK d \in Deliveries : d = worker[w].delivery
  BY <1>0 DEF Report, WorkerDies, WorkInv, WorkRight
<1>2. /\ worker[w].step # "idle" /\ row' = row /\ worker'[w].step = "idle"
      /\ \A v \in Workers : v # w => worker'[v] = worker[v]
      /\ \A e \in Deliveries : e # d => job'[e] = job[e]
      /\ hit \subseteq hit'
  BY <1>0, <1>1 DEF Report, WorkerDies, IdleWork
<1>3. /\ ResultRight(w) /\ job[d] \in Job
      /\ job[d].state = "active" /\ job[d].lock = w /\ job[d].made = worker[w].made
  BY <1>0, <1>1, <1>2 DEF HeldInv, HeldRight
<1>4. ASSUME NEW v \in Workers PROVE HeldRight(v)' /\ ResultRight(v)'
  <2>1. CASE v = w
    BY <1>2, <2>1 DEF HeldRight, ResultRight
  <2>2. CASE v # w
    <3>1. worker'[v] = worker[v] /\ HeldRight(v) /\ ResultRight(v)
      BY <1>2, <2>2 DEF HeldInv
    <3>2. worker[v].step # "idle" => worker[v].delivery \in Deliveries /\ worker[v].delivery # d
      BY <1>0, <1>1, <1>2, <2>2, Alone DEF WorkInv, WorkRight
    <3> QED BY <1>2, <3>1, <3>2 DEF HeldRight, ResultRight
  <2> QED BY <2>1, <2>2
<1>5. EndedRight(d)'
  <2>1. CASE WorkerDies(w)
    BY <1>3, <2>1 DEF WorkerDies, EndedRight
  <2>2. CASE Report(w)
    <3>1. /\ worker[w].step = "report" /\ worker[w].result \in {"return", "throw"}
          /\ hit' = hit
          /\ job'[d].state = IF worker[w].result = "return" THEN "completed"
                               ELSE IF job[d].made + 1 >= MaxAttempts THEN "failed"
                               ELSE "delayed"
      BY <1>0, <1>1, <1>3, <2>2 DEF Report, WorkInv, WorkRight, Work, Job
    <3>2. job[d].made + 1 >= MaxAttempts => worker[w].made >= MaxAttempts - 1
      BY <1>3, DeliveryAssumption DEF Job, DeliveryAssumption
    <3>3. CASE worker[w].result = "return"
      <4>1. job'[d].state = "completed"
        BY <3>1, <3>3
      <4>2. row[d].status \in {"delivered", "failed", "gone"}
        BY <1>1, <1>3, <3>1, <3>3 DEF ResultRight
      <4> QED BY <1>2, <4>1, <4>2 DEF EndedRight
    <3>4. CASE worker[w].result = "throw"
      <4>1. job'[d].state # "completed"
        BY <3>1, <3>4
      <4>2. job'[d].state = "failed" => worker[w].made >= MaxAttempts - 1
        BY <3>1, <3>2, <3>4
      <4>3. job'[d].state = "failed" /\ d \notin hit => row[d].status \in {"failed", "gone"}
        BY <1>1, <1>3, <3>1, <3>4, <4>2 DEF ResultRight
      <4> QED BY <1>2, <3>1, <4>1, <4>3 DEF EndedRight
    <3> QED BY <3>1, <3>3, <3>4
  <2> QED BY <2>1, <2>2
<1>6. ASSUME NEW e \in Deliveries, e # d PROVE EndedRight(e)'
  BY <1>2, <1>6 DEF HeldInv, EndedRight
<1> QED BY <1>4, <1>5, <1>6 DEF HeldInv

\* Every step keeps it.
LEMMA NextHeld ==
    ASSUME "lock" \notin Faults
    PROVE  SafeInv /\ HeldInv /\ [Next]_vars => HeldInv'
<1>1. ASSUME SafeInv, HeldInv, Next PROVE HeldInv'
  BY <1>1, RequestHolds, QueueHolds, ProcessHolds, IdleHolds DEF Next, ProcessStep
<1>2. ASSUME HeldInv, UNCHANGED vars PROVE HeldInv'
  BY <1>2 DEF vars, HeldInv, HeldRight, ResultRight, EndedRight
<1> QED BY <1>1, <1>2

-----------------------------------------------------------------------------
\* A delivery that never stalled

First(d) == job[d].stalls = 0

Undecided(d) == row[d].status \in {"pending", "gone"}

\* One worker has it, and its row is undecided until that worker has written
\* an outcome that no attempt comes after.
AtWork(w) ==
    LET d == worker[w].delivery
    IN  worker[w].step # "idle" /\ First(d) =>
          /\ job[d].state = "active" /\ job[d].lock = w /\ job[d].made = worker[w].made
          /\ /\ d \notin untold
             /\ \/ worker[w].step # "report"
                \/ worker[w].result = "throw" /\ worker[w].made < MaxAttempts - 1
             => Undecided(d)

\* If an attempt is to come, its row is undecided.
ToCome(d) ==
    /\ First(d) /\ d \notin untold /\ job[d].state \in {"waiting", "delayed"} => Undecided(d)
    /\ First(d) /\ job[d].state = "none" => Undecided(d) \/ row[d].status = "none"
    /\ row[d].status = "none" => row[d].hook = NoWebhook

FinalInv ==
    /\ \A w \in Workers : AtWork(w)
    /\ \A d \in Deliveries : ToCome(d)

\* Nobody works, and nothing is asked for.
LEMMA InitFinal == Init => FinalInv
BY DEF Init, FinalInv, AtWork, ToCome, Undecided, IdleWork, NewJob

\* A step of requests: an untaken job is added, a row is added or is gone.
LEMMA RequestFinal ==
    ASSUME SafeInv, FinalInv,
           \/ \E p \in Producers : ProducerStep(p)
           \/ \E r \in Replays : ReplayStep(r)
           \/ \E h \in Webhooks : SwitchWebhook(h) \/ DeleteWebhook(h)
    PROVE  FinalInv'
<1>0. AddInv /\ WorkInv /\ row \in [Deliveries -> Row]
  BY DEF SafeInv, TypeOK
<1>1. /\ worker' = worker
      /\ \A d \in Deliveries : JobOfRequest(d) /\ RowOfRequest(d)
  BY RequestEffect
<1>u. untold' = untold
  BY DEF ProducerStep, ReplayStep, ListWebhooks, CreateDelivery, ReplayDelivery, InsertRow,
     AddJob, ProducerFails, SwitchWebhook, DeleteWebhook
<1>2. ASSUME NEW w \in Workers PROVE AtWork(w)'
  <2>1. CASE worker[w].step = "idle"
    BY <1>1, <2>1 DEF AtWork
  <2>2. CASE worker[w].step # "idle"
    <3>1. PICK d \in Deliveries : d = worker[w].delivery
      BY <1>0, <2>2 DEF WorkInv, WorkRight
    <3>2. AtWork(w) /\ JobOfRequest(d) /\ RowOfRequest(d) /\ row[d] \in Row
      BY <1>0, <1>1 DEF FinalInv
    <3>3. CASE job'[d] = job[d]
      BY <1>1, <1>u, <2>2, <3>1, <3>2, <3>3 DEF AtWork, First, Undecided, RowOfRequest
    <3>4. CASE job[d].state = "none" /\ job[d].stalls = 0
      BY <2>2, <3>1, <3>2, <3>4 DEF AtWork, First
    <3> QED BY <3>2, <3>3, <3>4 DEF JobOfRequest
  <2> QED BY <2>1, <2>2
<1>3. ASSUME NEW d \in Deliveries PROVE ToCome(d)'
  <2>1. ToCome(d) /\ JobOfRequest(d) /\ RowOfRequest(d)
    BY <1>1 DEF FinalInv
  <2> QED BY <1>u, <2>1 DEF ToCome, First, Undecided, JobOfRequest, RowOfRequest
<1> QED BY <1>2, <1>3 DEF FinalInv

\* A step of the queue: who takes the job of a first run finds its row undecided.
LEMMA QueueFinal ==
    ASSUME SafeInv, FinalInv, NEW d \in Deliveries,
           Retry(d) \/ Stall(d) \/ \E w \in Workers : TakeJob(w, d)
    PROVE  FinalInv'
<1>0. /\ AddInv /\ WorkInv /\ job \in [Deliveries -> Job] /\ worker \in [Workers -> Work]
      /\ job[d] \in Job /\ row' = row /\ untold' = untold
  BY DEF SafeInv, TypeOK, Retry, Stall, TakeJob
<1>1. \A e \in Deliveries : e # d => job'[e] = job[e]
  BY <1>0 DEF Retry, Stall, TakeJob
<1>2. /\ job'[d].stalls = 0 => /\ job[d].stalls = 0 /\ job[d].state \in {"waiting", "delayed"}
                               /\ job'[d].state \in {"waiting", "active"}
      /\ job'[d].state # "none"
  BY <1>0 DEF Retry, Stall, TakeJob, Job
<1>3. ASSUME NEW w \in Workers, worker'[w] = worker[w] PROVE AtWork(w)'
  <2>1. CASE worker[w].step = "idle"
    BY <1>3, <2>1 DEF AtWork
  <2>2. CASE worker[w].step # "idle"
    <3>1. PICK e \in Deliveries : e = worker[w].delivery
      BY <1>0, <2>2 DEF WorkInv, WorkRight
    <3>2. AtWork(w)
      BY DEF FinalInv
    <3>3. CASE e # d
      BY <1>0, <1>1, <1>3, <2>2, <3>1, <3>2, <3>3 DEF AtWork, First, Undecided
    <3>4. CASE e = d
      BY <1>2, <1>3, <2>2, <3>1, <3>2, <3>4 DEF AtWork, First
    <3> QED BY <3>3, <3>4
  <2> QED BY <2>1, <2>2
<1>4. ASSUME NEW w \in Workers, TakeJob(w, d) PROVE AtWork(w)'
  <2>1. /\ worker'[w] = [IdleWork EXCEPT !.step = "load", !.delivery = d, !.made = job[d].made]
        /\ job'[d] = [job[d] EXCEPT !.state = "active", !.lock = w]
        /\ job[d].state = "waiting"
    BY <1>0, <1>4 DEF TakeJob
  <2>2. /\ job'[d].state = "active" /\ job'[d].lock = w /\ job'[d].made = job[d].made
        /\ job'[d].stalls = job[d].stalls
        /\ worker'[w].delivery = d /\ worker'[w].made = job[d].made
    BY <1>0, <2>1 DEF IdleWork, Job
  <2>3. job[d].stalls = 0 /\ d \notin untold => row[d].status \in {"pending", "gone"}
    BY <2>1 DEF FinalInv, ToCome, First, Undecided
  <2> QED BY <1>0, <2>2, <2>3 DEF AtWork, First, Undecided
<1>5. ASSUME NEW w \in Workers PROVE AtWork(w)'
  BY <1>0, <1>3, <1>4 DEF Retry, Stall, TakeJob
<1>6. ASSUME NEW e \in Deliveries PROVE ToCome(e)'
  <2>1. ToCome(e)
    BY DEF FinalInv
  <2>2. CASE e # d
    BY <1>0, <1>1, <2>1, <2>2 DEF ToCome, First, Undecided
  <2>3. CASE e = d
    BY <1>0, <1>2, <2>1, <2>3 DEF ToCome, First, Undecided
  <2> QED BY <2>2, <2>3
<1> QED BY <1>5, <1>6 DEF FinalInv

\* Of a first run no two workers are at work.
LEMMA FirstAlone ==
    ASSUME FinalInv, NEW v \in Workers, NEW w \in Workers, First(worker[w].delivery),
           worker[v].step # "idle", worker[w].step # "idle",
           worker[v].delivery = worker[w].delivery
    PROVE  v = w
BY DEF FinalInv, AtWork

\* A step of a worker in processDelivery: what it writes is pending only if an
\* attempt is to come.
LEMMA ProcessFinal ==
    ASSUME SafeInv, FinalInv, NEW w \in Workers,
           \/ LoadDelivery(w) \/ PostDelivery(w) \/ WriteOutcome(w)
           \/ OutcomeUntold(w) \/ ProcessThrows(w)
    PROVE  FinalInv'
<1>0. /\ WorkInv /\ AddInv /\ row \in [Deliveries -> Row] /\ worker \in [Workers -> Work]
      /\ worker[w] \in Work
  BY DEF SafeInv, TypeOK
<1>1. PICK d \in Deliveries : d = worker[w].delivery
  BY <1>0 DEF LoadDelivery, PostDelivery, WriteOutcome, OutcomeUntold, ProcessThrows, WorkInv, WorkRight
<1>2. /\ worker[w].step \in {"load", "post", "write"} /\ job' = job
      /\ worker'[w].delivery = d /\ worker'[w].made = worker[w].made
      /\ \A v \in Workers : v # w => worker'[v] = worker[v]
      /\ \A e \in Deliveries : e # d => row'[e] = row[e]
      /\ untold \subseteq untold'
  BY <1>0, <1>1 DEF LoadDelivery, PostDelivery, WriteOutcome, OutcomeUntold, ProcessThrows, Ends, Work
<1>3. AtWork(w) /\ ToCome(d)
  BY DEF FinalInv
<1>4. AtWork(w)'
  <2>1. CASE row' = row
    BY <1>1, <1>2, <1>3, <2>1 DEF AtWork, First, Undecided
  <2>2. CASE WriteOutcome(w)
    <3>1. worker[w].answer \in {"ok", "refused", "unsealed"}
      BY <1>0, <2>2 DEF WriteOutcome, WorkInv, WorkRight, Work
    <3>2. /\ row'[d].status = Outcome(w) /\ worker'[w].step = "report"
          /\ worker'[w].result = IF worker[w].answer = "refused" THEN "throw" ELSE "return"
      BY <1>0, <1>1, <2>2 DEF WriteOutcome, Ends, Work, Row
    <3>3. worker'[w].result = "throw" /\ worker[w].made < MaxAttempts - 1
             => row'[d].status = "pending"
      <4>1. MaxAttempts \in Nat /\ worker[w].made \in Nat
        BY <1>0, DeliveryAssumption DEF Work, DeliveryAssumption
      <4> QED BY <3>1, <3>2, <4>1 DEF Outcome, IsLastAttempt
    <3> QED BY <1>1, <1>2, <1>3, <3>2, <3>3 DEF AtWork, First, Undecided
  <2>3. CASE OutcomeUntold(w)
    <3>1. d \in untold'
      BY <1>1, <2>3 DEF OutcomeUntold
    <3> QED BY <1>1, <1>2, <1>3, <3>1 DEF AtWork, First
  <2> QED BY <2>1, <2>2, <2>3 DEF LoadDelivery, PostDelivery, ProcessThrows
<1>5. ASSUME NEW v \in Workers, v # w PROVE AtWork(v)'
  <2>1. worker'[v] = worker[v] /\ AtWork(v)
    BY <1>2, <1>5 DEF FinalInv
  <2>2. CASE worker[v].step = "idle"
    BY <2>1, <2>2 DEF AtWork
  <2>3. CASE worker[v].step # "idle"
    <3>1. PICK e \in Deliveries : e = worker[v].delivery
      BY <1>0, <2>3 DEF WorkInv, WorkRight
    <3>2. e = d => ~First(d)
      BY <1>1, <1>2, <1>5, <2>3, <3>1, FirstAlone
    <3>3. CASE e = d
      BY <1>2, <2>1, <3>1, <3>2, <3>3 DEF AtWork, First
    <3>4. CASE e # d
      BY <1>2, <2>1, <3>1, <3>4 DEF AtWork, First, Undecided
    <3> QED BY <3>3, <3>4
  <2> QED BY <2>2, <2>3
<1>6. ASSUME NEW e \in Deliveries PROVE ToCome(e)'
  <2>1. ToCome(e)
    BY DEF FinalInv
  <2>2. CASE e # d
    BY <1>2, <2>1, <2>2 DEF ToCome, First, Undecided
  <2>3. CASE e = d
    <3>1. First(d) => job[d].state = "active"
      BY <1>1, <1>2, <1>3 DEF AtWork
    <3>2. row'[d].status = "none" => row'[d] = row[d]
      <4>1. CASE WriteOutcome(w) \/ OutcomeUntold(w)
        <5>1. row'[d].status = Outcome(w)
          BY <1>0, <1>1, <4>1 DEF WriteOutcome, OutcomeUntold, Row
        <5>2. worker[w].answer \in {"ok", "refused", "unsealed"}
          BY <1>0, <4>1 DEF WriteOutcome, OutcomeUntold, WorkInv, WorkRight, Work
        <5> QED BY <5>1, <5>2 DEF Outcome
      <4> QED BY <4>1 DEF LoadDelivery, PostDelivery, ProcessThrows
    <3> QED BY <1>2, <2>1, <2>3, <3>1, <3>2 DEF ToCome, First
  <2> QED BY <2>2, <2>3
<1> QED BY <1>4, <1>5, <1>6 DEF FinalInv

\* A worker that is idle again: a job comes back only if its row is undecided.
LEMMA IdleFinal ==
    ASSUME SafeInv, FinalInv, NEW w \in Workers, Report(w) \/ WorkerDies(w)
    PROVE  FinalInv'
<1>0. /\ WorkInv /\ JobInv /\ job \in [Deliveries -> Job] /\ worker \in [Workers -> Work]
      /\ worker[w] \in Work
  BY DEF SafeInv, TypeOK
<1>1. PICK d \in Deliveries : d = worker[w].delivery
  BY <1>0 DEF Report, WorkerDies, WorkInv, WorkRight
<1>2. /\ worker[w].step # "idle" /\ row' = row /\ worker'[w].step = "idle"
      /\ untold' = untold
      /\ \A v \in Workers : v # w => worker'[v] = worker[v]
      /\ \A e \in Deliveries : e # d => job'[e] = job[e]
  BY <1>0, <1>1 DEF Report, WorkerDies, IdleWork
<1>3. AtWork(w) /\ ToCome(d) /\ job[d] \in Job /\ job'[d].stalls = job[d].stalls
  BY <1>0, <1>1 DEF FinalInv, Report, WorkerDies, Job
<1>4. ASSUME NEW v \in Workers PROVE AtWork(v)'
  <2>1. CASE worker'[v].step = "idle"
    BY <2>1 DEF AtWork
  <2>2. CASE worker'[v].step # "idle"
    <3>1. v # w /\ worker'[v] = worker[v] /\ AtWork(v)
      BY <1>2, <2>2 DEF FinalInv
    <3>2. PICK e \in Deliveries : e = worker[v].delivery
      BY <1>0, <2>2, <3>1 DEF WorkInv, WorkRight
    <3>3. CASE e # d
      BY <1>2, <3>1, <3>2, <3>3 DEF AtWork, First, Undecided
    <3>4. CASE e = d
      <4>1. ~First(d)
        BY <1>1, <1>2, <2>2, <3>1, <3>2, <3>4, FirstAlone
      <4> QED BY <1>3, <3>1, <3>2, <3>4, <4>1 DEF AtWork, First
    <3> QED BY <3>3, <3>4
  <2> QED BY <2>1, <2>2
<1>5. ToCome(d)'
  <2>1. CASE WorkerDies(w)
    BY <1>2, <1>3, <2>1 DEF WorkerDies, ToCome, First, Undecided
  <2>2. CASE Report(w) /\ First(d)
    <3>1. /\ worker[w].step = "report" /\ worker[w].result \in {"return", "throw"}
          /\ job[d].lock = w /\ job[d].made = worker[w].made
      BY <1>0, <1>1, <1>2, <1>3, <2>2 DEF Report, WorkInv, WorkRight, Work, AtWork
    <3>2. job'[d].state = IF worker[w].result = "return" THEN "completed"
                            ELSE IF job[d].made + 1 >= MaxAttempts THEN "failed"
                            ELSE "delayed"
      BY <1>0, <1>1, <1>3, <2>2, <3>1 DEF Report, Job
    <3>3. job'[d].state \in {"none", "waiting", "delayed"} =>
             worker[w].result = "throw" /\ worker[w].made < MaxAttempts - 1
      BY <1>3, <3>1, <3>2, DeliveryAssumption DEF Job, DeliveryAssumption
    <3>4. /\ job'[d].state # "none"
          /\ d \notin untold /\ job'[d].state \in {"waiting", "delayed"} => Undecided(d)
      BY <1>1, <1>2, <1>3, <2>2, <3>1, <3>2, <3>3 DEF AtWork
    <3> QED BY <1>2, <1>3, <3>4 DEF ToCome, Undecided
  <2>3. CASE Report(w) /\ ~First(d)
    BY <1>2, <1>3, <2>3 DEF ToCome, First, Undecided
  <2> QED BY <2>1, <2>2, <2>3
<1>6. ASSUME NEW e \in Deliveries, e # d PROVE ToCome(e)'
  BY <1>2, <1>6 DEF FinalInv, ToCome, First, Undecided
<1> QED BY <1>4, <1>5, <1>6 DEF FinalInv

\* Every step keeps it.
LEMMA NextFinal == SafeInv /\ FinalInv /\ [Next]_vars => FinalInv'
<1>1. ASSUME SafeInv, FinalInv, Next PROVE FinalInv'
  BY <1>1, RequestFinal, QueueFinal, ProcessFinal, IdleFinal DEF Next, ProcessStep
<1>2. ASSUME FinalInv, UNCHANGED vars PROVE FinalInv'
  BY <1>2 DEF vars, FinalInv, AtWork, ToCome, First, Undecided
<1> QED BY <1>1, <1>2

-----------------------------------------------------------------------------
\* The contract, step by step

\* A step that changes no status, no job's stalls and nothing at the receiver.
LEMMA UnseenStep ==
    ASSUME posts' = posts, received' = received, untold' = untold,
           \A d \in Deliveries : row'[d].status = row[d].status /\ job'[d].stalls = job[d].stalls
    PROVE  UNCHANGED <<[d \in Deliveries |-> row[d].status], posts, received,
                       Again>>
BY DEF Again

\* Requests ask for deliveries, and deleting a webhook drops its own.
LEMMA RequestContract ==
    ASSUME SafeInv, FinalInv,
           \/ \E p \in Producers : ProducerStep(p)
           \/ \E r \in Replays : ReplayStep(r)
           \/ \E h \in Webhooks : SwitchWebhook(h) \/ DeleteWebhook(h)
    PROVE  \/ Contract!ContractNext
           \/ UNCHANGED <<[d \in Deliveries |-> row[d].status], posts, received,
                          Again>>
<1>0. /\ row \in [Deliveries -> Row] /\ job \in [Deliveries -> Job] /\ AddInv /\ JobInv
  BY DEF SafeInv, TypeOK
<1>u. untold' = untold
  BY DEF ProducerStep, ReplayStep, ListWebhooks, CreateDelivery, ReplayDelivery, InsertRow,
     AddJob, ProducerFails, SwitchWebhook, DeleteWebhook
<1>1. ASSUME NEW p, NEW d \in Deliveries, NEW h, NEW n, InsertRow(p, d, h, n)
      PROVE  Contract!Ask(d)
  <2>1. /\ row[d].status = "none" /\ row'[d].status = "pending"
        /\ \A e \in Deliveries : e # d => row'[e] = row[e]
        /\ posts' = posts /\ received' = received /\ job' = job
    BY <1>0, <1>1 DEF InsertRow
  <2>2. d \notin Contract!Asked
    BY <2>1 DEF Contract!Asked
  <2>3. [e \in Deliveries |-> row[e].status]'
          = [[e \in Deliveries |-> row[e].status] EXCEPT ![d] = "pending"]
    BY <2>1
  <2> QED BY <1>u, <2>1, <2>2, <2>3 DEF Contract!Ask, Again
<1>2. ASSUME NEW h \in Webhooks, DeleteWebhook(h) PROVE Contract!ContractNext
  <2>1. {d \in Deliveries : row[d].hook = h} \in SUBSET Contract!Asked
    BY <1>0, DeliveryAssumption DEF Contract!Asked, FinalInv, ToCome, DeliveryAssumption
  <2>2. PICK dropped \in SUBSET Contract!Asked : dropped = {d \in Deliveries : row[d].hook = h}
    BY <2>1
  <2>3. /\ \A d \in Deliveries :
              row'[d].status = IF d \in dropped THEN "gone" ELSE row[d].status
        /\ posts' = posts /\ received' = received /\ job' = job
    BY <1>0, <1>2, <2>2 DEF DeleteWebhook, Row
  <2>4. Contract!Drop(dropped)
    BY <1>u, <2>3 DEF Contract!Drop, Again
  <2> QED BY <2>4 DEF Contract!ContractNext
<1>3. ASSUME NEW p \in Producers, AddJob(p)
      PROVE  UNCHANGED <<[d \in Deliveries |-> row[d].status], posts, received,
                         Again>>
  <2>1. /\ producer[p].delivery \in Deliveries /\ job[producer[p].delivery].state = "none"
        /\ row' = row /\ posts' = posts /\ received' = received
    BY <1>0, <1>3 DEF AddJob, AddInv
  <2>2. job[producer[p].delivery].stalls = 0
    BY <1>0, <2>1 DEF JobInv, JobRight
  <2>3. \A d \in Deliveries : job'[d].stalls = job[d].stalls
    BY <1>0, <1>3, <2>2 DEF AddJob, NewJob
  <2> QED BY <1>u, <2>1, <2>3, UnseenStep
<1>4. ASSUME UNCHANGED <<row, job, posts, received>>
      PROVE  UNCHANGED <<[d \in Deliveries |-> row[d].status], posts, received,
                         Again>>
  BY <1>4, <1>u DEF Again
<1>5. ASSUME NEW p \in Producers, ListWebhooks(p) \/ ProducerFails(p)
      PROVE  UNCHANGED <<row, job, posts, received>>
  BY <1>5 DEF ListWebhooks, ProducerFails
<1>6. ASSUME NEW h \in Webhooks, SwitchWebhook(h) PROVE UNCHANGED <<row, job, posts, received>>
  BY <1>6 DEF SwitchWebhook
<1>7. ASSUME NEW p \in Producers, NEW d \in Deliveries, NEW h \in Webhooks,
             CreateDelivery(p, d, h)
      PROVE  Contract!ContractNext
  BY <1>1, <1>7 DEF CreateDelivery, Contract!ContractNext
<1>8. ASSUME NEW r \in Replays, NEW o \in Deliveries, NEW d \in Deliveries,
             ReplayDelivery(r, o, d)
      PROVE  Contract!ContractNext
  BY <1>1, <1>8 DEF ReplayDelivery, Contract!ContractNext
<1> QED BY <1>2, <1>3, <1>4, <1>5, <1>6, <1>7, <1>8 DEF ProducerStep, ReplayStep

\* A stalled job is handed out again; nothing else the queue does is seen.
LEMMA QueueContract ==
    ASSUME SafeInv, NEW d \in Deliveries,
           Retry(d) \/ Stall(d) \/ \E w \in Workers : TakeJob(w, d)
    PROVE  \/ Contract!ContractNext
           \/ UNCHANGED <<[e \in Deliveries |-> row[e].status], posts, received,
                          Again>>
<1>0. /\ job \in [Deliveries -> Job] /\ AddInv /\ row' = row /\ posts' = posts /\ received' = received
      /\ job[d] \in Job /\ untold' = untold
  BY DEF SafeInv, TypeOK, Retry, Stall, TakeJob
<1>1. CASE Stall(d)
  <2>1. /\ job[d].state # "none" /\ job'[d].stalls = job[d].stalls + 1
        /\ \A e \in Deliveries : e # d => job'[e] = job[e]
    BY <1>0, <1>1 DEF Stall, LockExpired, Abandoned, Job
  <2>2. d \in Contract!Asked
    BY <1>0, <2>1 DEF AddInv, Contract!Asked
  <2>3. Again' = Again \cup {d}
    <3>1. job'[d].stalls > 0
      BY <1>0, <2>1 DEF Job
    <3> QED BY <1>0, <2>1, <3>1 DEF Again
  <2>4. Contract!HandOutAgain(d)
    BY <1>0, <2>2, <2>3 DEF Contract!HandOutAgain
  <2> QED BY <2>4 DEF Contract!ContractNext
<1>2. CASE Retry(d) \/ \E w \in Workers : TakeJob(w, d)
  <2>1. \A e \in Deliveries : job'[e].stalls = job[e].stalls
    BY <1>0, <1>2 DEF Retry, TakeJob, Job
  <2> QED BY <1>0, <2>1, UnseenStep
<1> QED BY <1>1, <1>2

\* What a worker does is a sending, a settling, or not seen.
LEMMA ProcessContract ==
    ASSUME SafeInv, FinalInv, NEW w \in Workers, ProcessStep(w) \/ WorkerDies(w)
    PROVE  \/ Contract!ContractNext
           \/ UNCHANGED <<[d \in Deliveries |-> row[d].status], posts, received,
                          Again>>
<1>0. /\ WorkInv /\ AddInv /\ JobInv
      /\ row \in [Deliveries -> Row] /\ job \in [Deliveries -> Job]
      /\ worker[w] \in Work
  BY DEF SafeInv, TypeOK
<1>1. ASSUME NEW d \in Deliveries, d = worker[w].delivery,
             worker[w].step \in {"post", "write"}
      PROVE  Contract!Open(d) \/ row[d].status = "gone"
  <2>1. AtWork(w) /\ row[d] \in Row /\ job[d] \in Job
    BY <1>0 DEF FinalInv
  <2>0. row[d].status # "none"
    BY <1>0, <1>1, <2>1 DEF AtWork, First, AddInv, JobInv, JobRight
  <2>2. job[d].stalls = 0 /\ d \notin untold => row[d].status \in {"pending", "gone"}
    BY <1>1, <2>1 DEF AtWork, First, Undecided
  <2>3. job[d].stalls # 0 \/ d \in untold => d \in Again
    BY <2>1 DEF Job, Again
  <2>4. row[d].status \in {"pending", "delivered", "failed", "gone"}
    BY <2>0, <2>1 DEF Row
  <2> QED BY <2>2, <2>3, <2>4 DEF Contract!Open, Contract!Final
<1>2. ASSUME PostDelivery(w) PROVE Contract!ContractNext
  <2>1. PICK d \in Deliveries : d = worker[w].delivery
    BY <1>0, <1>2 DEF PostDelivery, WorkInv, WorkRight
  <2>2. /\ worker[w].step = "post" /\ UNCHANGED <<row, job, untold>>
        /\ posts' = [posts EXCEPT ![d] = @ + 1]
    BY <1>2, <2>1 DEF PostDelivery
  <2>3. PICK takes \in BOOLEAN : received' = [received EXCEPT ![d] = @ \/ takes]
    BY <1>2, <2>1 DEF PostDelivery
  <2>4. Contract!Send(d, takes)
    BY <1>1, <2>1, <2>2, <2>3 DEF Contract!Send, Again
  <2> QED BY <2>4 DEF Contract!ContractNext
<1>3. ASSUME WriteOutcome(w) \/ OutcomeUntold(w) PROVE Contract!ContractNext
  <2>1. PICK d \in Deliveries : d = worker[w].delivery
    BY <1>0, <1>3 DEF WriteOutcome, OutcomeUntold, WorkInv, WorkRight
  <2>2. /\ worker[w].step = "write" /\ Exists(d) /\ UNCHANGED <<posts, received, job>>
        /\ row'[d].status = Outcome(w)
        /\ \A e \in Deliveries : e # d => row'[e] = row[e]
    BY <1>0, <1>3, <2>1 DEF WriteOutcome, OutcomeUntold, Row
  <2>3. worker[w].answer \in {"ok", "refused", "unsealed"}
    BY <1>0, <2>2 DEF WorkInv, WorkRight, Work
  <2>4. PICK o \in Contract!Final \cup {"pending"} : o = Outcome(w)
    BY <2>3 DEF Outcome, Contract!Final
  <2>5. o = "delivered" => received[d]
    BY <1>0, <2>1, <2>3, <2>4 DEF Outcome, WorkInv, WorkRight
  <2>6. Contract!Open(d)
    BY <1>1, <2>1, <2>2 DEF Exists
  <2>7. [e \in Deliveries |-> row[e].status]'
          = [[e \in Deliveries |-> row[e].status] EXCEPT ![d] = o]
    BY <2>2, <2>4
  <2>8. CASE WriteOutcome(w)
    <3>1. Again' = Again
      BY <2>2, <2>8 DEF WriteOutcome, Again
    <3>2. Contract!Settle(d, o)
      BY <2>2, <2>5, <2>6, <2>7, <3>1 DEF Contract!Settle
    <3> QED BY <3>2 DEF Contract!ContractNext
  <2>9. CASE OutcomeUntold(w)
    <3>1. Again' = Again \cup {d}
      BY <2>1, <2>2, <2>9 DEF OutcomeUntold, Again
    <3>2. o \in Contract!Final
      BY <2>3, <2>4, <2>9 DEF OutcomeUntold, Outcome, Contract!Final
    <3>3. Contract!SettleUnheard(d, o)
      BY <2>2, <2>5, <2>6, <2>7, <3>1 DEF Contract!SettleUnheard
    <3> QED BY <3>2, <3>3 DEF Contract!ContractNext
  <2> QED BY <1>3, <2>8, <2>9
<1>4. ASSUME UNCHANGED <<row, posts, received, untold>>,
             \A d \in Deliveries : job'[d].stalls = job[d].stalls
      PROVE  UNCHANGED <<[d \in Deliveries |-> row[d].status], posts, received,
                         Again>>
  BY <1>4, UnseenStep
<1>5. CASE LoadDelivery(w) \/ ProcessThrows(w) \/ WorkerDies(w)
  BY <1>4, <1>5 DEF LoadDelivery, ProcessThrows, WorkerDies
<1>6. CASE Report(w)
  <2>1. worker[w].delivery \in Deliveries
    BY <1>0, <1>6 DEF Report, WorkInv, WorkRight
  <2>2. \A d \in Deliveries : job'[d].stalls = job[d].stalls
    BY <1>0, <1>6, <2>1 DEF Report, Job
  <2> QED BY <1>4, <1>6, <2>2 DEF Report
<1> QED BY <1>2, <1>3, <1>5, <1>6 DEF ProcessStep

\* The start and every step of WebhookDelivery are the contract's, or unseen.
LEMMA InitContract == Init => Contract!ContractInit
BY DEF Init, NewJob, Again, Contract!ContractInit

LEMMA NextContract ==
    SafeInv /\ FinalInv /\ [Next]_vars =>
        [Contract!ContractNext]_<<[d \in Deliveries |-> row[d].status], posts, received,
                                  Again>>
<1>1. ASSUME SafeInv, FinalInv, Next
      PROVE  \/ Contract!ContractNext
             \/ UNCHANGED <<[d \in Deliveries |-> row[d].status], posts, received,
                            Again>>
  BY <1>1, RequestContract, QueueContract, ProcessContract DEF Next
<1>2. ASSUME UNCHANGED vars
      PROVE  UNCHANGED <<[d \in Deliveries |-> row[d].status], posts, received,
                         Again>>
  BY <1>2 DEF vars, Again
<1> QED BY <1>1, <1>2

-----------------------------------------------------------------------------
\* The invariant holds in every state, whatever goes wrong.
THEOREM SafeHolds == Spec => []SafeInv
<1> QED BY InitSafe, NextSafe, PTL DEF Spec

\* The types of webhooks, rows, jobs, requests and workers (webhook.service.ts,
\* webhook.worker.ts).
THEOREM DeliveryTypeHolds == Spec => []TypeOK
<1>1. SafeInv => TypeOK
  BY DEF SafeInv
<1> QED BY <1>1, SafeHolds, PTL

\* A row says delivered only if the receiver took it: even a worker that has
\* lost its job writes only what it was answered (webhook.worker.ts).
THEOREM DeliveredWasReceivedHolds == Spec => []DeliveredWasReceived
<1>1. SafeInv => DeliveredWasReceived
  BY DEF SafeInv
<1> QED BY <1>1, SafeHolds, PTL

\* However attempts, crashes and expired locks are mixed, a receiver gets no
\* more POSTs than attempts and stalls allow (webhook.queue.ts).
THEOREM PostsBoundedHolds == Spec => []PostsBounded
<1>1. Spec => []Counted
  BY InitCounted, NextCounted, SafeHolds, PTL DEF Spec
<1>2. SafeInv /\ Counted => PostsBounded
  <2> SUFFICES ASSUME SafeInv, Counted, NEW d \in Deliveries
               PROVE  posts[d] <= MaxAttempts + MaxStalled
    BY DEF PostsBounded
  <2> DEFINE n == Cardinality(Unposted(d))
  <2>1. n \in Nat
    BY UnpostedIsFinite
  <2>2. posts[d] + n <= Takes(job[d]) /\ posts[d] \in Nat
    BY DEF Counted, CountRight, SafeInv, TypeOK
  <2> HIDE DEF n
  <2>3. job[d] \in Job /\ JobRight(job[d])
    BY DEF SafeInv, TypeOK, JobInv
  <2>4. Takes(job[d]) <= MaxAttempts + MaxStalled /\ Takes(job[d]) \in Nat
    BY <2>3, DeliveryAssumption DEF Takes, JobRight, Job, DeliveryAssumption
  <2> QED BY <2>1, <2>2, <2>4, DeliveryAssumption DEF DeliveryAssumption
<1> QED BY <1>1, <1>2, SafeHolds, PTL

\* Unless a lock expires under a living worker, a job does not end behind its
\* row's back, whatever else fails (webhook.worker.ts: processDelivery).
THEOREM EndedHasOutcomeHolds ==
    ASSUME "lock" \notin Faults
    PROVE  Spec => []EndedHasOutcome
<1>1. SafeInv /\ HeldInv /\ [Next]_vars => HeldInv'
  BY NextHeld
<1>2. HeldInv => EndedHasOutcome
  BY DEF HeldInv, EndedRight, EndedHasOutcome
<1> QED BY <1>1, <1>2, InitHeld, SafeHolds, PTL DEF Spec

\* Whoever reads the rows sees one outcome per delivery, which is final and
\* true, and nothing is sent after it, unless the job has stalled or its worker
\* was not told that the outcome is written:
\* row, job and workers together implement the contract (webhook.service.ts,
\* webhook.queue.ts, webhook.worker.ts), whatever goes wrong.
THEOREM ContractHolds == Spec => ContractImplemented
<1>1. Spec => []FinalInv
  BY InitFinal, NextFinal, SafeHolds, PTL DEF Spec
<1> QED BY <1>1, InitContract, NextContract, SafeHolds, PTL
        DEF Spec, ContractImplemented, Contract!ContractSpec

=============================================================================
