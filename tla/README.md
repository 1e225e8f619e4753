# form-api in TLA+

form-api is the backend of a form builder: admins publish versions of forms,
visitors submit them, a submission may have to be paid for, and receivers are
told of it by webhook. It is a Fastify server (`src/src/server.ts`) over
PostgreSQL (Prisma), with Redis for a quota counter and two BullMQ queues, whose
workers are processes of their own, and with Stripe, S3, an OIDC server and
ClickHouse behind it. Any number of server and worker processes run at a time:
what orders them is the database, and most handlers are a sequence of statements
without a transaction around them.

Paths below are those of the repository under `src/`; most of the program is in
`src/src/`.

## Inventory

| Component | State | Operations | Who else touches it | What is hard | What makes it correct |
|---|---|---|---|---|---|
| payments (`core/payments`, `routes/public/payment-intent.ts`, `routes/internal/stripe-webhook.ts`) | `form_payments`, by payment intent | create an intent, record a payment for a submission, reconcile an event | submit pipeline, Stripe | duplicated, late and reordered events; a status read before an await and written after it | a row says what was true; an event is applied once; it stays with its submission |
| submit pipeline (`routes/public/submit.ts`, `routes/admin/submissions.ts`) | `form_submissions` | submit, delete, restore | payments, fills, quota, files, webhooks, admins | some ten awaits, a transaction in the middle, a manual rollback after it, background tasks after the reply | accepted means paid; nothing refers to a row taken back; a refusal leaves no trace |
| submission quota and plans (`core/workspaces/plan.service.ts`) | Redis counter per month; `plans` | check, count, cap on forms, feature gates | submit pipeline, form creation | check and count lie a whole request apart | overshoot bounded by the requests that overlap; a refused submit costs nothing |
| event fills (`core/events`) | `form_events`, `form_event_fills` | mark filled, query the status | submit pipeline | resubmits | one fill per identity, of a submission that exists |
| form versions (`core/forms`, `routes/admin/versions.ts`) | `form_definitions`, `form_versions` | publish, set current, archive | experiments, templates, every public route | READ COMMITTED transactions that overlap; a counter that moves back | the current version is marked, one version is; numbers are handed out once |
| webhook delivery (`core/webhooks`, `queues/webhook.queue.ts`, `workers/webhook.worker.ts`) | `form_webhooks`, `form_webhook_deliveries`, jobs in Redis | enqueue, replay, process, retry | submit pipeline, admins | a row and a job written apart; crashes, stalled jobs, timeouts, last attempts | delivered means received; every delivery ends; POSTs are bounded |
| experiments (`core/experiments`) | `form_experiments`, variants, exposures | create, start, expose, stop with a winner, cancel, patch | versions, rendering | a status machine without guards; exposures of one visitor side by side | a visitor stays with a variant; the winner becomes current |
| billing (`core/workspaces/billing.service.ts`) | workspace's plan and Stripe ids, `billing_events` | checkout, apply a subscription event | Stripe, plans | events out of order, of unknown customers; two checkouts | the plan follows the subscription; an event is applied once |
| workspaces, members, invitations (`core/workspaces/workspace.service.ts`) | members with roles, invitations | add, remove, transfer, archive, invite, accept | every admin route | two removals; an invitation to a member | a workspace has an owner; an invitation is used once |
| sessions (`core/auth/session.ts`) | refresh tokens; roles in access tokens | issue, rotate, log out | all authenticated routes | two rotations of one token; roles that change meanwhile | one login is one live token; a token carries roles that were held |
| authentication, roles (`core/auth`, `core/rbac`, `plugins/auth.ts`) | roles, permissions, grants | edit roles, grant, check a permission | all routes | two edits of one role; static rules when the database is down | a role has the permissions of one edit; an outage opens nothing |
| analytics (`core/analytics`, `workers/analytics-drain.worker.ts`) | `form_funnel_events`, watermark per workspace, ClickHouse | ingest, drain, count | submit pipeline, rendering | a watermark written after the read; retries after the insert | every event is drained; both stores show the same |
| files (`core/files`) | `form_files`, S3 objects | presign, confirm, link | submit pipeline | links that move | a file belongs to the submission that names it |
| templates (`core/templates`) | `form_templates` | save, clone | forms | an edit during a clone | a clone is a form with version 1 |
| logic runners (`core/logic`, `core/submissions/payload.validator.ts`) | none | page traversal, scoring, calculated fields, stripping | submit pipeline | cycles, order of rules | a skipped page's fields are stripped |
| prefill tokens, audit, rendering, spec validation, workspace scoping, server, scripts | rows written once, or none | | | | |

How they interact: the submit handler is the hub. It reads the form and its current
version, asks the quota gate, replaces and inserts the submission, has the payment
recorded, links files, writes the fill, and leaves behind it the webhook enqueue,
the quota count, funnel events and audit rows. Stripe's webhook writes the
payment rows meanwhile, admins delete and restore submissions, and the webhook
worker reads deliveries, webhooks and submissions from another process. Publishing
a version, rolling back and stopping an experiment all write the same two tables.

`PROJECT.json` lists every component with its sources, and every hazard with its line.

## Modules

    Payments  <-- Submissions  <-- MCSubmissions
       ^              ^
    Payments_proofs <-- Submissions_proofs

    VersionRegister <-- FormVersions <-- FormVersions_proofs
                             ^
                      MCAdministration

    DeliveryContract <-- WebhookDelivery <-- MCWebhookDelivery
                               ^
                     WebhookDelivery_proofs

    Workspaces, Billing, Access, Permissions <-- MCAdministration <-- Access_proofs
        ^          ^
    Workspaces_proofs, Billing_proofs

    AnalyticsDrain <-- MCAnalyticsDrain <-- MCFormLife
    Experiments, Catalogue, Uploads, FormLogic <-- MCFormLife <-- FormLife_proofs

### What a submission goes through

**Payments** models `core/payments/payment.service.ts` and the payment branch of
the Stripe webhook route. `intent` and `event` are Stripe's (external): intents
move from `requires_payment_method` to authorised, captured or canceled, and an
event, once sent, stays deliverable for ever, acknowledged or not, in any order: this
is at-least-once delivery without a queue. `payment` is the table, by intent. `rec` is
`recordPaymentForSubmission` of each submit, in two steps since it awaits the
retrieve and then the upsert; `handler` is `reconcileWebhookEvent` of each webhook
request, in two steps since its `findUnique` and its `updateMany` are two
statements (they run on `this.prisma`, not on the transaction's client `tx`, and
so are not in one transaction). A handler may die before its update, which then writes nothing, or
after it, when the 200 is lost and Stripe sends the event again. One event of each type is followed per intent; the id of
an event is its type, which is why `stamp` stands for `stripe_event_id`. `applied` is a history variable: how often
an event has been applied to the row of an intent.

**Submissions** models the handler of `POST /public/forms/:slug/submit` and extends
Payments: a request on a payment form runs its own recording (`RecordPayment` is a
step of Payments' `rec` and of the request together), while Stripe and the webhook
handlers go on as in Payments. `req` has the handler's position, reply and inputs,
one step per await whose outcome another actor can change: the two gates, the
begin and the commit of the replacing transaction, the write of the stripped
payload, the payment, the rollback, the fill, the reply. `submission` and
`stored` are the row and its payload column, `fill` the fills of one event,
`counter` the Redis key, `counting` and `enqueuing` the two promises that the
reply leaves behind. The delete of an orphan meets the foreign keys
(`ON DELETE RESTRICT`) as the database does. A client's retry is a further request with the
same identity and intent.

**WebhookDelivery** models `enqueueOnSubmit`, `replayDelivery`, `updateWebhook`,
`deleteWebhook`, `enqueueWebhookDelivery` and the worker's `processDelivery`. The row
(`row`) and the job (`job`) are two stores. BullMQ is external and is modelled as the worker
uses it: a taken job is locked by its worker, a job whose lock has expired is given out
again at most `MaxStalled` times, only the holder of the lock can complete or
fail it, and `made` is `attemptsMade`. `Faults` says what goes wrong in a run:
`enqueue` (a producer dies in its loop), `database` (a query of the worker throws, and what it was to write is not
written, `ProcessThrows`, or is committed all the same and only the answer is lost, `OutcomeUntold`),
`crash` (a worker dies), `lock` (a worker that lives on loses its lock). `hit` holds the
deliveries whose add or whose last attempt a fault has struck, `untold` those of which a worker was not told
that an outcome was committed. **DeliveryContract** is what all of
it promises to who reads the rows: a delivery is asked for once, says delivered only if the receiver
took it, and has one outcome, which is final and after which nothing is sent; only if it was handed out
again, or its worker was never told of its outcome, may it be sent and settled again; what is dropped with its webhook never comes back. WebhookDelivery
implements it with `outcome <- row's status, sent <- posts, taken <- received`, and `again <-` the deliveries whose job has stalled or that are `untold`: BullMQ retries a process function that has thrown,
and the worker looks at no status before it sends.

**Uploads** models `core/files/file.service.ts`: the presigning of a URL, the browser's
PUTs into the object store (external) as long as the URL works, the two
statements of a confirmation, the linking of files by a submit and their release by a
deleted submission. `had` remembers what sizes a key has held.

### What a form is

**FormVersions** models `publishVersion` and `setCurrentVersion`, the promotion at the
end of `stopExperimentWithWinner`, which makes the same writes, and the archived
guard of the publish route. A transaction has one step per statement that reads and one commit
for all it writes, since READ COMMITTED shows a statement what was committed when it
began and hides a transaction's writes until its commit. **VersionRegister** is what
it promises from outside: a register of numbers that are handed out one after
the other. FormVersions implements it with `numbers <- published, served <- current`.

**Catalogue** models the forms as a whole and the templates they come from: creation with
a first version, the edit of slug and archive flag, deletion and duplication of forms, and creation,
update, deletion and cloning of templates. A request reads, decides and writes in
separate steps; a clone is a transaction of its own. `uses` is `form_template_uses`, which keeps
the use when the form is gone; `cloned` and `raced` exist for the property only.

**Experiments** models the life cycle of a form's experiments (create, start, stop with a
winner, cancel, patch of the weights, none of which looks at the status except where the code does)
and a visit: resolve the running experiment, read the exposure, read the weights in whatever order
the database gives them, upsert. `exposure` is the table, `shown` what a visitor was served.

**AnalyticsDrain** models the ingestion of funnel events with its two thresholds, the scheduler
that computes a window, the drain job with its batches, its optional delete, its watermark,
its retries and its one stall, and the two readers, each with its funnel and its daily counts. `copies` counts the rows an event has in
ClickHouse: the table is a `MergeTree`, which keeps copies, whatever the worker's header says of overwriting. The funnel counts
distinct tokens and does not see them; the daily counts are `count()` and do. `due` is
what was there to drain when an attempt began.

**FormLogic** holds the pure part: page traversal (`Walk`), scoring, calculations,
stripping and the publish guard (`Publishable`). A behaviour is one input that never changes, and the
invariants compare what the recursive functions compute with what a spec declares: a spec that can be published, or, for
calculations, any spec.

### Who may do what, and who pays

**Workspaces** models members, transfer, archiving and invitations of one workspace. `call`
is a request between its reads and its write; `stale` says that somebody else has written since it began to read.

**Billing** models `ensureCustomer` of checkout and portal and the handling of Stripe's
subscription and invoice events. Stripe is external: it makes customers,
changes their subscriptions and sends an event for each change, which may arrive late, twice, out of order or beside itself.

**Access** models roles with their permissions and grants (`core/rbac/role.service.ts`) and the login,
rotation and logout of sessions (`core/auth/session.ts`). A permission list is abstracted
to the edits whose rows it holds. `mixed`, `overlaps` and `during` remember what overlapped.

**Permissions** models `getAbility`: what a list of roles may do by the rows of the database or, when they cannot be
read, by the static rules, the last matching rule deciding as in CASL (external).

### Running and proving

The `MC` modules hold what TLC needs and no behaviour of their own. MCSubmissions and MCWebhookDelivery
define symmetry sets, MCAnalyticsDrain the events' tokens and names. MCAdministration and MCFormLife put together modules that share
no state: `subject` names the one that moves, so the behaviours of the run are
exactly those of the parts, one at a time, and each property sees all behaviours of its part. They also define the families of inputs, and `InOrder`,
which hands out interchangeable ids in their order and so cuts only behaviours that differ by names.
The `_proofs` modules hold theorems.

Definitions whose name ends in `Mutant`, or whose comment begins with "Mutant", are variants of the
definition below them with a bug put in; no specification uses them, and each is the
evidence that one property can tell the bug.

## Runs

All runs are exhaustive. `tlc -config <run>.cfg <module>` repeats one.

| Run | Module | Checks | Shows |
|---|---|---|---|
| Payments | Payments | StatusJustified, WebhookAppliesOnce, OwnerAndStampKept | two submits record on one intent, two handlers apply its events: rows say what was true at Stripe, an event is applied to a row once, though resent, with its 200 lost and with handlers that overlap; rows keep owner and stamp |
| PaymentsRefund | Payments | RefundReflected (violated) | succeeded, then refunded: the refund is answered with 200 and lost |
| SubmitPaid | MCSubmissions | AcceptedIsPaid, NothingDangles, RefusedLeavesNoRow | two submits of one identity on a payment form, a webhook handler, an admin's delete, crashes and failing updates |
| SubmitPlain | MCSubmissions | DownstreamSeesVisible, CounterNotAhead, QuotaOvershootBounded | three submits of two identities, two at a time, without payment, with every kind of failure |
| SubmitReplaceRefused | MCSubmissions | RefusedResubmitKeepsPrior (violated) | an accepted submission is replaced by one that is then refused |
| VersionsRace | FormVersions | AtMostOneCurrent (violated) | a publish and a set-current that overlap leave two versions marked |
| VersionsRollback | FormVersions | PublishFindsFreeNumber (violated) | publish, publish, set current to 1: the next publish computes 2 |
| Delivery | MCWebhookDelivery | EndedHasOutcome | two webhooks, one with a broken secret, two deliveries, a replay, two workers, admins, crashes and errors |
| DeliveryEnds | WebhookDelivery | PostsBounded, ContractImplemented, JobsEnd, DeliveriesSettle | one delivery, two workers, three attempts, all failures, expired locks included, outcomes committed unheard too, under fairness |
| Administration | MCAdministration | OwnerRemains, InvitationUsedOnce; EventAppliesOnce, PlanFollowsSubscription, PaidPlanWasSold, CustomerIsKnown; PermissionsOfOneEdit, SessionsConserved, RolesHeldMeanwhile; OutageOpensNothing, OnlyDenialsDependOnOrder; CurrentIsMarked, VersionsContiguous, RegisterImplemented | two membership requests; two checkouts, two deliverers and three events; two role edits; two session requests and three tokens; every list of up to three of four roles; three overlapping version requests, three versions |
| FormLife | MCFormLife | LifeTypeOK; DeletedIsStored, DrainComplete, CopiesCounted, ReadersAgree; Sticky; UsedTemplateStays; ConfirmedWasStored; WalkFollowsActions, ScoreIsDeclared, CalcsInOrderEvaluate, SkippedAreStripped | drain jobs of two days; two experiments under two visits; two forms and a template; two files; families of small specs with all payloads |
| DailyCounts | MCAnalyticsDrain | DailyCountsAgree (violated) | an insert whose attempt fails afterwards is repeated by the retry: ClickHouse counts the event twice, Postgres once |

A type invariant that is proved for all values of the constants is not also put in a run.
LifeTypeOK is the one that is: it carries what types do not, such as one running experiment
at most and unique slugs.

The passing properties, and why each could fail:

- *StatusJustified*: both writers write what they learned earlier. A recording that
  read `succeeded` may write after the refund; a handler may apply an old event. The property asks that what a row says was true
  once, and so permits the older status to win; no doc says which should.
- *WebhookAppliesOnce*: check and write are two statements, the update may commit and its 200 be lost, and two handlers may hold one
  event. What saves it is the condition on `stripe_event_id` in the update itself. It speaks of one event, not of
  two different ones: a refund that were applied after the success would not break it.
- *OwnerAndStampKept*: a retry's upsert meets the row of the first submit, or one stamped meanwhile.
- *AcceptedIsPaid, NothingDangles, RefusedLeavesNoRow*: the row is committed before the
  payment is checked, so a refusal has to take it back, against foreign keys and with an upsert
  that may have committed although its answer was lost.
- *DownstreamSeesVisible*: the payload is stored raw and stripped by a second write.
- *CounterNotAhead, QuotaOvershootBounded*: the counter moves after the reply, and the gate reads it
  before everything else. The quota is exact when requests do not overlap
  (`MaxBusy = 1`) and overshot by at most the number that do, less one.
- *CurrentIsMarked, VersionsContiguous, RegisterImplemented*: counter and marks are separate
  columns of separate rows, and the number of a publish is computed from a counter which
  rollbacks move.
- *ContractImplemented, EndedHasOutcome*: two workers may work on one delivery after a
  crash, an outcome may be committed without its worker being told, rows are deleted under them, and row and job are written apart.
- *DeliveriesSettle, PostsBounded, JobsEnd*: attempts count from 0, throws and
  returns drive the queue, stalls are counted beside attempts.
- *OwnerRemains, InvitationUsedOnce*: owners are counted and invitations read in one statement and written in another.
  Requests that overlap do break both (two removals can lose the last owner); the
  properties say that nothing else does. An invitation of a sole owner demotes it, which neither forbids.
- *EventAppliesOnce, PlanFollowsSubscription, PaidPlanWasSold, CustomerIsKnown*: two deliveries of an event both pass the
  idempotency check at READ COMMITTED, and only the unique key of the record, written in the transaction of the effect, stops the second. Nothing compares the times of events, so the plan follows the
  subscription only if events arrive in order. Two checkouts can leave one customer unknown, whose
  events are refused for ever; CustomerIsKnown says that nothing else can, as the customer is saved before anybody can subscribe with it.
- *PermissionsOfOneEdit*: an edit deletes the rows it sees and adds its own; what overlaps stays beside it.
- *SessionsConserved, RolesHeldMeanwhile*: a rotation reads the token, revokes it, reads the roles and
  issues a new token; two of them, a logout or a revocation of a role may fall between.
- *OutageOpensNothing, OnlyDenialsDependOnOrder*: static rules of several roles are applied one after the other, so that an
  `editor`'s denials lift a `super-admin`'s permissions when it comes later. A row for any of the roles
  replaces the static rules altogether.
- *DeletedIsStored, DrainComplete, CopiesCounted, ReadersAgree*: an attempt may die between the insert into ClickHouse, the delete
  and the watermark; other jobs delete what it is about to read; events of one millisecond lie on both sides of the
  edge of a batch; a retry inserts again. ReadersAgree has, for a window that was drained and not deleted, equal funnels, and daily counts of
  ClickHouse that are never below those of Postgres and equal if no event of the window was inserted twice. That they are always equal is DailyCountsAgree, which fails.
- *Sticky*: weights are patched, variants come in any order and two first visits assign side by side; what saves it is that the visit serves what the upsert
  returns.
- *UsedTemplateStays*: the count of uses and the write it allows are apart, and deleting the form must not free the template.
- *ConfirmedWasStored*: the browser may put another object between `HeadObject` and the confirmation.
- *WalkFollowsActions, ScoreIsDeclared, CalcsInOrderEvaluate, SkippedAreStripped*: the runners are loops with early exits; jumps make
  cycles, ids may repeat on several pages, a `set` forgets what was added before it, calculations may refer forward or to themselves.

## Findings

Each is a run that TLC refutes; the quoted lines are in `PROJECT.json`.

1. **A refund after a success is lost.** The update for `charge.refunded` carries
   `stripeEventId: null` in its condition (`core/payments/payment.service.ts:272`), which is
   false once `payment_intent.succeeded` has stamped the row.
2. **A refused resubmit loses the accepted submission.** The replacing transaction
   has committed the soft delete before the payment is checked, and the rollback
   deletes the new row only (`routes/public/submit.ts:260`).
3. **Two versions stay current.** Each of two overlapping transactions, in the trace a publish and a set-current,
   matches the marks it saw and adds its own (`core/forms/version.service.ts:124`).
4. **No publish after a rollback.** `currentVersion + 1` is the number of an
   existing version (`core/forms/version.service.ts:44`), and the unique index refuses it every time.
   VersionsContiguous and the refinement hold for that very reason: nothing is overwritten.
5. **Daily counts double after a retry.** `getDailyCounts` of the ClickHouse reader is `count()`
   (`core/analytics/funnel.clickhouse.ts:168`) over a table that keeps copies, and a retry of a drain inserts again what was
   inserted: the reader that is to match Postgres's exactly does not.

Met while modelling, and kept in the models as the code has them, without a run:

- The worker's header has a row marked failed in a "final catch" (`workers/webhook.worker.ts:19`), which does not exist: an
  error of the database in the last attempt leaves the row pending. EndedHasOutcome and DeliveriesSettle except
  exactly those deliveries (`hit`).
- The drain's header has ClickHouse replace copies; the table keeps them. The funnels agree all the same, because they count distinct
  tokens; the daily counts do not (finding 5).
- Postgres's reader puts a query, `$queryRaw`, where a fragment of SQL is meant (`core/analytics/funnel.service.ts:72`, `:166`). Whether the client accepts
  it the sources do not say; PostgresFunnel and PostgresDaily are what the statements spell out.
- Billing's header promises that a duplicate delivery whose INSERT violates the unique key returns `{ idempotent: true }`
  (`core/workspaces/billing.service.ts:11`). Nothing catches the violation: of two deliveries side by side the second is answered with an
  error (`AppliedBeside`). Only a later one, which finds the record, is told so. No state is applied twice (EventAppliesOnce).
- An event of an unknown customer is recorded with a null workspace (`core/workspaces/billing.service.ts:229`), which the column does not take: it is answered
  with an error, not ignored (`UnknownCustomer`).
- A delivery whose outcome was committed while the answer was lost is sent again and its row overwritten, a delivered one too: the worker
  does not gate on the status (`workers/webhook.worker.ts:42`).
- A drain's window ends when its job was made, and the next begins at the watermark, the time the job
  ended: what occurs between and is not yet stored when the job reads is in no window. DrainComplete speaks of windows.
- The publish guard takes a `skip_pages` that lists page ids, which the runner ignores, and does not
  look into the conditions of actions.
- A subscription event whose price no plan has keeps the plan that was there, as one without a price does (in the model they are one).
- A file that is linked to one submission can be linked to another by a later submit that names it.
- The cap on forms is never reached: its gate asks for a workspace that the request on that route does not carry.

## Bounds

- `Submissions`, `Intents`, `Handlers`, `Admins`, `Workers`, `Deliveries`, `Webhooks`, `Callers`, `Editors`, `Clients`, `Visits`,
  `Requests`: two or three of what interferes, one of what is only the object of the interference. Every race in
  the code is between two actors; three submits and three version requests let a third
  one run into what two have left, and so do three accounts, edits and tokens.
- `MaxBusy` bounds the requests in progress, the INCR behind their reply included: 2 with three
  submits, so that the third can begin before or after the others end. It is a
  parameter of QuotaOvershootBounded too.
- `Quota` is 1 where the gate matters, so that it closes within the run.
- Version requests are three (`Admins`), the third of which meets what two that overlapped have left. `MaxVersion` is 3: a rollback needs two versions and the publish after it a third.
- `MaxAttempts` is 2 or 3 for the code's 8: a first, a middle and a last attempt.
  `MaxStalled` is 1, BullMQ's default.
- `MaxEvents` is 3: a purchase, a change and a cancellation, in every order of arrival.
- The drain has two events, two days of one tick each (so that windows meet), `BatchSize` 1 (so
  that every batch is full and ties lie on its edge), two attempts and one fault. The theorems have no such bounds.
- `Whole` is 3 for 10,000 basis points: two variants, each with the smaller or the greater part; `MaxPatches` is 1, a change of weights between two visits.
- Sizes of files are 1 to 3 with the limit at 2: within, at and beyond it.
- Specs have up to three pages, two actions, three rules, two buckets and three calculations, varied in four
  families (walks, repeated ids, scores, calculations, also two of one id), each with all payloads of its fields.
- Permissions: all lists of up to three of four roles, in every order, with three contents of the table per role.
- Symmetry: request ids in the runs of `MCSubmissions`, rows and workers in Delivery, accounts in Administration, variants
  and visits in FormLife. The action properties of the last two treat these ids alike; runs with liveness use none.
- SubmitPaid leaves out the fault `delete` (an error of the rollback's delete, which the code
  swallows): with it RefusedLeavesNoRow fails at once and by design. NothingDangles and
  AcceptedIsPaid are proved for all faults.
- A run's actions may all be over (every request answered, every id used): such runs say
  `CHECK_DEADLOCK FALSE`. In Payments some action is always enabled, and its run checks for deadlock.

## Fairness

Only WebhookDelivery has liveness properties. Weak fairness is assumed of the
requests that make deliveries (a Node process goes on with a handler it has begun), of the process
function of a worker, of taking a waiting job by some worker, of the end
of a backoff and of the expiry of a dead worker's lock (Redis's clock and BullMQ's stalled check). Nothing is assumed
of admins, of crashes, of the receiver's answers, or of a lock that is lost while its
worker lives. JobsEnd and DeliveriesSettle are checked with all faults; DeliveriesSettle excepts the deliveries that a fault
struck at their add or in their last attempt, for which nothing in the code provides.

The other modules have none: a submit, a drain or a rotation may stop anywhere, and what should happen eventually
(a lost INCR, a drain that has failed) the code does not promise. Stripe's resending is Stripe's.

## Proofs

`tlapm <module>` checks each; no step is left open. The assumptions are those
named in the modules (`...Assumption`), which say that sentinels are not members, bounds are numbers, that there is an experiment, a visitor and
a file, that lists of roles are lists, that specs have the shape the schema gives them (`IsSpec`), and, where a proof counts,
that `Submissions`, `Tokens`, `Workers` and `Variants` are finite. Two theorems suppose more, in their statements:
EndedHasOutcomeHolds that no lock expires under a living worker (`"lock" \notin Faults`; one that lost its lock may write
`pending` after the end), RefusedLeavesNoRowHolds that the rollback's delete does not fail (`"delete" \notin Faults`). Otherwise the theorems
hold for any number of actors, rows and versions and for any `Faults`.

- **Payments_proofs**: PayTypeOK, StatusJustified, OwnerAndStampKept, WebhookAppliesOnce. StatusJustified is not
  inductive: it says nothing of what a recording or a handler has in its hands. `PayInv` adds that a
  status that was read is still compatible with the intent (*SeenHolds*), that a
  dispatched event was sent (*DispatchedSent*) and that a succeeded event means a succeeded
  intent (*SentMeans*). For WebhookAppliesOnce it says that an event which was applied stands on its row as the stamp, and nothing but the stamp
  was applied (*AppliedIsStamp*): a stamp stays, and with it the row refuses every later update. OwnerAndStampKept follows from the type invariant step by step.
- **Submissions_proofs**: all six properties of its passing runs. `SubInv` carries
  Payments' invariant along, and what a request's position says of its payment (*PaidSteps*: from
  the gate on it has an intent, at the reply it has a row and a settled intent) and of its
  submission (*RowThere*: from the commit to the answer the row is there, and so is any that
  something refers to). Every step of Payments is covered by the lemmas of Payments_proofs. `UseInv` counts: the counter is the number of
  requests whose INCR has run, and those through the gate are at most `Quota + MaxBusy - 1`, because whoever passes it finds
  fewer than `Quota` counted and all others among the busy (lemma PassUse). `RefusedInv` says that a recording short of the
  upsert has no payment, so that the rollback of a rejected one meets no reference.
- **FormVersions_proofs**: VersionsTypeOK, CurrentIsMarked, VersionsContiguous, and the refinement
  RegisterImplemented. A publish commits a number read earlier; *TargetFollows* says that the number
  below it is published since, *CurrentPublished* that the counter shows a published number.
  With the unique index, a number that commits is higher than all others
  (lemma NextIsHighest), which is the register's Append.
- **WebhookDelivery_proofs**: TypeOK, DeliveredWasReceived, PostsBounded, EndedHasOutcome, and the refinement ContractImplemented. `SafeInv` says that a job is added
  once, to a row without one, that its attempts and stalls are within their limits, and that an answer a worker has in its hands was given.
  PostsBounded needs a count (*Counted*): POSTs so far and those that may follow from jobs taken are at most attempts and stalls together.
  EndedHasOutcome needs that a worker is alone with its delivery (lemma Alone, from the lock), so that the row is
  still what it wrote when it reports. The refinement holds for all faults, expired locks included: `FinalInv` says that a delivery
  which never stalled, and of whose outcome its worker was told, is with one worker, the lock's, and that its row is undecided as long as an attempt is to come, so that an outcome is the end of it;
  any other is in `again`, where the contract allows what a second worker or attempt does.
- **Workspaces_proofs**: OwnerRemains, InvitationUsedOnce. *FreshReads*: what a request has read, and
  nobody has written beside, is still so.
- **Access_proofs**: SystemRolesIntact, PermissionsOfOneEdit, SessionsConserved, RolesHeldMeanwhile. SessionsConserved is a sum per login: a
  rotation that revoked a live token puts one in its place, one that did not is an overlap (*TokensInv*). OutageOpensNothing and
  OnlyDenialsDependOnOrder are proved of any lists of roles and any rows: what decides is the last matching rule of a list of rules,
  and of that only whether it is one of the editor's denials depends on the order.
- **Billing_proofs**: the four properties of Billing. *LedgerInv*: what changed the plan is recorded, once, and the last of it gave the plan; *StripeInv*:
  the last change sent is what is subscribed; a single customer is saved before a subscription of its is sent, so that no event of its is unknown (*OneInv*). PlanFollowsSubscription joins them: applied in order and
  completely, the last applied is the last sent.
- **FormLife_proofs**: all twelve properties of its run. Each part has its own invariant and type theorem; *EachPart* says that a
  behaviour of the whole is one of each part, which gives LifeTypeOK.
  The drain is the hard part. Rows are ordered by time and id
  and a batch is those of rank below `BatchSize`; ranks are a bijection (RankOnto, by counting), so what does not fit comes after the last of a full batch (BatchIsFull),
  and an empty batch means that nothing is left. `DrainInv` then says of every event an attempt owes (*Owed*) that it is stored, in
  the batch, or ahead of the cursor while a further batch is certain; DrainComplete and DeletedIsStored follow. For CopiesCounted *CountInv* bounds the copies of an event by
  the attempts that have passed it, since an attempt's cursor does not turn back. ReadersAgree follows from DrainComplete: a window that is completely
  stored has the same distinct tokens on both sides, and of each of its rows one copy or more (*CopiesOfRows*, by counting).
  Sticky, ConfirmedWasStored and UsedTemplateStays need what a request holds between its read and its write.
- The four properties of **FormLogic**, also in FormLife_proofs, are about recursive functions, of which the provers know only that they were chosen to satisfy their
  equation. That functions exist which do is proved first (*Iteration*, from the least place at which one would fail; *UpTo* is induction over
  places in a sequence, by the same argument). SkippedAreStripped then uses that a published spec has each field on one page.
  ScoreIsDeclared follows the score up to each rule from the last matching `set` (*ScoreOfMatching*), and *OneBucket* that buckets do not overlap.
  CalcsInOrderEvaluate looks at the first calculation that would break it; it holds of every spec, published or not. WalkFollowsActions has a loop whose length is not given: *WalkInv* says
  that the pages visited so far are different and follow one another, hence are no more than there are pages, and the turns that
  the model gives the walk, one per page and one to end, suffice (*WalkEnds*, a pigeonhole).

Only model-checked are the liveness properties, JobsEnd and DeliveriesSettle: TLAPS does not reach liveness under fairness. Every other property
of a passing run is stated by a theorem.

## Not modelled

In the modelled components: logging, funnel events of a submit and audit rows (written and never read
back into a decision), the text of replies, rate limits, the plan cache (a
quota that changes during a run), the change of month, Stripe Connect accounts, signing
and sealing (a webhook whose secret cannot be opened is a member of `Broken`), the creation of webhooks
and the rotation of secrets. Canceled intents have an event the service has no case for. `dispatch`
and `recordOutcome` of the webhook service have no caller. Formulas are sums and references, conditions one comparison: the parser
of expressions and the operators are not modelled. An object always has a size, so that a `HeadObject` without a length, for which
`confirmUpload` skips its check, does not occur. `Schedule` reads the time and the watermark and adds the job in one step, `ReadOwners` makes its two reads in one. The buckets of visitors are given, not hashed. Conversion rates and the
breakdown by variant are arithmetic over what FunnelShown returns.

Components without a module, with the reason in `PROJECT.json`: plans and caps (rows edited one by one, a gate that is
never reached), prefill tokens, audit log, workspace scoping (a filter on every query), payments admin (lists), server and configuration,
scripts and seed data. The verification of OIDC, service and break-glass tokens is cryptography over one
request. The shape of a spec's JSON is a schema.

## What is left

1. An abstract contract of a submission, accepted or refused, which Submissions implements.
2. Events and their fills with event creation and deletion, and the plan cache, if a decision comes to depend on them.
