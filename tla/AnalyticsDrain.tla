--------------------------- MODULE AnalyticsDrain ---------------------------
(***************************************************************************)
(* The funnel events of one workspace on their way from Postgres to        *)
(* ClickHouse: FunnelIngester (core/analytics/event.ingester.ts), the      *)
(* nightly scheduler and the drain jobs (workers/analytics-drain.worker.ts,*)
(* queues/analytics-drain.queue.ts), and the two readers of the funnel     *)
(* (core/analytics/funnel.*.ts).                                           *)
(*                                                                         *)
(* Time is counted in ticks, TicksPerDay to a day.  An event's number is   *)
(* its id, and ids say nothing of the order of arrival.  A job is named by *)
(* its day, which is what its jobId is made of.  Every await of a drain    *)
(* may fail, an insert also after ClickHouse has taken the rows, and the   *)
(* worker may die.                                                         *)
(***************************************************************************)
EXTENDS Naturals, FiniteSets, FiniteSetsExt

CONSTANTS
    Events,         \* event ids
    TokenOf(_),     \* the anonymous token of an event
    NameOf(_),      \* its event_name
    MaxTime,        \* bound: the last tick
    TicksPerDay,
    Past, Future,   \* PAST_THRESHOLD_MS, FUTURE_THRESHOLD_MS
    BatchSize,      \* BATCH_SIZE
    DrainAttempts,  \* attempts of defaultJobOptions
    MaxFaults       \* bound: how often an await throws or a worker dies

ASSUME DrainAssumption ==
    /\ Events \subseteq Nat \ {0}
    /\ {MaxTime, Past, Future, MaxFaults} \subseteq Nat
    /\ {TicksPerDay, BatchSize, DrainAttempts} \subseteq Nat \ {0}

VARIABLES
    now,
    stored,       \* form_funnel_events: id and occurred_at
    deleted,      \* those the drain has deleted
    copies,       \* rows of forms.funnel_events with this event_id
    lastDrained,  \* workspace_drain_states.last_drained_at, None at first
    drain,        \* the jobs
    deleteSource, \* DRAIN_DELETE_SOURCE, the process keeps it
    due,          \* what each job's last attempt found stored in its window
    faults        \* how many there have been

drainVars == <<now, stored, deleted, copies, lastDrained, drain, deleteSource, due, faults>>

-----------------------------------------------------------------------------
Time == 0 .. MaxTime
Days == 0 .. MaxTime \div TicksPerDay

None == MaxTime + 1

\* fails: the attempt has thrown.  started counts attempts and stalls alike.
DrainJob == [state : {"none", "waiting", "active", "completed", "failed"},
             from : Time, to : Time, made : 0 .. DrainAttempts,
             stalled : BOOLEAN, started : 0 .. DrainAttempts + 1,
             step : {"read", "insert", "delete", "finish"},
             cursor : Time \X (Events \cup {0}),
             batch : SUBSET Events, fails : BOOLEAN]

NoDrainJob == [state |-> "none", from |-> 0, to |-> 0, made |-> 0, stalled |-> FALSE,
               started |-> 0, step |-> "read", cursor |-> <<0, 0>>, batch |-> {},
               fails |-> FALSE]

DrainTypeOK ==
    /\ now \in Time
    /\ stored \subseteq Events \X Time
    /\ deleted \subseteq stored
    /\ copies \in [Events -> Nat]
    /\ lastDrained \in Time \cup {None}
    /\ drain \in [Days -> DrainJob]
    /\ deleteSource \in BOOLEAN
    /\ due \in [Days -> SUBSET Events]
    /\ faults \in 0 .. MaxFaults
    /\ deleted # {} => deleteSource
    /\ \A d \in Days : \/ drain[d].state = "active"
                       \/ drain[d].batch = {} /\ drain[d].step = "read"

\* An event is one row: an id and the time it occurred at.
Ids(rows) == {r[1] : r \in rows}

Live == stored \ deleted

-----------------------------------------------------------------------------
\* ingestBatch: what is too far off is dropped and changes nothing.
Accepts(at) == at <= now + Future /\ at + Past >= now

Ingest(e, at) ==
    /\ e \notin Ids(stored)
    /\ Accepts(at)
    /\ stored' = stored \cup {<<e, at>>}
    /\ UNCHANGED <<now, deleted, copies, lastDrained, drain, deleteSource, due, faults>>

Tick ==
    /\ now < MaxTime
    /\ now' = now + 1
    /\ UNCHANGED <<stored, deleted, copies, lastDrained, drain, deleteSource, due, faults>>

-----------------------------------------------------------------------------
\* runScheduler, for a workspace whose plan has ClickHouse: from the watermark
\* or yesterday to now, one job a day.
DrainFrom ==
    IF lastDrained # None THEN lastDrained
    ELSE IF now >= TicksPerDay THEN now - TicksPerDay ELSE 0

Schedule ==
    LET d == now \div TicksPerDay
    IN  /\ drain[d].state = "none"
        /\ drain' = [drain EXCEPT ![d] = [NoDrainJob EXCEPT !.state = "waiting",
                                                 !.from = DrainFrom, !.to = now]]
        /\ UNCHANGED <<now, stored, deleted, copies, lastDrained, deleteSource, due, faults>>

-----------------------------------------------------------------------------
\* runWorkspaceDrain

InWindow(d, r) == drain[d].from <= r[2] /\ r[2] <= drain[d].to

StartDrain(d) ==
    /\ drain[d].state = "waiting"
    /\ drain' = [drain EXCEPT ![d].state = "active", ![d].step = "read",
                              ![d].cursor = <<drain[d].from, 0>>,
                              ![d].started = @ + 1, ![d].fails = FALSE]
    /\ due' = [due EXCEPT ![d] = Ids({r \in Live : InWindow(d, r)})]
    /\ UNCHANGED <<now, stored, deleted, copies, lastDrained, deleteSource, faults>>

\* Mutant: what occurred at the cursor's time counts as processed.
BeyondSkipsTies(r, cursor) == r[2] > cursor[1]

\* Mutant: the id of the cursor is not compared.
BeyondRepeatsTies(r, cursor) == r[2] >= cursor[1]

Beyond(r, cursor) == r[2] > cursor[1] \/ (r[2] = cursor[1] /\ r[1] > cursor[2])

\* The order of the rows: by occurred_at, then id.
Precedes(r, s) == r[2] < s[2] \/ (r[2] = s[2] /\ r[1] < s[1])

\* orderBy and take
FirstBatch(rows) == {r \in rows : Cardinality({s \in rows : Precedes(s, r)}) < BatchSize}

LastOf(rows) == CHOOSE r \in rows : \A s \in rows : s = r \/ Precedes(s, r)

NextBatch(d) ==
    FirstBatch({r \in Live : r[2] <= drain[d].to /\ Beyond(r, drain[d].cursor)})

\* The cursor moves to the last row of the batch; nothing reads it earlier.
ReadBatch(d) ==
    LET rows == NextBatch(d)
    IN  /\ drain[d].state = "active" /\ drain[d].step = "read"
        /\ drain' = [drain EXCEPT
              ![d].step = IF rows = {} THEN "finish" ELSE "insert",
              ![d].batch = Ids(rows),
              ![d].cursor = IF rows = {} THEN @ ELSE <<LastOf(rows)[2], LastOf(rows)[1]>>]
        /\ UNCHANGED <<now, stored, deleted, copies, lastDrained, deleteSource, due, faults>>

\* A full batch may not be the last.
AfterBatch(d) == IF Cardinality(drain[d].batch) = BatchSize THEN "read" ELSE "finish"

InsertBatch(d) ==
    /\ drain[d].state = "active" /\ drain[d].step = "insert"
    /\ copies' = [e \in Events |-> IF e \in drain[d].batch THEN copies[e] + 1 ELSE copies[e]]
    /\ drain' = IF deleteSource THEN [drain EXCEPT ![d].step = "delete"]
                ELSE [drain EXCEPT ![d].step = AfterBatch(d), ![d].batch = {}]
    /\ UNCHANGED <<now, stored, deleted, lastDrained, deleteSource, due, faults>>

\* Mutant: every event older than the cursor is deleted.
RowsToDeleteMutant(d) == {r \in stored : r[2] <= drain[d].cursor[1]}

RowsToDelete(d) == {r \in stored : r[1] \in drain[d].batch}

DeleteBatch(d) ==
    /\ drain[d].state = "active" /\ drain[d].step = "delete"
    /\ deleted' = deleted \cup RowsToDelete(d)
    /\ drain' = [drain EXCEPT ![d].step = AfterBatch(d), ![d].batch = {}]
    /\ UNCHANGED <<now, stored, copies, lastDrained, deleteSource, due, faults>>

Fault == faults < MaxFaults /\ faults' = faults + 1

\* An await throws; a failing insert may have been taken all the same.
AttemptFails(d) ==
    /\ Fault
    /\ drain[d].state = "active" /\ drain[d].step # "finish"
    /\ \/ UNCHANGED copies
       \/ /\ drain[d].step = "insert"
          /\ copies' = [e \in Events |-> IF e \in drain[d].batch THEN copies[e] + 1
                                         ELSE copies[e]]
    /\ drain' = [drain EXCEPT ![d].step = "finish", ![d].fails = TRUE, ![d].batch = {}]
    /\ UNCHANGED <<now, stored, deleted, lastDrained, deleteSource, due>>

\* What BullMQ makes of an attempt: a failed one is tried again in a while.
Ended(job, failing) ==
    [job EXCEPT !.made = @ + 1, !.step = "read", !.batch = {},
                !.state = IF ~failing THEN "completed"
                          ELSE IF job.made + 1 < DrainAttempts THEN "waiting" ELSE "failed"]

\* The finally block: an error leaves the watermark where it is.
FinishDrain(d) ==
    /\ drain[d].state = "active" /\ drain[d].step = "finish"
    /\ lastDrained' = IF drain[d].fails THEN lastDrained ELSE now
    /\ drain' = [drain EXCEPT ![d] = Ended(@, drain[d].fails)]
    /\ UNCHANGED <<now, stored, deleted, copies, deleteSource, due, faults>>

\* The upsert of the drain state throws, and the attempt with it; one with a
\* new watermark may have been committed all the same.
WatermarkFails(d) ==
    /\ Fault
    /\ drain[d].state = "active" /\ drain[d].step = "finish"
    /\ lastDrained' \in {lastDrained} \cup (IF drain[d].fails THEN {} ELSE {now})
    /\ drain' = [drain EXCEPT ![d] = Ended(@, TRUE)]
    /\ UNCHANGED <<now, stored, deleted, copies, deleteSource, due>>

\* The worker dies; its job is found stalled, and given out again once.
WorkerDies(d) ==
    /\ Fault
    /\ drain[d].state = "active"
    /\ drain' = [drain EXCEPT ![d].state = IF drain[d].stalled THEN "failed" ELSE "waiting",
                              ![d].stalled = TRUE, ![d].step = "read", ![d].batch = {}]
    /\ UNCHANGED <<now, stored, deleted, copies, lastDrained, deleteSource, due>>

-----------------------------------------------------------------------------
DrainInit ==
    /\ now = 0
    /\ stored = {} /\ deleted = {}
    /\ copies = [e \in Events |-> 0]
    /\ lastDrained = None
    /\ drain = [d \in Days |-> NoDrainJob]
    /\ deleteSource \in BOOLEAN
    /\ due = [d \in Days |-> {}]
    /\ faults = 0

DrainStep(d) ==
    \/ StartDrain(d) \/ ReadBatch(d) \/ InsertBatch(d) \/ DeleteBatch(d)
    \/ AttemptFails(d) \/ FinishDrain(d) \/ WatermarkFails(d) \/ WorkerDies(d)

DrainNext ==
    \/ \E e \in Events, at \in Time : Ingest(e, at)
    \/ Tick \/ Schedule
    \/ \E d \in Days : DrainStep(d)

DrainSpec == DrainInit /\ [][DrainNext]_drainVars

-----------------------------------------------------------------------------
\* The readers

Names == {NameOf(e) : e \in Events}

Between(rows, from, to) == {r \in rows : from <= r[2] /\ r[2] <= to}

\* COUNT(DISTINCT anonymous_token) of each event_name
PostgresFunnel(from, to) ==
    [n \in Names |-> Cardinality({TokenOf(e) : e \in
                        {i \in Ids(Between(Live, from, to)) : NameOf(i) = n}})]

\* Mutant: count() in the place of uniqExact, as in the counts of a day.
ClickHouseCounts(from, to) ==
    [n \in Names |-> MapThenSumSet(LAMBDA e : copies[e],
                        {i \in Ids(Between(stored, from, to)) : NameOf(i) = n})]

\* uniqExact(anonymous_token) of each event_name, over the rows inserted
ClickHouseFunnel(from, to) ==
    [n \in Names |-> Cardinality({TokenOf(e) : e \in
                        {i \in Ids(Between(stored, from, to)) :
                             copies[i] > 0 /\ NameOf(i) = n}})]

\* createFunnelReader, for getFormFunnel
FunnelShown(backend, from, to) ==
    IF backend = "clickhouse" THEN ClickHouseFunnel(from, to) ELSE PostgresFunnel(from, to)

\* What getDailyCounts counts: the rows of a day, of one event_name or of any.
OfDay(rows, day, name) ==
    {r \in rows : r[2] \div TicksPerDay = day /\ name \in {"any", NameOf(r[1])}}

\* COUNT(*)
PostgresDaily(from, to, day, name) == Cardinality(OfDay(Between(Live, from, to), day, name))

\* The rows of forms.funnel_events, each copy one.
CopiesOf(rows) == UNION {{r} \X (1 .. copies[r[1]]) : r \in rows}

\* count()
ClickHouseDaily(from, to, day, name) ==
    Cardinality(CopiesOf(OfDay(Between(stored, from, to), day, name)))

-----------------------------------------------------------------------------
\* Properties

\* No event is lost between the two stores: what DRAIN_DELETE_SOURCE takes
\* out of Postgres is in ClickHouse, whatever fails, dies or runs twice.
DeletedIsStored == \A r \in deleted : copies[r[1]] > 0

\* A completed job has drained its window: every event of it that was in
\* Postgres when its last attempt began, ties at the edge of a batch
\* included, though other events arrive and other jobs delete meanwhile.
DrainComplete ==
    \A d \in Days : drain[d].state = "completed" => \A e \in due[d] : copies[e] > 0

\* The attempts, and the stalls, of the jobs over a row's time.
AttemptsOver(r) ==
    {a \in Days \X (1 .. DrainAttempts + 1) : InWindow(a[1], r) /\ a[2] <= drain[a[1]].started}

\* Only a second attempt, or a second job over the same time, inserts an
\* event again: an attempt inserts none twice.  (The table keeps the copies;
\* it is a MergeTree, which replaces nothing.)
CopiesCounted == \A r \in stored : copies[r[1]] <= Cardinality(AttemptsOver(r))

\* A completed job has drained the window, and Postgres still keeps it.
WindowDrained(from, to) ==
    /\ from < to
    /\ \E d \in Days : /\ drain[d].state = "completed"
                       /\ Ids(Between(Live, from, to)) \subseteq due[d]
    /\ Between(deleted, from, to) = {}

\* A workspace sees the same funnel of such a window from either store: nothing
\* is missing, and the copies that retries have left do not count.  In the
\* counts of a day they do: ClickHouse shows no less than Postgres, and the
\* same if no event was inserted twice.
ReadersAgree ==
    \A from, to \in Time : WindowDrained(from, to) =>
        /\ FunnelShown("clickhouse", from, to) = FunnelShown("postgres", from, to)
        /\ \A day \in Days, name \in Names \cup {"any"} :
              LET shown == ClickHouseDaily(from, to, day, name)
                  kept  == PostgresDaily(from, to, day, name)
              IN  /\ kept <= shown
                  /\ (\A r \in Between(stored, from, to) : copies[r[1]] <= 1) => shown = kept

\* The reader of ClickHouse has the contract of the other one "exactly so the
\* factory can swap backends at runtime": of such a window it counts the same
\* events a day.
DailyCountsAgree ==
    \A from, to \in Time : WindowDrained(from, to) =>
        \A day \in Days, name \in Names \cup {"any"} :
            ClickHouseDaily(from, to, day, name) = PostgresDaily(from, to, day, name)

=============================================================================
