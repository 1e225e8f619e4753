---------------------------- MODULE Experiments ----------------------------
(***************************************************************************)
(* The A/B experiments of one form: ExperimentService of                   *)
(* core/experiments/experiment.service.ts behind routes/admin/             *)
(* experiments.ts, and the assignment of a visitor when                    *)
(* routes/public/render-spec.ts serves the form.  (What the promotion of a *)
(* winner does to the form's versions is in FormVersions.)                 *)
(*                                                                         *)
(* A visitor's bucket is sha256(experiment, token) modulo the whole weight,*)
(* here a constant.  The variants of an experiment are written by one      *)
(* statement, so ordering them by created_at orders nothing: the           *)
(* assignment walks them in any order.                                     *)
(***************************************************************************)
EXTENDS Naturals, Sequences, SequencesExt, FiniteSetsExt

CONSTANTS
    Experiments,    \* of one form
    Variants,       \* of each experiment
    NoVariant,
    Visitors,       \* anonymous tokens
    Visits,         \* requests of render-spec that overlap
    Whole,          \* 10,000 basis points
    MaxPatches,     \* bound: patches of weights
    BucketOf(_, _)  \* by experiment and visitor

ASSUME ExperimentAssumption ==
    /\ Experiments # {} /\ Visitors # {}
    /\ IsFiniteSet(Variants) /\ Cardinality(Variants) >= 2
    /\ NoVariant \notin Variants
    /\ Whole \in Nat \ {0}
    /\ MaxPatches \in Nat
    /\ \A x \in Experiments, v \in Visitors : BucketOf(x, v) \in 0 .. Whole - 1

VARIABLES
    status,    \* none, draft, running or stopped
    winner,    \* winner_variant_id
    weight,    \* weight_bps of each variant
    exposure,  \* form_experiment_exposures, unique by experiment and token
    visit,     \* what each request has found out
    shown,     \* the variants a visitor has been served
    patches    \* how many there have been

experimentVars == <<status, winner, weight, exposure, visit, shown, patches>>

-----------------------------------------------------------------------------
Visit == [step : {"idle", "resolved", "assign", "upsert"}, exp : Experiments,
          visitor : Visitors, variant : Variants \cup {NoVariant}]

Positive == 1 .. Whole

ExperimentTypeOK ==
    /\ status \in [Experiments -> {"none", "draft", "running", "stopped"}]
    /\ \A x, y \in Experiments : status[x] = "running" /\ status[y] = "running" => x = y
    /\ winner \in [Experiments -> Variants \cup {NoVariant}]
    /\ weight \in [Experiments -> [Variants -> Positive]]
    /\ exposure \in [Experiments \X Visitors -> Variants \cup {NoVariant}]
    /\ DOMAIN visit = Visits
    /\ \A r \in Visits : visit[r] \in Visit
    /\ shown \in [Experiments \X Visitors -> SUBSET Variants]
    /\ patches \in 0 .. MaxPatches

-----------------------------------------------------------------------------
\* Administration

SumsToWhole(f) == MapThenSumSet(LAMBDA i : f[i], DOMAIN f) = Whole

CreateExperiment(x, f) ==
    /\ status[x] = "none"
    /\ SumsToWhole(f)
    /\ status' = [status EXCEPT ![x] = "draft"]
    /\ weight' = [weight EXCEPT ![x] = f]
    /\ UNCHANGED <<winner, exposure, visit, shown, patches>>

\* Mutant: the index is missing.
StartExperimentMutant(x) ==
    /\ status[x] # "none"
    /\ status' = [status EXCEPT ![x] = "running"]
    /\ UNCHANGED <<winner, weight, exposure, visit, shown, patches>>

\* Any experiment can be started, also one that was stopped; the partial
\* unique index refuses a second running one (409).
StartExperiment(x) ==
    /\ status[x] # "none"
    /\ \A y \in Experiments \ {x} : status[y] # "running"
    /\ status' = [status EXCEPT ![x] = "running"]
    /\ UNCHANGED <<winner, weight, exposure, visit, shown, patches>>

StopWithWinner(x, i) ==
    /\ status[x] # "none"
    /\ status' = [status EXCEPT ![x] = "stopped"]
    /\ winner' = [winner EXCEPT ![x] = i]
    /\ UNCHANGED <<weight, exposure, visit, shown, patches>>

CancelExperiment(x) ==
    /\ status[x] # "none"
    /\ status' = [status EXCEPT ![x] = "stopped"]
    /\ UNCHANGED <<winner, weight, exposure, visit, shown, patches>>

\* The body of a patch is a list: the last entry of a variant wins, entries of
\* another experiment's variants are written too, and the sum is that of the
\* entries, not of the variants.
Entry == [exp : Experiments, variant : Variants, bps : Positive]

Patched(entries, y, i) ==
    LET of == {k \in DOMAIN entries : entries[k].exp = y /\ entries[k].variant = i}
    IN  IF of = {} THEN weight[y][i] ELSE entries[Max(of)].bps

PatchExperiment(x, entries) ==
    /\ patches < MaxPatches
    /\ patches' = patches + 1
    /\ status[x] # "none"
    /\ \A k \in DOMAIN entries : status[entries[k].exp] # "none"
    /\ SumsToWhole([k \in DOMAIN entries |-> entries[k].bps])
    /\ weight' = [y \in Experiments |-> [i \in Variants |-> Patched(entries, y, i)]]
    /\ UNCHANGED <<status, winner, exposure, visit, shown>>

-----------------------------------------------------------------------------
\* A visit

IdleVisit == [step |-> "idle", exp |-> CHOOSE x \in Experiments : TRUE,
              visitor |-> CHOOSE v \in Visitors : TRUE, variant |-> NoVariant]

Leave(r) == visit' = [visit EXCEPT ![r] = IdleVisit]

\* getRunningExperimentForForm; without one the default version is served,
\* and nothing changes.
ResolveExperiment(r, x, v) ==
    /\ visit[r].step = "idle"
    /\ status[x] = "running"
    /\ visit' = [visit EXCEPT ![r] = [step |-> "resolved", exp |-> x, visitor |-> v,
                                      variant |-> NoVariant]]
    /\ UNCHANGED <<status, winner, weight, exposure, shown, patches>>

Key(r) == <<visit[r].exp, visit[r].visitor>>

Show(r, i) == shown' = [shown EXCEPT ![Key(r)] = @ \cup {i}]

\* recordExposure: the fast path.
ReadExposure(r) ==
    /\ visit[r].step = "resolved"
    /\ IF exposure[Key(r)] = NoVariant
       THEN /\ visit' = [visit EXCEPT ![r].step = "assign"]
            /\ UNCHANGED shown
       ELSE /\ Show(r, exposure[Key(r)])
            /\ Leave(r)
    /\ UNCHANGED <<status, winner, weight, exposure, patches>>

\* assignVariant: the first variant whose cumulative weight is beyond the
\* bucket, the last one if there is none.
AssignVariant(order, w, bucket) ==
    LET UpTo(k) == MapThenSumSet(LAMBDA j : w[order[j]], 1 .. k)
        beyond == {k \in DOMAIN order : bucket < UpTo(k)}
    IN  IF beyond = {} THEN Last(order)
        ELSE order[CHOOSE k \in beyond : \A j \in beyond : k <= j]

ReadWeights(r, order) ==
    /\ visit[r].step = "assign"
    /\ visit' = [visit EXCEPT ![r].step = "upsert",
           ![r].variant = AssignVariant(order, weight[visit[r].exp],
                                        BucketOf(visit[r].exp, visit[r].visitor))]
    /\ UNCHANGED <<status, winner, weight, exposure, shown, patches>>

\* Mutant: the upsert updates the variant.
UpsertedMutant(r) == visit[r].variant

\* The update of the upsert is empty: a row that is there stays.
Upserted(r) == IF exposure[Key(r)] = NoVariant THEN visit[r].variant ELSE exposure[Key(r)]

UpsertExposure(r) ==
    /\ visit[r].step = "upsert"
    /\ exposure' = [exposure EXCEPT ![Key(r)] = Upserted(r)]
    /\ Show(r, Upserted(r))
    /\ Leave(r)
    /\ UNCHANGED <<status, winner, weight, patches>>

\* A query fails: the default version is served.
ServeDefault(r) ==
    /\ visit[r].step # "idle"
    /\ Leave(r)
    /\ UNCHANGED <<status, winner, weight, exposure, shown, patches>>

-----------------------------------------------------------------------------
ExperimentInit ==
    /\ status = [x \in Experiments |-> "none"]
    /\ winner = [x \in Experiments |-> NoVariant]
    /\ weight = [x \in Experiments |-> [i \in Variants |-> 1]]
    /\ exposure = [k \in Experiments \X Visitors |-> NoVariant]
    /\ visit = [r \in Visits |-> IdleVisit]
    /\ shown = [k \in Experiments \X Visitors |-> {}]
    /\ patches = 0

ExperimentAdmin(x) ==
    \/ \E f \in [Variants -> Positive] : CreateExperiment(x, f)
    \/ StartExperiment(x) \/ CancelExperiment(x)
    \/ \E i \in Variants : StopWithWinner(x, i)
    \/ \E n \in 1 .. Cardinality(Variants) :
           \E entries \in [1 .. n -> Entry] : PatchExperiment(x, entries)

VisitStep(r) ==
    \/ \E x \in Experiments, v \in Visitors : ResolveExperiment(r, x, v)
    \/ ReadExposure(r) \/ UpsertExposure(r) \/ ServeDefault(r)
    \/ \E order \in SetToSeqs(Variants) : ReadWeights(r, order)

ExperimentNext ==
    \/ \E x \in Experiments : ExperimentAdmin(x)
    \/ \E r \in Visits : VisitStep(r)

ExperimentSpec == ExperimentInit /\ [][ExperimentNext]_experimentVars

-----------------------------------------------------------------------------
\* Properties

\* A visitor sees one variant of an experiment, and the one that the exposure
\* counts, whatever the weights become, in whatever order the variants are
\* read, and though two first visits assign side by side.
Sticky == \A k \in Experiments \X Visitors : shown[k] \subseteq {exposure[k]}

=============================================================================
