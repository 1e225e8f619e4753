------------------------------ MODULE MCFormLife ------------------------------
(***************************************************************************)
(* What happens to a form beside its versions, for TLC: the drain of its   *)
(* analytics, its experiments, the templates it comes from, its files and  *)
(* its logic.  No code couples them, so a behaviour moves one of them, the *)
(* one that subject names; checking them in one run is checking each.      *)
(***************************************************************************)
EXTENDS MCAnalyticsDrain, Experiments, Catalogue, Uploads, FormLogic, TLC

VARIABLE subject

lifeVars == <<drainVars, experimentVars, catalogueVars, uploadVars, input, subject>>

-----------------------------------------------------------------------------
\* Values of the constants

MCBucketOf(x, v) == v

Always == [var |-> "always", least |-> 1]
When(x) == [var |-> x, least |-> 1]

SeqsUpTo(S, n) == UNION {[1 .. k -> S] : k \in 0 .. n}

Page(id, fields) == [id |-> id, fields |-> fields, refs |-> {}]

ThreePages == <<Page("a", <<"f1">>), Page("b", <<"f2">>), Page("c", <<"f3">>)>>

Bare == [pages |-> ThreePages, calcs |-> <<>>, rules |-> <<>>, buckets |-> <<>>,
         actions |-> <<>>]

\* Up to two actions on pages that may be left, jumped to and skipped.
Walks ==
    LET dos == {[jump_to_page |-> p] : p \in {"a", "b", "c", "z"}}
                 \cup {[skip_pages |-> n] : n \in 1 .. 2} \cup {[skip_ids |-> {"b"}]}
        actions == [page : {"a", "b", "c"}, if : {Always, When("f1"), When("score")}, do : dos]
        rule == [if |-> When("f2"), op |-> "add", n |-> 1]
    IN  {[spec |-> [Bare EXCEPT !.actions = s, !.rules = <<rule>>], payload |-> v] :
            s \in SeqsUpTo(actions, 2), v \in [{"f1", "f2", "f3"} -> {0, 1}]}

\* Ids that repeat.
Repeats ==
    LET pages == {Page(id, f) : id \in {"a", "b", "c"},
                                f \in {<<>>, <<"f1">>, <<"f2">>, <<"f1", "f1">>, <<"f1", "f2">>}}
        skip == [page |-> "a", if |-> Always, do |-> [skip_pages |-> 1]]
    IN  {[spec |-> [Bare EXCEPT !.pages = s, !.actions = t],
          payload |-> [f \in {"f1", "f2", "f4"} |-> 1]] :
            s \in SeqsUpTo(pages, 3) \ {<<>>}, t \in {<<>>, <<skip>>}}

Scores ==
    LET rules == [if : {Always, When("f1")}, op : {"add", "set"}, n : {-1, 2}]
        buckets == [min : 0 .. 2, max : 1 .. 2]
    IN  {[spec |-> [Bare EXCEPT !.rules = r, !.buckets = b], payload |-> v] :
            r \in SeqsUpTo(rules, 2) \cup [1 .. 3 -> rules], b \in SeqsUpTo(buckets, 2),
            v \in [{"f1"} -> {0, 1}]}

\* Three calculations that refer to each other, two of one id at times, and a
\* page action on one.
Calculations ==
    LET refs == SUBSET {"f1", "c1", "c2", "c3"}
        skip == [page |-> "a", if |-> When("c2"), do |-> [skip_pages |-> 1]]
    IN  {[spec |-> [Bare EXCEPT !.calcs = [i \in 1 .. 3 |-> [id |-> names[i], refs |-> r[i]]],
                                !.actions = <<skip>>],
          payload |-> [f \in {"f1", "f2"} |-> 1]] :
            r \in [1 .. 3 -> refs],
            names \in {<<"c1", "c2", "c3">>, <<"c1", "c2", "c1">>, <<"c2", "c2", "c1">>}}

LogicInputs == {Walks, Repeats, Scores, Calculations}

Plain == [spec |-> Bare, payload |-> [f \in {"f1"} |-> 1]]

-----------------------------------------------------------------------------
Init ==
    /\ subject \in {"drain", "experiments", "catalogue", "files", "logic"}
    /\ DrainInit /\ ExperimentInit /\ CatalogueInit /\ UploadInit
    /\ IF subject = "logic" THEN LogicInit ELSE input = Plain
    /\ deleteSource => subject = "drain"

Next ==
    /\ \/ /\ subject = "drain" /\ DrainNext
          /\ UNCHANGED <<experimentVars, catalogueVars, uploadVars>>
       \/ /\ subject = "experiments" /\ ExperimentNext
          /\ UNCHANGED <<drainVars, catalogueVars, uploadVars>>
       \/ /\ subject = "catalogue" /\ CatalogueNext
          /\ UNCHANGED <<drainVars, experimentVars, uploadVars>>
       \/ /\ subject = "files" /\ UploadNext
          /\ UNCHANGED <<drainVars, experimentVars, catalogueVars>>
    /\ UNCHANGED <<input, subject>>

Spec == Init /\ [][Next]_lifeVars

LifeSymmetry == Permutations(Variants) \cup Permutations(Visits)

\* Ids that nothing tells apart are used in their order.
InOrder ==
    \A i, j \in Forms : i < j /\ form[j].state # "none" => form[i].state # "none"

\* The type invariants of the parts: also, at most one experiment of a form is
\* running, slugs are unique, and an upload is within its limit.
LifeTypeOK == DrainTypeOK /\ ExperimentTypeOK /\ CatalogueTypeOK /\ UploadTypeOK

=============================================================================
