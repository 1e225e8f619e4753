----------------------------- MODULE FormLogic -----------------------------
(***************************************************************************)
(* What a published spec does to a payload: the calculations (core/logic/  *)
(* calc.runner.ts), the score (scoring.runner.ts), the pages visited       *)
(* (action.runner.ts), the fields stripped (core/submissions/              *)
(* payload.validator.ts); and what may be published: the guard             *)
(* (core/forms/publish-guard.ts) and the semantic part of the schema.      *)
(*                                                                         *)
(* All of it is pure.  A behaviour is one input, a spec and a payload,     *)
(* that never changes.  Ids are strings.  A formula is the set of ids it   *)
(* adds up; a condition compares one variable with a number, and is the    *)
(* variable "always" when there is none.                                    *)
(***************************************************************************)
EXTENDS Integers, Sequences, SequencesExt, FiniteSetsExt

CONSTANT Inputs   \* families of inputs: sets of pairs of a spec and a payload

VARIABLE input

declared == input.spec
payload == input.payload   \* numbers, by the field ids submitted

-----------------------------------------------------------------------------
(***************************************************************************)
(* A spec has                                                              *)
(*   pages    sequence of [id, fields, refs], the fields a sequence of ids *)
(*            and refs what its show_ifs refer to                          *)
(*   calcs    sequence of [id, refs]                                       *)
(*   rules    sequence of [if, op, n], op "add" or "set"                   *)
(*   buckets  sequence of [min, max]                                       *)
(*   actions  sequence of [page, if, do], do a record [jump_to_page],      *)
(*            [skip_pages] or [skip_ids], the list form of skip_pages      *)
(* and a condition is a record [var, least].                               *)
(***************************************************************************)
\* What the schema says of the shape of a spec.
IsSpec(s) ==
    /\ s.pages \in Seq(Range(s.pages)) \ {<<>>}
    /\ \A p \in Range(s.pages) : p.fields \in Seq(Range(p.fields))
    /\ s.calcs \in Seq(Range(s.calcs))
    /\ s.rules \in Seq(Range(s.rules)) /\ \A r \in Range(s.rules) : r.n \in Int
    /\ s.buckets \in Seq([min : Int, max : Int])
    /\ s.actions \in Seq(Range(s.actions))
    /\ \A a \in Range(s.actions) :
          /\ DOMAIN a.do \in {{"jump_to_page"}, {"skip_pages"}, {"skip_ids"}}
          /\ "skip_pages" \in DOMAIN a.do => a.do.skip_pages \in Nat \ {0}

ASSUME LogicAssumption == \A family \in Inputs : \A x \in family : IsSpec(x.spec)

PageIds(s) == {p.id : p \in Range(s.pages)}
FieldIds(s) == UNION {Range(p.fields) : p \in Range(s.pages)}
CalcIds(s) == {c.id : c \in Range(s.calcs)}

-----------------------------------------------------------------------------
\* calc.runner: every calculation is compiled with the rows known so far, its
\* own included, so a later one's id stays a name, which HyperFormula answers
\* with an error; so is a circle.  Errors spread, and null stands for them; a
\* number is a sequence of one.
Null == <<>>

NumberOf(v, id) == IF id \in DOMAIN v THEN v[id] ELSE 0

\* Mutant: the rows are known before the first formula is compiled.
CompiledMutant(s, i) == {j \in DOMAIN s.calcs : s.calcs[j].id \in s.calcs[i].refs}

\* The rows that the ids of formula i are replaced by: fields come first, and of
\* two calculations with one id the map has the later.
Compiled(s, i) ==
    {j \in 1 .. i : /\ s.calcs[j].id \in s.calcs[i].refs \ FieldIds(s)
                    /\ \A k \in j + 1 .. i : s.calcs[k].id # s.calcs[j].id}

Uncompiled(s, i) ==
    s.calcs[i].refs \ (FieldIds(s) \cup {s.calcs[j].id : j \in Compiled(s, i)})

FormulaSum(s, v, i, before) ==
    MapThenSumSet(LAMBDA f : NumberOf(v, f), s.calcs[i].refs \cap FieldIds(s))
      + MapThenSumSet(LAMBDA j : before[j][1], Compiled(s, i) \cap DOMAIN before)

\* What the next formula comes to, after the results before it.
Result(s, v, before) ==
    LET i == Len(before) + 1
        rows == Compiled(s, i)
        broken == \/ Uncompiled(s, i) # {} \/ i \in rows
                  \/ \E j \in rows \cap DOMAIN before : before[j] = Null
    IN  IF broken THEN Null ELSE <<FormulaSum(s, v, i, before)>>

CalcResults(s, v) ==
    LET results[n \in 0 .. Len(s.calcs)] ==
          IF n = 0 THEN <<>> ELSE Append(results[n - 1], Result(s, v, results[n - 1]))
    IN  results[Len(s.calcs)]

\* What conditions see: calculations take precedence over fields, the unknown
\* and null compare like 0.
DataOf(s, v) ==
    LET calcs == CalcResults(s, v)
        Row(id) == Max({j \in DOMAIN s.calcs : s.calcs[j].id = id})
    IN  [id \in CalcIds(s) \cup DOMAIN v |->
            IF id \notin CalcIds(s) THEN v[id]
            ELSE IF calcs[Row(id)] = Null THEN 0 ELSE calcs[Row(id)][1]]

Holds(c, data) == c.var = "always" \/ NumberOf(data, c.var) >= c.least

-----------------------------------------------------------------------------
\* scoring.runner

\* Mutant: a set adds.
ApplyRuleMutant(total, r, data) == IF ~Holds(r.if, data) THEN total ELSE total + r.n

ApplyRule(total, r, data) ==
    IF ~Holds(r.if, data) THEN total
    ELSE IF r.op = "set" THEN r.n ELSE total + r.n

ScoreTotal(s, data) ==
    LET total[n \in 0 .. Len(s.rules)] ==
          IF n = 0 THEN 0 ELSE ApplyRule(total[n - 1], s.rules[n], data)
    IN  total[Len(s.rules)]

InBucket(b, total) == b.min <= total /\ total <= b.max

\* The first bucket that the total is in; 0 if there is none.
ScoreBucket(s, total) == SelectInSeq(s.buckets, LAMBDA b : InBucket(b, total))

-----------------------------------------------------------------------------
\* action.runner

\* Of two pages with one id the map keeps the later.
PageIndex(s, id) ==
    LET at == {i \in DOMAIN s.pages : s.pages[i].id = id}
    IN  IF at = {} THEN 0 ELSE Max(at)

Smaller(m, n) == IF m < n THEN m ELSE n

\* Mutant: the page's last matching action wins.
NextPageMutant(s, at, data) ==
    LET Fits(a) == a.page = s.pages[at].id /\ Holds(a.if, data) /\ "skip_ids" \notin DOMAIN a.do
        k == SelectLastInSeq(s.actions, Fits)
    IN  IF k = 0 THEN at + 1
        ELSE IF "jump_to_page" \in DOMAIN s.actions[k].do
        THEN PageIndex(s, s.actions[k].do.jump_to_page)
        ELSE Smaller(at + 1 + s.actions[k].do.skip_pages, Len(s.pages) + 1)

\* The first action that holds and is understood decides; the list form of
\* skip_pages is not, and a jump to an unknown page decides for the next one.
NextPage(s, at, data) ==
    LET Fits(a) == a.page = s.pages[at].id /\ Holds(a.if, data) /\ "skip_ids" \notin DOMAIN a.do
        k == SelectInSeq(s.actions, Fits)
    IN  IF k = 0 THEN at + 1
        ELSE LET do == s.actions[k].do
             IN  IF "skip_pages" \in DOMAIN do
                 THEN Smaller(at + 1 + do.skip_pages, Len(s.pages) + 1)
                 ELSE IF PageIndex(s, do.jump_to_page) = 0 THEN at + 1
                      ELSE PageIndex(s, do.jump_to_page)

\* One turn of the loop: w is the walk so far, at the page it is on.
WalkOn(s, w, data) ==
    IF w.ended THEN w
    ELSE IF w.at > Len(s.pages) THEN [w EXCEPT !.ended = TRUE]
    ELSE IF s.pages[w.at].id \in Range(w.visited) THEN [w EXCEPT !.ended = TRUE, !.cycle = TRUE]
    ELSE [w EXCEPT !.visited = Append(@, s.pages[w.at].id), !.at = NextPage(s, w.at, data)]

\* computeVisitedPages: a turn for each page, and one to end.
Walk(s, data) ==
    LET walk[n \in 0 .. Len(s.pages) + 1] ==
          IF n = 0 THEN [at |-> 1, visited |-> <<>>, cycle |-> FALSE, ended |-> FALSE]
          ELSE WalkOn(s, walk[n - 1], data)
    IN  walk[Len(s.pages) + 1]

\* What the conditions of actions see: the data of the whole payload, of the
\* pages that turn out to be skipped too, and the score.
ActionData(s, v) ==
    LET data == DataOf(s, v)
    IN  [id \in DOMAIN data \cup {"score"} |->
            IF id = "score" THEN ScoreTotal(s, data) ELSE data[id]]

\* stripSkippedFields
Sanitized(s, v) ==
    LET visited == Range(Walk(s, ActionData(s, v)).visited)
        \* the page of a field; of two, the later
        PageOf(f) == s.pages[Max({i \in DOMAIN s.pages : f \in Range(s.pages[i].fields)})].id
    IN  {f \in DOMAIN v : f \in FieldIds(s) /\ PageOf(f) \in visited}

-----------------------------------------------------------------------------
\* The guard of a publish: the kinds of errors that it finds.

\* Mutant: a field id may not repeat on its page only.
RepeatedFieldMutant(s) ==
    \E i \in DOMAIN s.pages : ~IsInjective(s.pages[i].fields)

RepeatedField(s) ==
    \E i, j \in DOMAIN s.pages :
       \E k \in DOMAIN s.pages[i].fields, l \in DOMAIN s.pages[j].fields :
          <<i, k>> # <<j, l>> /\ s.pages[i].fields[k] = s.pages[j].fields[l]

RepeatedPage(s) == ~IsInjective([i \in DOMAIN s.pages |-> s.pages[i].id])

EmptyPage(s) == \E p \in Range(s.pages) : p.fields = <<>>

UnknownFieldRef(s) == \E p \in Range(s.pages) : ~(p.refs \subseteq FieldIds(s))

\* A formula may name any calculation, in whatever order they are declared.
UnknownFormulaRef(s) ==
    \E c \in Range(s.calcs) : ~(c.refs \subseteq FieldIds(s) \cup CalcIds(s))

\* Mutant: the targets of actions are not looked up.
UnknownPageRefMutant(s) == \E a \in Range(s.actions) : a.page \notin PageIds(s)

UnknownPageRef(s) ==
    \E a \in Range(s.actions) :
        \/ a.page \notin PageIds(s)
        \/ "jump_to_page" \in DOMAIN a.do /\ a.do.jump_to_page \notin PageIds(s)
        \/ "skip_ids" \in DOMAIN a.do /\ ~(a.do.skip_ids \subseteq PageIds(s))

UnknownScoreRef(s) ==
    \E r \in Range(s.rules) :
        r.if.var \notin {"always", "score"} \cup FieldIds(s) \cup CalcIds(s)

\* Mutant: buckets may share an end.
OverlapMutant(b, c) == b.min < c.max /\ c.min < b.max

Overlap(b, c) == b.min <= c.max /\ c.min <= b.max

OverlappingBuckets(s) ==
    \E i, j \in DOMAIN s.buckets : i < j /\ Overlap(s.buckets[i], s.buckets[j])

Publishable(s) ==
    /\ ~RepeatedPage(s) /\ ~RepeatedField(s) /\ ~EmptyPage(s)
    /\ ~UnknownFieldRef(s) /\ ~UnknownFormulaRef(s)
    /\ ~UnknownPageRef(s) /\ ~UnknownScoreRef(s) /\ ~OverlappingBuckets(s)

-----------------------------------------------------------------------------
LogicInit == \E family \in Inputs : input \in family

-----------------------------------------------------------------------------
\* Properties, of every spec that can be published

\* The pages visited are those that the actions say: the walk starts at the
\* first page, goes from each page to where its first applicable action
\* sends it, to the page that is named if it is a jump, visits none twice,
\* and ends past the last page or at a page it has visited before.
WalkFollowsActions ==
    LET data == ActionData(declared, payload)
        w == Walk(declared, data)
        v == [k \in DOMAIN w.visited |-> PageIndex(declared, w.visited[k])]
        end == Len(declared.pages) + 1
        Applies(k, i) == /\ declared.actions[k].page = declared.pages[i].id
                         /\ Holds(declared.actions[k].if, data)
                         /\ "skip_ids" \notin DOMAIN declared.actions[k].do
        Decides(k, i) == Applies(k, i) /\ \A j \in 1 .. k - 1 : ~Applies(j, i)
        Sends(i, j) ==
            \/ \E k \in DOMAIN declared.actions :
                 /\ Decides(k, i)
                 /\ LET do == declared.actions[k].do
                    IN  IF "skip_pages" \in DOMAIN do THEN j = Smaller(i + 1 + do.skip_pages, end)
                        ELSE j \in DOMAIN declared.pages /\ declared.pages[j].id = do.jump_to_page
            \/ j = i + 1 /\ \A k \in DOMAIN declared.actions : ~Applies(k, i)
        Ends(i) == IF w.cycle THEN \E j \in Range(v) : Sends(i, j) ELSE Sends(i, end)
    IN  Publishable(declared) =>
          /\ v # <<>> /\ Head(v) = 1 /\ IsInjective(v)
          /\ \A k \in 1 .. Len(v) - 1 : Sends(v[k], v[k + 1])
          /\ Ends(Last(v))

\* The score is the last matching set, or nothing, and every matching add
\* after it; and a total is in one bucket at most, so that the order of the
\* buckets does not matter.
ScoreIsDeclared ==
    LET data == DataOf(declared, payload)
        total == ScoreTotal(declared, data)
        matching == {i \in DOMAIN declared.rules : Holds(declared.rules[i].if, data)}
        sets == {i \in matching : declared.rules[i].op = "set"}
        from == IF sets = {} THEN 0 ELSE Max(sets)
        start == IF sets = {} THEN 0 ELSE declared.rules[from].n
        after[i \in 0 .. Len(declared.rules)] ==
            IF i = 0 THEN 0
            ELSE after[i - 1] + (IF i > from /\ i \in matching THEN declared.rules[i].n ELSE 0)
    IN  /\ total = start + after[Len(declared.rules)]
        /\ Publishable(declared) =>
              \A i \in DOMAIN declared.buckets :
                 InBucket(declared.buckets[i], total) => i = ScoreBucket(declared, total)

\* A calculation has a number exactly if what it refers to, directly or not,
\* is a field or declared before whatever refers to it: the guard accepts other
\* orders and circles, and they evaluate to null.
CalcsInOrderEvaluate ==
    LET calcs == declared.calcs
        DeclaredBefore(id, j, i) ==
            j < i /\ calcs[j].id = id /\ \A k \in j + 1 .. i : calcs[k].id # id
        InOrder(rows) ==
            \A i \in rows : \A id \in calcs[i].refs \ FieldIds(declared) :
               \E j \in rows : DeclaredBefore(id, j, i)
    IN  \A i \in DOMAIN calcs :
           CalcResults(declared, payload)[i] # Null
              <=> \E rows \in SUBSET (DOMAIN calcs) : i \in rows /\ InOrder(rows)

\* No value of a page that was not visited is kept, whichever page holds the
\* field, and every value of a page that was visited is.
SkippedAreStripped ==
    LET visited == Range(Walk(declared, ActionData(declared, payload)).visited)
        kept == Sanitized(declared, payload)
    IN  Publishable(declared) =>
          \A p \in Range(declared.pages) :
             IF p.id \in visited THEN Range(p.fields) \cap DOMAIN payload \subseteq kept
             ELSE Range(p.fields) \cap kept = {}

=============================================================================
