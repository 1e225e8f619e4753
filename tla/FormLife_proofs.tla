----------------------------- MODULE FormLife_proofs -----------------------------
(***************************************************************************)
(* Proofs about what happens to a form beside its versions: the drain of   *)
(* its analytics, its experiments, its templates and its files, for any    *)
(* number of each and of the requests that overlap; and what its logic     *)
(* computes, for any specs of the shape that the schema gives them.        *)
(*                                                                         *)
(* Each part is proved by itself, and the lemma EachPart puts them         *)
(* together: a step of MCFormLife is one of a part, and leaves the others  *)
(* as they are.                                                            *)
(***************************************************************************)
EXTENDS MCFormLife, FiniteSetTheorems, FunctionTheorems,
        SequenceTheorems, WellFoundedInduction, TLAPS

-----------------------------------------------------------------------------
\* Batches of rows in order

\* How many rows of S come before r.
Rank(S, r) == Cardinality({s \in S : Precedes(s, r)})

\* Rows are ordered by time and id.
LEMMA RowOrder ==
    ASSUME NEW r \in Nat \X Nat, NEW s \in Nat \X Nat
    PROVE  /\ r = s \/ Precedes(r, s) \/ Precedes(s, r)
           /\ ~(Precedes(r, s) /\ Precedes(s, r))
           /\ ~Precedes(r, r)
           /\ \A t \in Nat \X Nat : Precedes(r, s) /\ Precedes(s, t) => Precedes(r, t)
<1>1. r = <<r[1], r[2]>> /\ s = <<s[1], s[2]>> /\ {r[1], r[2], s[1], s[2]} \subseteq Nat
  OBVIOUS
<1>2. ASSUME NEW t \in Nat \X Nat, Precedes(r, s), Precedes(s, t) PROVE Precedes(r, t)
  BY <1>1, <1>2 DEF Precedes
<1>3. r[1] = s[1] /\ r[2] = s[2] => r = s
  BY <1>1
<1> QED BY <1>1, <1>2, <1>3 DEF Precedes

\* A rank is less than the number of rows, and grows with the order.
LEMMA RankGrows ==
    ASSUME NEW S, IsFiniteSet(S), S \subseteq Nat \X Nat, NEW r \in S
    PROVE  /\ Rank(S, r) \in 0 .. Cardinality(S) - 1
           /\ \A s \in S : Precedes(s, r) => Rank(S, s) < Rank(S, r)
<1> DEFINE P(x) == {s \in S : Precedes(s, x)}
<1>1. Cardinality(S) \in Nat
  BY FS_CardinalityType
<1>2. \A x \in S : P(x) \subseteq S \ {x}
  BY RowOrder
<1>3. \A x \in S : IsFiniteSet(P(x)) /\ Cardinality(P(x)) \in Nat
  BY <1>2, FS_Subset, FS_CardinalityType
<1>4. Rank(S, r) \in 0 .. Cardinality(S) - 1
  <2>1. IsFiniteSet(S \ {r}) /\ Cardinality(S \ {r}) = Cardinality(S) - 1
    BY FS_RemoveElement
  <2>2. Cardinality(P(r)) <= Cardinality(S \ {r})
    BY <1>2, <2>1, FS_Subset
  <2> QED BY <1>1, <1>3, <2>1, <2>2 DEF Rank
<1>5. ASSUME NEW s \in S, Precedes(s, r) PROVE Rank(S, s) < Rank(S, r)
  <2>1. P(s) \subseteq P(r) \ {s}
    BY <1>5, RowOrder
  <2>2. IsFiniteSet(P(r) \ {s}) /\ Cardinality(P(r) \ {s}) = Cardinality(P(r)) - 1
    BY <1>3, <1>5, FS_RemoveElement
  <2>3. Cardinality(P(s)) <= Cardinality(P(r) \ {s})
    BY <2>1, <2>2, FS_Subset
  <2>4. Rank(S, s) = Cardinality(P(s)) /\ Rank(S, r) = Cardinality(P(r))
    BY DEF Rank
  <2>5. Cardinality(P(s)) \in Nat /\ Cardinality(P(r)) \in Nat
    BY <1>3, <1>5
  <2> HIDE DEF P
  <2> QED BY <2>2, <2>3, <2>4, <2>5
<1> QED BY <1>4, <1>5

\* Every rank is taken.
LEMMA RankOnto ==
    ASSUME NEW S, IsFiniteSet(S), S \subseteq Nat \X Nat, NEW k \in 0 .. Cardinality(S) - 1
    PROVE  \E r \in S : Rank(S, r) = k
<1> DEFINE T == 0 .. Cardinality(S) - 1
<1> DEFINE f == [r \in S |-> Rank(S, r)]
<1>1. Cardinality(S) \in Nat
  BY FS_CardinalityType
<1>2. IsFiniteSet(T) /\ Cardinality(T) = Cardinality(S)
  <2>1. IsFiniteSet(0 .. Cardinality(S) - 1)
        /\ Cardinality(0 .. Cardinality(S) - 1) =
              IF 0 > Cardinality(S) - 1 THEN 0 ELSE Cardinality(S) - 1 - 0 + 1
    <3>1. Cardinality(S) - 1 \in Int /\ 0 \in Int
      BY <1>1
    <3> HIDE DEF T
    <3> QED BY <3>1, FS_Interval, Zenon
  <2> QED BY <1>1, <2>1
<1>3. f \in [S -> T]
  BY RankGrows
<1>4. ASSUME NEW r \in S, NEW s \in S, f[r] = f[s] PROVE r = s
  <2>1. Rank(S, r) = Rank(S, s) /\ Rank(S, r) \in Nat
    BY <1>4, RankGrows
  <2>2. ~Precedes(r, s) /\ ~Precedes(s, r)
    BY <2>1, RankGrows
  <2> QED BY <2>2, RowOrder
<1>5. f \in Injection(S, T)
  BY <1>3, <1>4, Fun_IsInj
<1>6. f \in Surjection(S, T)
  BY <1>2, <1>5, FS_Injection
<1> QED BY <1>6 DEF Surjection

\* Rows that are there have a last one.
LEMMA LastIsLast ==
    ASSUME NEW S, IsFiniteSet(S), S \subseteq Nat \X Nat, S # {}
    PROVE  LastOf(S) \in S /\ \A s \in S : s = LastOf(S) \/ Precedes(s, LastOf(S))
<1>1. Cardinality(S) \in Nat /\ Cardinality(S) # 0
  BY FS_CardinalityType, FS_EmptySet
<1>2. PICK r \in S : Rank(S, r) = Cardinality(S) - 1
  BY <1>1, RankOnto
<1>3. ASSUME NEW s \in S, s # r PROVE Precedes(s, r)
  <2>1. Rank(S, s) <= Cardinality(S) - 1 /\ Rank(S, s) \in Nat
    BY <1>1, RankGrows
  <2>2. ~Precedes(r, s)
    BY <1>1, <1>2, <2>1, RankGrows
  <2> QED BY <1>3, <2>2, RowOrder
<1>4. \E x \in S : \A s \in S : s = x \/ Precedes(s, x)
  BY <1>3
<1> QED BY <1>4 DEF LastOf

\* A batch is a part of the rows, and none of rows only.
LEMMA BatchOfRows ==
    ASSUME NEW S, IsFiniteSet(S), S \subseteq Nat \X Nat
    PROVE  /\ FirstBatch(S) \subseteq S /\ IsFiniteSet(FirstBatch(S))
           /\ FirstBatch(S) = {} => S = {}
<1>1. FirstBatch(S) \subseteq S
  BY DEF FirstBatch
<1>2. ASSUME S # {} PROVE FirstBatch(S) # {}
  <2>1. Cardinality(S) \in Nat /\ Cardinality(S) # 0
    BY <1>2, FS_CardinalityType, FS_EmptySet
  <2>2. PICK r \in S : Rank(S, r) = 0
    BY <2>1, RankOnto
  <2>3. r \in FirstBatch(S)
    BY <2>2, DrainAssumption DEF FirstBatch, Rank, DrainAssumption
  <2> QED BY <2>3
<1> QED BY <1>1, <1>2, FS_Subset

\* What does not fit comes after a full batch.
LEMMA BatchIsFull ==
    ASSUME NEW S, IsFiniteSet(S), S \subseteq Nat \X Nat, NEW r \in S, r \notin FirstBatch(S)
    PROVE  Cardinality(FirstBatch(S)) = BatchSize /\ Precedes(LastOf(FirstBatch(S)), r)
<1> DEFINE B == FirstBatch(S)
<1> DEFINE T == 0 .. BatchSize - 1
<1> DEFINE f == [x \in B |-> Rank(S, x)]
<1>1. BatchSize \in Nat \ {0} /\ Cardinality(S) \in Nat
  BY DrainAssumption, FS_CardinalityType DEF DrainAssumption
<1>2. \A x \in S : Rank(S, x) \in Nat /\ (x \in B <=> Rank(S, x) < BatchSize)
  BY RankGrows DEF FirstBatch, Rank
<1>3. Cardinality(B) = BatchSize
  <2>1. IsFiniteSet(B) /\ B \subseteq S
    BY BatchOfRows
  <2>2. f \in [B -> T]
    BY <1>1, <1>2, <2>1
  <2>3. ASSUME NEW x \in B, NEW y \in B, f[x] = f[y] PROVE x = y
    <3>1. Rank(S, x) = Rank(S, y) /\ x \in S /\ y \in S
      BY <2>1, <2>3
    <3>2. ~Precedes(x, y) /\ ~Precedes(y, x)
      BY <1>2, <3>1, RankGrows
    <3> QED BY <3>1, <3>2, RowOrder
  <2>4. ASSUME NEW k \in T PROVE \E x \in B : f[x] = k
    <3>1. Rank(S, r) >= BatchSize /\ Rank(S, r) <= Cardinality(S) - 1 /\ Rank(S, r) \in Nat
      BY <1>1, <1>2, RankGrows
    <3>2. k \in 0 .. Cardinality(S) - 1
      BY <1>1, <3>1
    <3>3. PICK x \in S : Rank(S, x) = k
      BY <3>2, RankOnto
    <3> QED BY <1>1, <1>2, <3>3
  <2>5. f \in Bijection(B, T)
    <3>1. f \in Injection(B, T)
      BY <2>2, <2>3, Fun_IsInj
    <3>2. f \in Surjection(B, T)
      BY <2>2, <2>4 DEF Surjection
    <3> QED BY <3>1, <3>2 DEF Bijection
  <2>6. Cardinality(T) = Cardinality(B)
    BY <2>1, <2>5, FS_Bijection DEF ExistsBijection
  <2>7. Cardinality(0 .. BatchSize - 1) = IF 0 > BatchSize - 1 THEN 0 ELSE BatchSize - 1 - 0 + 1
    BY <1>1, FS_Interval
  <2> QED BY <1>1, <2>6, <2>7
<1>4. LastOf(B) \in B
  <2>1. IsFiniteSet(B) /\ B \subseteq S /\ B # {}
    BY BatchOfRows
  <2>2. B \subseteq Nat \X Nat
    BY <2>1
  <2> QED BY <2>1, <2>2, LastIsLast
<1>5. Precedes(LastOf(B), r)
  <2> DEFINE l == LastOf(B)
  <2>1. l \in S /\ Rank(S, l) < BatchSize /\ ~(Rank(S, r) < BatchSize)
        /\ Rank(S, l) \in Nat /\ Rank(S, r) \in Nat
    BY <1>2, <1>4, BatchOfRows
  <2>2. l # r
    BY <1>4
  <2>3. ~Precedes(r, l)
    BY <1>1, <2>1, RankGrows
  <2> HIDE DEF l
  <2>4. l \in Nat \X Nat /\ r \in Nat \X Nat
    BY <2>1
  <2>5. Precedes(l, r)
    BY <2>2, <2>3, <2>4, RowOrder
  <2> QED BY <2>5 DEF l
<1> QED BY <1>3, <1>5

-----------------------------------------------------------------------------
\* The drain

\* What a proof needs of a job's types: its counters have no bound here.
Drained == [state : {"none", "waiting", "active", "completed", "failed"},
            from : Time, to : Time, made : Nat, stalled : BOOLEAN, started : Nat,
            step : {"read", "insert", "delete", "finish"},
            cursor : Nat \X Nat, batch : SUBSET Events, fails : BOOLEAN]

Rows == Events \X Time

\* The rows are finitely many, and an id is one row.
StoreInv ==
    /\ now \in Time
    /\ IsFiniteSet(stored) /\ stored \subseteq Rows /\ deleted \subseteq stored
    /\ \A r, s \in stored : r[1] = s[1] => r = s
    /\ copies \in [Events -> Nat]
    /\ lastDrained \in Time \cup {None}
    /\ drain \in [Days -> Drained]
    /\ due \in [Days -> SUBSET Events]

\* A row that a drain may still find.
Ahead(d, e) == \E r \in Live : r[1] = e /\ r[2] <= drain[d].to /\ Beyond(r, drain[d].cursor)

\* Where an event is that job d has to drain: in ClickHouse, in the batch, or,
\* as long as a batch is to follow, ahead.
Owed(d, e) ==
    \/ copies[e] > 0
    \/ drain[d].step = "insert" /\ e \in drain[d].batch
    \/ drain[d].step = "read" /\ Ahead(d, e)
    \/ /\ drain[d].step \in {"insert", "delete"}
       /\ Cardinality(drain[d].batch) = BatchSize
       /\ Ahead(d, e)

JobInvAt(d) ==
    /\ drain[d].state = "active" /\ drain[d].step = "delete" =>
          \A e \in drain[d].batch : copies[e] > 0
    /\ drain[d].state = "active" /\ ~drain[d].fails => \A e \in due[d] : Owed(d, e)
    /\ drain[d].state = "completed" => \A e \in due[d] : copies[e] > 0

DrainInv == StoreInv /\ DeletedIsStored /\ \A d \in Days : JobInvAt(d)

\* Nothing is stored, and no job is there.
LEMMA InitDrain == DrainInit => DrainInv
<1> SUFFICES ASSUME DrainInit PROVE DrainInv
  OBVIOUS
<1>1. MaxTime \in Nat /\ 0 \in Time /\ MaxTime + 1 \in Nat
  BY DrainAssumption DEF DrainAssumption, Time
<1>2. NoDrainJob \in Drained
  BY <1>1 DEF NoDrainJob, Drained
<1>3. StoreInv
  BY <1>1, <1>2, FS_EmptySet DEF DrainInit, StoreInv
<1>4. DeletedIsStored /\ \A d \in Days : JobInvAt(d)
  BY DEF DrainInit, DeletedIsStored, JobInvAt, NoDrainJob
<1> QED BY <1>3, <1>4 DEF DrainInv

\* What another step leaves of a job's debts: rows leave Postgres only when
\* they are in ClickHouse, where nothing is taken away.
LEMMA OthersKeep ==
    ASSUME DrainInv, NEW d \in Days, drain'[d] = drain[d], due'[d] = due[d],
           stored \subseteq stored',
           \A e \in Events : copies[e] > 0 => copies'[e] > 0,
           \A r \in stored : r \in deleted' => r \in deleted \/ copies'[r[1]] > 0
    PROVE  JobInvAt(d)'
<1>0. JobInvAt(d) /\ due[d] \subseteq Events /\ drain[d] \in Drained
  BY DEF DrainInv, StoreInv
<1>1. ASSUME NEW e \in Events, Ahead(d, e) PROVE copies'[e] > 0 \/ Ahead(d, e)'
  <2>1. PICK r \in Live : r[1] = e /\ r[2] <= drain[d].to /\ Beyond(r, drain[d].cursor)
    BY <1>1 DEF Ahead
  <2>2. CASE r \in deleted'
    BY <2>1, <2>2 DEF Live
  <2>3. CASE r \notin deleted'
    <3>1. r \in Live'
      BY <2>1, <2>3 DEF Live
    <3>2. Beyond(r, drain[d].cursor)'
      BY <2>1 DEF Beyond
    <3> QED BY <2>1, <3>1, <3>2 DEF Ahead
  <2> QED BY <2>2, <2>3
<1>2. ASSUME NEW e \in Events, Owed(d, e) PROVE Owed(d, e)'
  BY <1>1, <1>2 DEF Owed
<1>3. drain[d].batch \subseteq Events
  BY <1>0 DEF Drained
<1> QED BY <1>0, <1>2, <1>3 DEF JobInvAt

\* Arrivals, time and the scheduler.
LEMMA ArrivalKeeps ==
    ASSUME DrainInv, Tick \/ Schedule \/ \E e \in Events, at \in Time : Ingest(e, at)
    PROVE  DrainInv'
<1>0. StoreInv /\ DeletedIsStored
  BY DEF DrainInv
<1>a. MaxTime \in Nat /\ TicksPerDay \in Nat \ {0}
  BY DrainAssumption DEF DrainAssumption
<1>1. CASE Tick
  <2>1. StoreInv'
    BY <1>0, <1>1, <1>a DEF Tick, StoreInv, Time, None
  <2>2. DeletedIsStored'
    BY <1>0, <1>1 DEF Tick, DeletedIsStored
  <2>3. \A d \in Days : JobInvAt(d)'
    BY <1>1, OthersKeep DEF Tick
  <2> QED BY <2>1, <2>2, <2>3 DEF DrainInv
<1>2. ASSUME NEW e \in Events, NEW at \in Time, Ingest(e, at) PROVE DrainInv'
  <2>1. /\ stored' = stored \cup {<<e, at>>} /\ e \notin Ids(stored)
        /\ UNCHANGED <<now, deleted, copies, lastDrained, drain, deleteSource, due, faults>>
    BY <1>2 DEF Ingest
  <2>2. IsFiniteSet(stored')
    BY <1>0, <2>1, FS_AddElement DEF StoreInv
  <2>3. \A r \in stored : r[1] # e
    BY <2>1 DEF Ids
  <2>4. StoreInv'
    BY <1>0, <2>1, <2>2, <2>3 DEF StoreInv, Rows
  <2>5. DeletedIsStored'
    BY <1>0, <2>1 DEF DeletedIsStored
  <2>6. \A d \in Days : JobInvAt(d)'
    BY <2>1, OthersKeep
  <2> QED BY <2>4, <2>5, <2>6 DEF DrainInv
<1>3. CASE Schedule
  <2>1. PICK b \in Days : b = now \div TicksPerDay /\ drain[b].state = "none"
    <3>1. now \div TicksPerDay \in Days
      BY <1>0, <1>a DEF StoreInv, Time, Days
    <3> QED BY <1>3, <3>1 DEF Schedule
  <2>2. /\ drain' = [drain EXCEPT ![b] = [NoDrainJob EXCEPT !.state = "waiting",
                                               !.from = DrainFrom, !.to = now]]
        /\ UNCHANGED <<now, stored, deleted, copies, lastDrained, deleteSource, due, faults>>
    BY <1>3, <2>1 DEF Schedule
  <2>3. DrainFrom \in Time
    BY <1>0, <1>a DEF DrainFrom, StoreInv, Time, None
  <2>4. [NoDrainJob EXCEPT !.state = "waiting", !.from = DrainFrom, !.to = now] \in Drained
    BY <1>0, <1>a, <2>3 DEF NoDrainJob, Drained, StoreInv, Time
  <2>5. StoreInv'
    BY <1>0, <2>2, <2>4 DEF StoreInv
  <2>6. DeletedIsStored'
    BY <1>0, <2>2 DEF DeletedIsStored
  <2>7. drain'[b].state = "waiting"
    BY <1>0, <2>2 DEF StoreInv, NoDrainJob
  <2>8. ASSUME NEW d \in Days PROVE JobInvAt(d)'
    <3>1. CASE d = b
      BY <2>7, <3>1 DEF JobInvAt
    <3>2. CASE d # b
      <4>1. drain'[d] = drain[d]
        BY <1>0, <2>2, <3>2 DEF StoreInv
      <4> QED BY <2>2, <4>1, OthersKeep
    <3> QED BY <3>1, <3>2
  <2> QED BY <2>5, <2>6, <2>8 DEF DrainInv
<1> QED BY <1>1, <1>2, <1>3

\* One job moves; whatever else changes takes nothing from the others.
LEMMA OneJobMoves ==
    ASSUME DrainInv, NEW d \in Days, NEW job \in Drained,
           drain' = [drain EXCEPT ![d] = job],
           UNCHANGED <<now, stored>>,
           due' \in [Days -> SUBSET Events],
           \A c \in Days \ {d} : due'[c] = due[c],
           lastDrained' \in Time \cup {None},
           deleted' \subseteq stored,
           copies' \in [Events -> Nat],
           \A e \in Events : copies[e] > 0 => copies'[e] > 0,
           \A r \in stored : r \in deleted' => r \in deleted \/ copies'[r[1]] > 0
    PROVE  /\ StoreInv' /\ drain'[d] = job
           /\ \A c \in Days \ {d} : JobInvAt(c)'
<1>0. StoreInv
  BY DEF DrainInv
<1>1. StoreInv' /\ drain'[d] = job
  BY <1>0 DEF StoreInv
<1>2. ASSUME NEW c \in Days \ {d} PROVE JobInvAt(c)'
  <2>1. drain'[c] = drain[c] /\ due'[c] = due[c] /\ stored \subseteq stored'
    BY <1>0 DEF StoreInv
  <2> QED BY <2>1, OthersKeep
<1> QED BY <1>1, <1>2

\* The first read of an attempt has all before it that the job owes.
LEMMA StartDrainKeeps ==
    ASSUME DrainInv, NEW d \in Days, StartDrain(d) PROVE DrainInv'
<1>0. StoreInv /\ DeletedIsStored /\ drain[d] \in Drained
  BY DEF DrainInv, StoreInv
<1> DEFINE window == {r \in Live : InWindow(d, r)}
<1>1. PICK job : job = [drain[d] EXCEPT !.state = "active", !.step = "read",
                                       !.cursor = <<drain[d].from, 0>>,
                                       !.started = @ + 1, !.fails = FALSE]
  OBVIOUS
<1>2. drain' = [drain EXCEPT ![d] = job]
  <2>1. drain \in [Days -> Drained]
    BY <1>0 DEF StoreInv
  <2> QED BY <1>1, <2>1 DEF StartDrain
<1>3. job \in Drained /\ job.state = "active" /\ job.step = "read"
      /\ job.cursor = <<drain[d].from, 0>> /\ job.to = drain[d].to
  <2>1. drain[d].from \in Nat
    BY <1>0, DrainAssumption DEF Drained, Time, DrainAssumption
  <2>2. drain[d].started + 1 \in Nat
    BY <1>0 DEF Drained
  <2> QED BY <1>0, <1>1, <2>1, <2>2 DEF Drained
<1>4. UNCHANGED <<now, stored, deleted, copies, lastDrained>>
      /\ due' = [due EXCEPT ![d] = Ids(window)]
  BY DEF StartDrain
<1>5. Ids(window) \subseteq Events
  BY <1>0 DEF StoreInv, Rows, Ids, Live
<1>6. /\ StoreInv' /\ drain'[d] = job
      /\ \A c \in Days \ {d} : JobInvAt(c)'
  <2> HIDE DEF window
  <2>1. due' \in [Days -> SUBSET Events] /\ \A c \in Days \ {d} : due'[c] = due[c]
    BY <1>0, <1>4, <1>5 DEF StoreInv
  <2>2. lastDrained' \in Time \cup {None} /\ copies' \in [Events -> Nat]
    BY <1>0, <1>4 DEF StoreInv
  <2>9. deleted' \subseteq stored
    BY <1>0, <1>2, <1>3, <1>4 DEF StoreInv
  <2> QED BY <1>2, <1>3, <1>4, <2>1, <2>2, <2>9, OneJobMoves
<1>7. DeletedIsStored'
  BY <1>0, <1>4 DEF DeletedIsStored
<1>8. JobInvAt(d)'
  <2>1. ASSUME NEW e \in due'[d] PROVE Ahead(d, e)'
    <3>1. due'[d] = Ids(window)
      BY <1>0, <1>4 DEF StoreInv
    <3>2. PICK r \in Live : r[1] = e /\ InWindow(d, r)
      BY <2>1, <3>1 DEF Ids
    <3>3. r \in Live' /\ r[1] \in Nat \ {0} /\ r[2] \in Nat /\ drain[d].from \in Nat
      BY <1>0, <1>4, <3>2, DrainAssumption
      DEF Live, StoreInv, Rows, DrainAssumption, Time, Drained
    <3>4. r[2] <= drain'[d].to /\ Beyond(r, drain'[d].cursor)
      BY <1>3, <1>6, <3>2, <3>3 DEF InWindow, Beyond
    <3>5. Ahead(d, e)' <=> \E x \in Live' : x[1] = e /\ x[2] <= drain'[d].to
                                            /\ Beyond(x, drain'[d].cursor)
      BY DEF Ahead, Beyond
    <3> QED BY <3>2, <3>3, <3>4, <3>5
  <2>2. ASSUME NEW e \in due'[d] PROVE Owed(d, e)'
    BY <1>3, <1>6, <2>1 DEF Owed
  <2> QED BY <1>3, <1>6, <2>2 DEF JobInvAt
<1> QED BY <1>6, <1>7, <1>8 DEF DrainInv

\* As many ids as rows.
LEMMA IdsCount ==
    ASSUME StoreInv, NEW B, B \subseteq stored
    PROVE  IsFiniteSet(B) /\ Cardinality(Ids(B)) = Cardinality(B) /\ Ids(B) \subseteq Events
<1> DEFINE f == [r \in B |-> r[1]]
<1>1. IsFiniteSet(B)
  BY FS_Subset DEF StoreInv
<1>2. f \in [B -> Ids(B)]
  BY DEF Ids
<1>3. \A r, s \in B : f[r] = f[s] => r = s
  BY DEF StoreInv
<1>4. \A e \in Ids(B) : \E r \in B : f[r] = e
  BY DEF Ids
<1>5. f \in Bijection(B, Ids(B))
  <2>1. f \in Injection(B, Ids(B))
    BY <1>2, <1>3, Fun_IsInj
  <2>2. f \in Surjection(B, Ids(B))
    BY <1>2, <1>4 DEF Surjection
  <2> QED BY <2>1, <2>2 DEF Bijection
<1>6. Cardinality(Ids(B)) = Cardinality(B)
  BY <1>1, <1>5, FS_Bijection DEF ExistsBijection
<1>7. Ids(B) \subseteq Events
  BY DEF Ids, StoreInv, Rows
<1> QED BY <1>1, <1>6, <1>7

\* A read takes the first rows and leaves those behind the cursor ahead.
LEMMA ReadBatchKeeps ==
    ASSUME DrainInv, NEW d \in Days, ReadBatch(d) PROVE DrainInv'
<1>0. StoreInv /\ DeletedIsStored /\ drain[d] \in Drained /\ JobInvAt(d)
      /\ due[d] \subseteq Events
  BY DEF DrainInv, StoreInv
<1>1. PICK rows : rows = NextBatch(d)
  OBVIOUS
<1>2. PICK S : S = {r \in Live : r[2] <= drain[d].to /\ Beyond(r, drain[d].cursor)}
  OBVIOUS
<1>3. S \subseteq stored /\ IsFiniteSet(S) /\ S \subseteq Nat \X Nat
  <2>1. S \subseteq stored
    BY <1>2 DEF Live
  <2>2. stored \subseteq Nat \X Nat
    <3>1. Events \subseteq Nat /\ Time \subseteq Nat
      BY DrainAssumption DEF Time, DrainAssumption
    <3>2. stored \subseteq Events \X Time
      BY <1>0 DEF StoreInv, Rows
    <3> QED BY <3>1, <3>2
  <2>3. IsFiniteSet(stored)
    BY <1>0 DEF StoreInv
  <2> QED BY <2>1, <2>2, <2>3, FS_Subset
<1>4. rows = FirstBatch(S)
  BY <1>1, <1>2 DEF NextBatch
<1>5. rows \subseteq S /\ IsFiniteSet(rows) /\ (rows = {} => S = {})
  BY <1>3, <1>4, BatchOfRows
<1>6. IsFiniteSet(rows) /\ Cardinality(Ids(rows)) = Cardinality(rows) /\ Ids(rows) \subseteq Events
  BY <1>0, <1>3, <1>5, IdsCount
<1>7. PICK cursor : cursor = IF rows = {} THEN drain[d].cursor
                             ELSE <<LastOf(rows)[2], LastOf(rows)[1]>>
  OBVIOUS
<1>8. cursor \in Nat \X Nat
  <2>1. CASE rows = {}
    BY <1>0, <1>7, <2>1 DEF Drained
  <2>2. CASE rows # {}
    <3>1. rows \subseteq Nat \X Nat
      BY <1>3, <1>5
    <3>2. LastOf(rows) \in Nat \X Nat
      BY <1>5, <2>2, <3>1, LastIsLast
    <3> QED BY <1>7, <2>2, <3>2
  <2> QED BY <2>1, <2>2
<1>9. PICK job : job = [drain[d] EXCEPT !.step = IF rows = {} THEN "finish" ELSE "insert",
                                       !.batch = Ids(rows), !.cursor = cursor]
  OBVIOUS
<1>10. /\ drain' = [drain EXCEPT ![d] = job]
       /\ UNCHANGED <<now, stored, deleted, copies, lastDrained, due>>
       /\ drain[d].state = "active" /\ drain[d].step = "read"
  <2>1. drain \in [Days -> Drained]
    BY <1>0 DEF StoreInv
  <2>2. drain' = [drain EXCEPT
              ![d].step = IF rows = {} THEN "finish" ELSE "insert",
              ![d].batch = Ids(rows),
              ![d].cursor = IF rows = {} THEN @ ELSE <<LastOf(rows)[2], LastOf(rows)[1]>>]
        /\ UNCHANGED <<now, stored, deleted, copies, lastDrained, due>>
        /\ drain[d].state = "active" /\ drain[d].step = "read"
    BY <1>1 DEF ReadBatch
  <2> QED BY <1>7, <1>9, <2>1, <2>2
<1>11. job \in Drained /\ job.batch = Ids(rows) /\ job.cursor = cursor /\ job.to = drain[d].to
       /\ job.state = "active" /\ job.fails = drain[d].fails
       /\ job.step = IF rows = {} THEN "finish" ELSE "insert"
  BY <1>0, <1>6, <1>8, <1>9, <1>10 DEF Drained
<1>12. /\ StoreInv' /\ drain'[d] = job
       /\ \A c \in Days \ {d} : JobInvAt(c)'
  <2>1. /\ due' \in [Days -> SUBSET Events] /\ \A c \in Days \ {d} : due'[c] = due[c]
        /\ lastDrained' \in Time \cup {None} /\ copies' \in [Events -> Nat]
    BY <1>0, <1>10 DEF StoreInv
  <2>9. deleted' \subseteq stored
    BY <1>0, <1>10, <1>11 DEF StoreInv
  <2> QED BY <1>10, <1>11, <2>1, <2>9, OneJobMoves
<1>13. DeletedIsStored'
  BY <1>0, <1>10 DEF DeletedIsStored
<1>14. ASSUME NEW e \in Events, Owed(d, e) PROVE Owed(d, e)'
  <2>1. CASE copies[e] > 0
    BY <1>10, <2>1 DEF Owed
  <2>2. CASE Ahead(d, e)
    <3>1. PICK r \in S : r[1] = e
      BY <1>2, <2>2 DEF Ahead
    <3>2. rows # {}
      BY <1>5, <3>1
    <3>3. CASE r \in rows
      <4>1. e \in Ids(rows)
        BY <3>1, <3>3 DEF Ids
      <4> QED BY <1>11, <1>12, <3>2, <4>1 DEF Owed
    <3>4. CASE r \notin rows
      <4>1. Cardinality(rows) = BatchSize /\ Precedes(LastOf(rows), r)
        BY <1>3, <1>4, <3>4, BatchIsFull
      <4>2. r[2] > cursor[1] \/ (r[2] = cursor[1] /\ r[1] > cursor[2])
        <5>1. cursor = <<LastOf(rows)[2], LastOf(rows)[1]>>
          BY <1>7, <3>2
        <5>2. LastOf(rows) \in Nat \X Nat
          <6>1. rows \subseteq Nat \X Nat
            BY <1>3, <1>5
          <6> QED BY <1>5, <3>2, <6>1, LastIsLast
        <5>3. r \in Nat \X Nat
          BY <1>3
        <5> QED BY <4>1, <5>1, <5>2, <5>3 DEF Precedes
      <4>3. r \in Live' /\ r[2] <= drain'[d].to /\ Beyond(r, drain'[d].cursor)
        BY <1>2, <1>10, <1>11, <1>12, <4>2 DEF Live, Beyond
      <4>4. Ahead(d, e)'
        BY <3>1, <4>3 DEF Ahead, Beyond
      <4>5. drain'[d].step = "insert" /\ Cardinality(drain'[d].batch) = BatchSize
        BY <1>6, <1>11, <1>12, <3>2, <4>1
      <4> QED BY <4>4, <4>5 DEF Owed
    <3> QED BY <3>3, <3>4
  <2> QED BY <1>10, <1>14, <2>1, <2>2 DEF Owed
<1>15. JobInvAt(d)'
  <2>1. due'[d] = due[d] /\ drain'[d].step # "delete" /\ drain'[d].state = "active"
        /\ drain'[d].fails = drain[d].fails
    BY <1>10, <1>11, <1>12
  <2> QED BY <1>0, <1>10, <1>14, <2>1 DEF JobInvAt
<1> QED BY <1>12, <1>13, <1>15 DEF DrainInv

\* The rows of a batch reach ClickHouse before they leave Postgres.
LEMMA InsertBatchKeeps ==
    ASSUME DrainInv, NEW d \in Days, InsertBatch(d) PROVE DrainInv'
<1>0. StoreInv /\ DeletedIsStored /\ drain[d] \in Drained /\ JobInvAt(d)
      /\ due[d] \subseteq Events /\ drain \in [Days -> Drained]
  BY DEF DrainInv, StoreInv
<1>1. PICK job : job = IF deleteSource THEN [drain[d] EXCEPT !.step = "delete"]
                       ELSE [drain[d] EXCEPT !.step = AfterBatch(d), !.batch = {}]
  OBVIOUS
<1>2. /\ drain' = [drain EXCEPT ![d] = job]
      /\ UNCHANGED <<now, stored, deleted, lastDrained, due>>
      /\ drain[d].state = "active" /\ drain[d].step = "insert"
      /\ copies' = [e \in Events |-> IF e \in drain[d].batch THEN copies[e] + 1 ELSE copies[e]]
  <2>1. CASE deleteSource
    BY <1>0, <1>1, <2>1 DEF InsertBatch
  <2>2. CASE ~deleteSource
    BY <1>0, <1>1, <2>2 DEF InsertBatch
  <2> QED BY <2>1, <2>2
<1>3. AfterBatch(d) \in {"read", "finish"}
      /\ (AfterBatch(d) = "read" <=> Cardinality(drain[d].batch) = BatchSize)
  BY DEF AfterBatch
<1>4. job \in Drained /\ job.state = "active" /\ job.fails = drain[d].fails
      /\ job.cursor = drain[d].cursor /\ job.to = drain[d].to
      /\ \/ job.step = "delete" /\ job.batch = drain[d].batch
         \/ job.step = AfterBatch(d)
  BY <1>0, <1>1, <1>2, <1>3 DEF Drained
<1>5. /\ copies' \in [Events -> Nat]
      /\ \A e \in Events : copies[e] > 0 => copies'[e] > 0
      /\ \A e \in drain[d].batch : copies'[e] > 0
  <2>1. copies \in [Events -> Nat] /\ drain[d].batch \subseteq Events
    BY <1>0 DEF StoreInv, Drained
  <2> QED BY <1>2, <2>1
<1>6. /\ StoreInv' /\ drain'[d] = job
      /\ \A c \in Days \ {d} : JobInvAt(c)'
  <2>1. /\ due' \in [Days -> SUBSET Events] /\ \A c \in Days \ {d} : due'[c] = due[c]
        /\ lastDrained' \in Time \cup {None}
    BY <1>0, <1>2 DEF StoreInv
  <2>9. deleted' \subseteq stored
    BY <1>0, <1>2, <1>4, <1>5 DEF StoreInv
  <2> QED BY <1>2, <1>4, <1>5, <2>1, <2>9, OneJobMoves
<1>7. DeletedIsStored'
  <2>1. \A r \in deleted' : r \in deleted /\ (r[1] \notin Events \/ r[1] \in Events)
    BY <1>2
  <2>2. \A e : copies[e] > 0 /\ e \in Events => copies'[e] > 0
    BY <1>5
  <2>3. \A r \in deleted : r[1] \in Events
    BY <1>0 DEF StoreInv, Rows
  <2> QED BY <1>0, <2>1, <2>2, <2>3 DEF DeletedIsStored
<1>8. ASSUME NEW e \in Events, Ahead(d, e) PROVE Ahead(d, e)'
  <2>1. PICK r \in Live : r[1] = e /\ r[2] <= drain[d].to /\ Beyond(r, drain[d].cursor)
    BY <1>8 DEF Ahead
  <2>2. r \in Live' /\ r[2] <= drain'[d].to /\ Beyond(r, drain'[d].cursor)
    BY <1>2, <1>4, <1>6, <2>1 DEF Live, Beyond
  <2> QED BY <2>1, <2>2 DEF Ahead, Beyond
<1>9. ASSUME NEW e \in Events, Owed(d, e) PROVE Owed(d, e)'
  <2>1. copies'[e] > 0 \/ (Cardinality(drain[d].batch) = BatchSize /\ Ahead(d, e))
    BY <1>2, <1>5, <1>9 DEF Owed
  <2>2. CASE copies'[e] > 0
    BY <2>2 DEF Owed
  <2>3. CASE Cardinality(drain[d].batch) = BatchSize /\ Ahead(d, e)
    <3>1. \/ drain'[d].step = "delete" /\ drain'[d].batch = drain[d].batch
          \/ drain'[d].step = "read"
      BY <1>3, <1>4, <1>6, <2>3
    <3> QED BY <1>8, <2>3, <3>1 DEF Owed
  <2> QED BY <2>1, <2>2, <2>3
<1>10. JobInvAt(d)'
  <2>1. due'[d] = due[d] /\ drain'[d].state = "active" /\ drain'[d].fails = drain[d].fails
    BY <1>2, <1>4, <1>6
  <2>2. drain'[d].step = "delete" => \A e \in drain'[d].batch : copies'[e] > 0
    BY <1>3, <1>4, <1>5, <1>6
  <2> QED BY <1>0, <1>2, <1>9, <2>1, <2>2 DEF JobInvAt
<1> QED BY <1>6, <1>7, <1>10 DEF DrainInv

\* What leaves Postgres is what the batch has put into ClickHouse.
LEMMA DeleteBatchKeeps ==
    ASSUME DrainInv, NEW d \in Days, DeleteBatch(d) PROVE DrainInv'
<1>0. StoreInv /\ DeletedIsStored /\ drain[d] \in Drained /\ JobInvAt(d)
      /\ due[d] \subseteq Events /\ drain \in [Days -> Drained]
  BY DEF DrainInv, StoreInv
<1>1. PICK job : job = [drain[d] EXCEPT !.step = AfterBatch(d), !.batch = {}]
  OBVIOUS
<1>2. /\ drain' = [drain EXCEPT ![d] = job]
      /\ UNCHANGED <<now, stored, copies, lastDrained, due>>
      /\ drain[d].state = "active" /\ drain[d].step = "delete"
      /\ deleted' = deleted \cup RowsToDelete(d)
  BY <1>0, <1>1 DEF DeleteBatch
<1>3. AfterBatch(d) \in {"read", "finish"}
      /\ (AfterBatch(d) = "read" <=> Cardinality(drain[d].batch) = BatchSize)
  BY DEF AfterBatch
<1>4. job \in Drained /\ job.state = "active" /\ job.fails = drain[d].fails
      /\ job.cursor = drain[d].cursor /\ job.to = drain[d].to /\ job.step = AfterBatch(d)
  BY <1>0, <1>1, <1>2, <1>3 DEF Drained
<1>5. \A r \in RowsToDelete(d) : copies[r[1]] > 0
  BY <1>0, <1>2 DEF RowsToDelete, JobInvAt
<1>6. \A r \in stored : r \in deleted' => r \in deleted \/ copies'[r[1]] > 0
  BY <1>2, <1>5
<1>7. /\ StoreInv' /\ drain'[d] = job
      /\ \A c \in Days \ {d} : JobInvAt(c)'
  <2>1. /\ due' \in [Days -> SUBSET Events] /\ \A c \in Days \ {d} : due'[c] = due[c]
        /\ lastDrained' \in Time \cup {None} /\ copies' \in [Events -> Nat]
        /\ \A e \in Events : copies[e] > 0 => copies'[e] > 0
    BY <1>0, <1>2 DEF StoreInv
  <2>9. deleted' \subseteq stored
    BY <1>0, <1>2 DEF StoreInv, RowsToDelete
  <2> QED BY <1>2, <1>4, <1>6, <2>1, <2>9, OneJobMoves
<1>8. DeletedIsStored'
  BY <1>0, <1>2, <1>5 DEF DeletedIsStored
<1>9. ASSUME NEW e \in Events, Ahead(d, e) PROVE copies'[e] > 0 \/ Ahead(d, e)'
  <2>1. PICK r \in Live : r[1] = e /\ r[2] <= drain[d].to /\ Beyond(r, drain[d].cursor)
    BY <1>9 DEF Ahead
  <2>2. CASE r \in RowsToDelete(d)
    BY <1>2, <1>5, <2>1, <2>2
  <2>3. CASE r \notin RowsToDelete(d)
    <3>1. r \in Live' /\ r[2] <= drain'[d].to /\ Beyond(r, drain'[d].cursor)
      BY <1>2, <1>4, <1>7, <2>1, <2>3 DEF Live, Beyond
    <3> QED BY <2>1, <3>1 DEF Ahead, Beyond
  <2> QED BY <2>2, <2>3
<1>10. ASSUME NEW e \in Events, Owed(d, e) PROVE Owed(d, e)'
  <2>1. copies[e] > 0 \/ (Cardinality(drain[d].batch) = BatchSize /\ Ahead(d, e))
    BY <1>2, <1>10 DEF Owed
  <2>2. CASE copies[e] > 0
    BY <1>2, <2>2 DEF Owed
  <2>3. CASE Cardinality(drain[d].batch) = BatchSize /\ Ahead(d, e)
    <3>1. drain'[d].step = "read"
      BY <1>3, <1>4, <1>7, <2>3
    <3> QED BY <1>9, <2>3, <3>1 DEF Owed
  <2> QED BY <2>1, <2>2, <2>3
<1>11. JobInvAt(d)'
  <2>1. due'[d] = due[d] /\ drain'[d].state = "active" /\ drain'[d].fails = drain[d].fails
        /\ drain'[d].step # "delete"
    BY <1>2, <1>3, <1>4, <1>7
  <2> QED BY <1>0, <1>2, <1>10, <2>1 DEF JobInvAt
<1> QED BY <1>7, <1>8, <1>11 DEF DrainInv

\* An attempt that has thrown owes nothing.
LEMMA AttemptFailsKeeps ==
    ASSUME DrainInv, NEW d \in Days, AttemptFails(d) PROVE DrainInv'
<1>0. StoreInv /\ DeletedIsStored /\ drain[d] \in Drained /\ drain \in [Days -> Drained]
  BY DEF DrainInv, StoreInv
<1>1. PICK job : job = [drain[d] EXCEPT !.step = "finish", !.fails = TRUE, !.batch = {}]
  OBVIOUS
<1>2. /\ drain' = [drain EXCEPT ![d] = job]
      /\ UNCHANGED <<now, stored, deleted, lastDrained, due>>
      /\ drain[d].state = "active"
  BY <1>0, <1>1 DEF AttemptFails
<1>3. job \in Drained /\ job.fails /\ job.step = "finish" /\ job.state = "active"
  BY <1>0, <1>1, <1>2 DEF Drained
<1>4. copies' \in [Events -> Nat] /\ \A e \in Events : copies[e] > 0 => copies'[e] > 0
  <2>1. copies \in [Events -> Nat]
    BY <1>0 DEF StoreInv
  <2>2. CASE UNCHANGED copies
    BY <2>1, <2>2
  <2>3. CASE copies' = [e \in Events |-> IF e \in drain[d].batch THEN copies[e] + 1
                                         ELSE copies[e]]
    BY <2>1, <2>3
  <2> QED BY <2>2, <2>3 DEF AttemptFails
<1>5. /\ StoreInv' /\ drain'[d] = job
      /\ \A c \in Days \ {d} : JobInvAt(c)'
  <2>1. /\ due' \in [Days -> SUBSET Events] /\ \A c \in Days \ {d} : due'[c] = due[c]
        /\ lastDrained' \in Time \cup {None}
    BY <1>0, <1>2 DEF StoreInv
  <2>9. deleted' \subseteq stored
    BY <1>0, <1>2, <1>3, <1>4 DEF StoreInv
  <2> QED BY <1>2, <1>3, <1>4, <2>1, <2>9, OneJobMoves
<1>6. DeletedIsStored'
  <2>1. \A r \in deleted : r[1] \in Events
    BY <1>0 DEF StoreInv, Rows
  <2> QED BY <1>0, <1>2, <1>4, <2>1 DEF DeletedIsStored
<1>7. JobInvAt(d)'
  BY <1>3, <1>5 DEF JobInvAt
<1> QED BY <1>5, <1>6, <1>7 DEF DrainInv

\* A job that ends well has nothing left to do; another owes nothing.
LEMMA EndKeeps ==
    ASSUME DrainInv, NEW d \in Days, FinishDrain(d) \/ WatermarkFails(d) \/ WorkerDies(d)
    PROVE  DrainInv'
<1>0. StoreInv /\ DeletedIsStored /\ drain[d] \in Drained /\ drain \in [Days -> Drained]
      /\ JobInvAt(d) /\ due[d] \subseteq Events
  BY DEF DrainInv, StoreInv
<1>1. UNCHANGED <<now, stored, deleted, copies, due>> /\ drain[d].state = "active"
      /\ lastDrained' \in Time \cup {None}
  BY <1>0 DEF FinishDrain, WatermarkFails, WorkerDies, StoreInv
<1>2. PICK job \in Drained :
         /\ drain' = [drain EXCEPT ![d] = job]
         /\ job.state # "active"
         /\ job.state = "completed" => drain[d].step = "finish" /\ ~drain[d].fails
  <2>1. \A failing \in BOOLEAN :
           /\ Ended(drain[d], failing) \in Drained
           /\ Ended(drain[d], failing).state # "active"
           /\ Ended(drain[d], failing).state = "completed" => ~failing
    <3> SUFFICES ASSUME NEW failing \in BOOLEAN, NEW job, job = Ended(drain[d], failing)
                 PROVE  /\ job \in Drained /\ job.state # "active"
                        /\ job.state = "completed" => ~failing
      OBVIOUS
    <3>1. PICK result \in {"completed", "waiting", "failed"} :
             /\ job = [drain[d] EXCEPT !.made = @ + 1, !.step = "read", !.batch = {},
                                       !.state = result]
             /\ result = "completed" => ~failing
      BY <1>0 DEF Ended, Drained
    <3>2. drain[d].made + 1 \in Nat
      BY <1>0 DEF Drained
    <3> QED BY <1>0, <3>1, <3>2 DEF Drained
  <2>2. CASE FinishDrain(d)
    <3>1. drain[d].fails \in BOOLEAN
      BY <1>0 DEF Drained
    <3> QED BY <2>1, <2>2, <3>1 DEF FinishDrain
  <2>3. CASE WatermarkFails(d)
    BY <2>1, <2>3 DEF WatermarkFails
  <2>4. CASE WorkerDies(d)
    <3>1. PICK job : job = [drain[d] EXCEPT
                              !.state = IF drain[d].stalled THEN "failed" ELSE "waiting",
                              !.stalled = TRUE, !.step = "read", !.batch = {}]
      OBVIOUS
    <3>2. drain' = [drain EXCEPT ![d] = job]
      BY <1>0, <2>4, <3>1 DEF WorkerDies
    <3>3. job \in Drained /\ job.state \in {"failed", "waiting"}
      BY <1>0, <3>1 DEF Drained
    <3> QED BY <3>2, <3>3
  <2> QED BY <2>2, <2>3, <2>4
<1>3. /\ StoreInv' /\ drain'[d] = job
      /\ \A c \in Days \ {d} : JobInvAt(c)'
  <2>1. /\ due' \in [Days -> SUBSET Events] /\ \A c \in Days \ {d} : due'[c] = due[c]
        /\ copies' \in [Events -> Nat]
    BY <1>0, <1>1 DEF StoreInv
  <2>9. deleted' \subseteq stored
    BY <1>0, <1>1, <1>2 DEF StoreInv
  <2> QED BY <1>1, <1>2, <2>1, <2>9, OneJobMoves
<1>4. DeletedIsStored'
  BY <1>0, <1>1 DEF DeletedIsStored
<1>5. JobInvAt(d)'
  <2>1. ASSUME job.state = "completed", NEW e \in due[d] PROVE copies[e] > 0
    <3>1. Owed(d, e) /\ drain[d].step = "finish"
      BY <1>0, <1>1, <1>2, <2>1 DEF JobInvAt
    <3> QED BY <3>1 DEF Owed
  <2> QED BY <1>1, <1>2, <1>3, <2>1 DEF JobInvAt
<1> QED BY <1>3, <1>4, <1>5 DEF DrainInv

\* Every step keeps the invariant.
LEMMA NextDrain == DrainInv /\ [DrainNext]_drainVars => DrainInv'
<1> SUFFICES ASSUME DrainInv, [DrainNext]_drainVars PROVE DrainInv'
  OBVIOUS
<1>1. CASE Tick \/ Schedule \/ \E e \in Events, at \in Time : Ingest(e, at)
  BY <1>1, ArrivalKeeps
<1>2. ASSUME NEW d \in Days, DrainStep(d) PROVE DrainInv'
  BY <1>2, StartDrainKeeps, ReadBatchKeeps, InsertBatchKeeps, DeleteBatchKeeps,
     AttemptFailsKeeps, EndKeeps DEF DrainStep
<1>3. CASE UNCHANGED drainVars
  <2>1. UNCHANGED <<now, stored, deleted, copies, lastDrained, drain, due>>
    BY <1>3 DEF drainVars
  <2>2. StoreInv' /\ DeletedIsStored'
    BY <2>1 DEF DrainInv, StoreInv, DeletedIsStored
  <2>3. \A d \in Days : JobInvAt(d)'
    BY <2>1, OthersKeep
  <2> QED BY <2>2, <2>3 DEF DrainInv
<1> QED BY <1>1, <1>2, <1>3 DEF DrainNext

\* Every reachable state of the drain is one the invariant describes.
LEMMA DrainInvHolds == DrainSpec => []DrainInv
<1> QED BY InitDrain, NextDrain, PTL DEF DrainSpec

\* No event is lost between the two stores, whatever fails or runs twice
\* (analytics-drain.worker.ts: the delete follows the insert of its batch).
THEOREM DeletedIsStoredHolds == DrainSpec => []DeletedIsStored
<1>1. DrainInv => DeletedIsStored
  BY DEF DrainInv
<1> QED BY <1>1, DrainInvHolds, PTL

\* A completed job has drained its window, ties included
\* (analytics-drain.worker.ts: batches by occurred_at and id).
THEOREM DrainCompleteHolds == DrainSpec => []DrainComplete
<1>1. DrainInv => DrainComplete
  BY DEF DrainInv, JobInvAt, DrainComplete
<1> QED BY <1>1, DrainInvHolds, PTL

-----------------------------------------------------------------------------
\* The copies a drain leaves, and the types of its jobs

\* The running attempt of job d may yet insert row r.
MayInsert(d, r) ==
    /\ drain[d].state = "active"
    /\ \/ drain[d].step \in {"read", "insert", "delete"} /\ Beyond(r, drain[d].cursor)
       \/ drain[d].step = "insert" /\ r[1] \in drain[d].batch

\* The attempts over r that insert it no more.
Spent(r) == {a \in AttemptsOver(r) : a[2] = drain[a[1]].started => ~MayInsert(a[1], r)}

\* An attempt starts from what BullMQ has counted, reads forward from the
\* start of the window, and holds a batch that lies behind its cursor.
JobFits(d) ==
    /\ drain[d] \in DrainJob
    /\ drain[d].state = "none" => drain[d].started = 0
    /\ drain[d].state # "active" => drain[d].batch = {} /\ drain[d].step = "read"
    /\ drain[d].state \in {"waiting", "active"} =>
          /\ drain[d].made < DrainAttempts
          /\ drain[d].started = drain[d].made + (IF drain[d].stalled THEN 1 ELSE 0)
                                  + (IF drain[d].state = "active" THEN 1 ELSE 0)
    /\ drain[d].state = "active" => drain[d].from <= drain[d].cursor[1]
    /\ drain[d].state = "active" /\ drain[d].step = "delete" => deleteSource
    /\ drain[d].batch \subseteq Ids(stored)
    /\ \A r \in stored : r[1] \in drain[d].batch => InWindow(d, r) /\ ~Beyond(r, drain[d].cursor)

\* Each copy is the work of an attempt that is through with its row.
CountInv ==
    /\ deleteSource \in BOOLEAN /\ faults \in 0 .. MaxFaults
    /\ deleted # {} => deleteSource
    /\ \A d \in Days : JobFits(d)
    /\ \A e \in Events \ Ids(stored) : copies[e] = 0
    /\ \A r \in stored : copies[r[1]] <= Cardinality(Spent(r))

\* There are finitely many attempts.
LEMMA AttemptsFinite ==
    ASSUME NEW S, S \subseteq Days \X (1 .. DrainAttempts + 1)
    PROVE  IsFiniteSet(S) /\ Cardinality(S) \in Nat
<1>1. MaxTime \div TicksPerDay \in Int /\ DrainAttempts + 1 \in Int
  BY DrainAssumption DEF DrainAssumption
<1>2. IsFiniteSet(0 .. MaxTime \div TicksPerDay)
  BY <1>1, FS_Interval
<1>3. IsFiniteSet(1 .. DrainAttempts + 1)
  BY <1>1, FS_Interval
<1>4. IsFiniteSet(Days \X (1 .. DrainAttempts + 1))
  BY <1>2, <1>3, FS_Product DEF Days
<1> QED BY <1>4, FS_Subset, FS_CardinalityType

\* Nothing has been drained.
LEMMA InitCount == DrainInit => CountInv
<1> SUFFICES ASSUME DrainInit PROVE CountInv
  OBVIOUS
<1>1. /\ deleteSource \in BOOLEAN /\ faults = 0 /\ deleted = {} /\ stored = {}
      /\ copies = [e \in Events |-> 0]
      /\ MaxTime \in Nat /\ MaxFaults \in Nat /\ DrainAttempts \in Nat \ {0}
  BY DrainAssumption DEF DrainInit, DrainAssumption
<1>2. ASSUME NEW d \in Days PROVE JobFits(d)
  <2>1. drain[d] = NoDrainJob
    BY DEF DrainInit
  <2>2. NoDrainJob \in DrainJob
    BY <1>1 DEF NoDrainJob, DrainJob, Time
  <2> QED BY <1>1, <2>1, <2>2 DEF JobFits, NoDrainJob
<1> QED BY <1>1, <1>2 DEF CountInv

\* What another step leaves of a job's shape.
LEMMA OthersFit ==
    ASSUME CountInv, NEW c \in Days, drain'[c] = drain[c], deleteSource' = deleteSource,
           stored \subseteq stored',
           \A r \in stored' : r \in stored \/ r[1] \notin Ids(stored)
    PROVE  JobFits(c)'
<1>1. JobFits(c)
  BY DEF CountInv
<1>2. drain'[c].batch \subseteq Ids(stored)'
  BY <1>1 DEF JobFits, Ids
<1>3. ASSUME NEW r \in stored', r[1] \in drain[c].batch
      PROVE  InWindow(c, r)' /\ ~Beyond(r, drain[c].cursor)'
  <2>1. r \in stored
    BY <1>1, <1>3 DEF JobFits
  <2>2. InWindow(c, r) /\ ~Beyond(r, drain[c].cursor)
    BY <1>1, <1>3, <2>1 DEF JobFits
  <2> QED BY <2>2 DEF InWindow, Beyond
<1> QED BY <1>1, <1>2, <1>3 DEF JobFits, Beyond

\* A job that moves spends what it inserts, and takes back nothing spent.
LEMMA OneJobCounts ==
    ASSUME DrainInv, CountInv, NEW d \in Days, NEW job \in DrainJob,
           drain' = [drain EXCEPT ![d] = job],
           drain[d].started = 0 \/ (job.from = drain[d].from /\ job.to = drain[d].to),
           drain[d].started <= job.started,
           UNCHANGED <<stored, deleteSource>>,
           faults' \in 0 .. MaxFaults, deleted' # {} => deleteSource,
           JobFits(d)',
           \A e \in Events \ Ids(stored) : copies'[e] = copies[e],
           \A r \in stored :
              /\ job.started = drain[d].started /\ MayInsert(d, r)' => MayInsert(d, r)
              /\ \/ copies'[r[1]] = copies[r[1]]
                 \/ /\ copies'[r[1]] = copies[r[1]] + 1 /\ job.started = drain[d].started
                    /\ InWindow(d, r) /\ MayInsert(d, r) /\ ~MayInsert(d, r)'
    PROVE  CountInv'
<1>1. StoreInv /\ drain \in [Days -> Drained] /\ drain'[d] = job
      /\ \A c \in Days \ {d} : drain'[c] = drain[c]
  BY DEF DrainInv, StoreInv
<1>2. \A c \in Days : JobFits(c)'
  <2>1. ASSUME NEW c \in Days \ {d} PROVE JobFits(c)'
    BY <1>1, <2>1, OthersFit
  <2> QED BY <2>1
<1>3. \A e \in Events \ Ids(stored)' : copies'[e] = 0
  BY DEF CountInv, Ids
<1>4. job.started \in Nat /\ drain[d].started \in Nat /\ drain[d] \in DrainJob
  BY <1>1 DEF CountInv, JobFits, DrainJob, Drained
<1>5. ASSUME NEW r \in stored PROVE copies'[r[1]] <= Cardinality(Spent(r)')
  <2>1. Spent(r) \subseteq Spent(r)'
    <3> SUFFICES ASSUME NEW a \in Spent(r) PROVE a \in Spent(r)'
      OBVIOUS
    <3>1. a \in Days \X (1 .. DrainAttempts + 1) /\ InWindow(a[1], r)
          /\ a[2] <= drain[a[1]].started
          /\ (a[2] = drain[a[1]].started => ~MayInsert(a[1], r))
      BY DEF Spent, AttemptsOver
    <3>2. a[1] \in Days /\ a[2] \in 1 .. DrainAttempts + 1
      BY <3>1
    <3>3. CASE a[1] = d
      <4>1. drain[d].started # 0
        BY <1>4, <3>1, <3>2, <3>3
      <4>2. InWindow(d, r)'
        BY <1>1, <3>1, <3>3, <4>1 DEF InWindow
      <4>3. a[2] <= job.started
        BY <1>4, <3>1, <3>2, <3>3
      <4>4. a[2] = job.started => ~MayInsert(d, r)'
        <5>1. a[2] = job.started => a[2] = drain[d].started /\ job.started = drain[d].started
          BY <1>4, <3>1, <3>2, <3>3
        <5> QED BY <3>1, <3>3, <5>1
      <4> QED BY <1>1, <3>1, <3>3, <4>2, <4>3, <4>4 DEF Spent, AttemptsOver
    <3>4. CASE a[1] # d
      <4>1. drain'[a[1]] = drain[a[1]]
        BY <1>1, <3>2, <3>4
      <4>2. InWindow(a[1], r)' /\ (MayInsert(a[1], r)' <=> MayInsert(a[1], r))
        BY <3>1, <4>1 DEF InWindow, MayInsert, Beyond
      <4> QED BY <3>1, <4>1, <4>2 DEF Spent, AttemptsOver
    <3> QED BY <3>3, <3>4
  <2>2. /\ IsFiniteSet(Spent(r)) /\ Cardinality(Spent(r)) \in Nat
        /\ IsFiniteSet(Spent(r)') /\ Cardinality(Spent(r)') \in Nat
    <3>1. Spent(r) \subseteq Days \X (1 .. DrainAttempts + 1)
          /\ Spent(r)' \subseteq Days \X (1 .. DrainAttempts + 1)
      BY DEF Spent, AttemptsOver
    <3> QED BY <3>1, AttemptsFinite
  <2>3. copies[r[1]] <= Cardinality(Spent(r)) /\ copies[r[1]] \in Nat
    <3>1. r[1] \in Events
      BY <1>1 DEF StoreInv, Rows
    <3> QED BY <1>1, <3>1 DEF CountInv, StoreInv
  <2>4. CASE copies'[r[1]] = copies[r[1]]
    <3>1. Cardinality(Spent(r)) <= Cardinality(Spent(r)')
      BY <2>1, <2>2, FS_Subset
    <3> QED BY <2>2, <2>3, <2>4, <3>1
  <2>5. CASE /\ copies'[r[1]] = copies[r[1]] + 1 /\ job.started = drain[d].started
             /\ InWindow(d, r) /\ MayInsert(d, r) /\ ~MayInsert(d, r)'
    <3>1. drain[d].started \in 1 .. DrainAttempts + 1
      <4>1. drain[d].state = "active" /\ JobFits(d)
        BY <2>5 DEF MayInsert, CountInv
      <4>2. drain[d].made \in Nat /\ drain[d].started \in 0 .. DrainAttempts + 1
        BY <1>4 DEF DrainJob
      <4> QED BY <4>1, <4>2 DEF JobFits
    <3>2. PICK a : a = <<d, job.started>>
      OBVIOUS
    <3>3. a \notin Spent(r)
      BY <2>5, <3>2 DEF Spent
    <3>4. a \in Spent(r)'
      <4>1. InWindow(d, r)'
        BY <1>1, <2>5, <3>1 DEF InWindow
      <4>2. a \in Days \X (1 .. DrainAttempts + 1) /\ a[1] = d /\ a[2] = job.started
        BY <2>5, <3>1, <3>2
      <4>3. a[2] <= drain'[d].started
        BY <1>1, <1>4, <4>2
      <4> QED BY <2>5, <4>1, <4>2, <4>3 DEF Spent, AttemptsOver
    <3>5. IsFiniteSet(Spent(r) \cup {a}) /\ Cardinality(Spent(r) \cup {a}) = Cardinality(Spent(r)) + 1
      BY <2>2, <3>3, FS_AddElement
    <3>6. Cardinality(Spent(r) \cup {a}) <= Cardinality(Spent(r)')
      <4>1. Spent(r) \cup {a} \subseteq Spent(r)'
        BY <2>1, <3>4
      <4> QED BY <2>2, <4>1, FS_Subset
    <3> QED BY <2>2, <2>3, <2>5, <3>5, <3>6
  <2> QED BY <2>4, <2>5
<1> QED BY <1>2, <1>3, <1>5 DEF CountInv

\* An event that arrives is in no batch, and no copy of it is.
LEMMA ArrivalCounts ==
    ASSUME DrainInv, CountInv, NEW e \in Events, NEW at \in Time, Ingest(e, at)
    PROVE  CountInv'
<1>1. /\ stored' = stored \cup {<<e, at>>} /\ e \notin Ids(stored)
      /\ UNCHANGED <<now, deleted, copies, lastDrained, drain, deleteSource, due, faults>>
  BY DEF Ingest
<1>2. \A c \in Days : JobFits(c)'
  BY <1>1, OthersFit
<1>3. \A x \in Events \ Ids(stored)' : copies'[x] = 0
  BY <1>1 DEF CountInv, Ids
<1>4. ASSUME NEW r PROVE Spent(r)' = Spent(r)
  BY <1>1 DEF Spent, AttemptsOver, InWindow, MayInsert, Beyond
<1>5. ASSUME NEW r \in stored' PROVE copies'[r[1]] <= Cardinality(Spent(r)')
  <2>1. CASE r \in stored
    BY <1>1, <1>4, <2>1 DEF CountInv
  <2>2. CASE r = <<e, at>>
    <3>1. Spent(r)' \subseteq Days \X (1 .. DrainAttempts + 1)
      BY DEF Spent, AttemptsOver
    <3>2. Cardinality(Spent(r)') \in Nat
      BY <3>1, AttemptsFinite
    <3>3. copies'[r[1]] = 0
      BY <1>1, <2>2 DEF CountInv
    <3> QED BY <3>2, <3>3
  <2> QED BY <1>1, <2>1, <2>2
<1> QED BY <1>1, <1>2, <1>3, <1>5 DEF CountInv

\* Time and the scheduler.
LEMMA ClockCounts ==
    ASSUME DrainInv, CountInv, Tick \/ Schedule PROVE CountInv'
<1>0. StoreInv /\ drain \in [Days -> Drained]
  BY DEF DrainInv, StoreInv
<1>1. CASE Tick
  <2>1. UNCHANGED <<stored, deleted, copies, drain, deleteSource, faults>>
    BY <1>1 DEF Tick
  <2>2. \A c \in Days : JobFits(c)'
    BY <2>1, OthersFit
  <2>3. ASSUME NEW r PROVE Spent(r)' = Spent(r)
    BY <2>1 DEF Spent, AttemptsOver, InWindow, MayInsert, Beyond
  <2> QED BY <2>1, <2>2, <2>3 DEF CountInv, Ids
<1>2. CASE Schedule
  <2>0. MaxTime \in Nat /\ TicksPerDay \in Nat \ {0} /\ DrainAttempts \in Nat \ {0}
    BY DrainAssumption DEF DrainAssumption
  <2>1. PICK d \in Days : d = now \div TicksPerDay /\ drain[d].state = "none"
    <3>1. now \div TicksPerDay \in Days
      BY <1>0, <2>0 DEF StoreInv, Time, Days
    <3> QED BY <1>2, <3>1 DEF Schedule
  <2>2. PICK job : job = [NoDrainJob EXCEPT !.state = "waiting", !.from = DrainFrom, !.to = now]
    OBVIOUS
  <2>3. /\ drain' = [drain EXCEPT ![d] = job]
        /\ UNCHANGED <<now, stored, deleted, copies, lastDrained, deleteSource, due, faults>>
    BY <1>2, <2>1, <2>2 DEF Schedule
  <2>4. DrainFrom \in Time
    BY <1>0, <2>0 DEF DrainFrom, StoreInv, Time, None
  <2>5. job \in DrainJob /\ job.state = "waiting" /\ job.started = 0 /\ job.made = 0
        /\ job.stalled = FALSE /\ job.batch = {} /\ job.step = "read"
    <3>1. NoDrainJob \in DrainJob
      BY <2>0 DEF NoDrainJob, DrainJob, Time
    <3>2. now \in Time
      BY <1>0 DEF StoreInv
    <3>3. job \in DrainJob
      BY <2>2, <2>4, <3>1, <3>2 DEF DrainJob
    <3> QED BY <2>2, <3>3 DEF NoDrainJob
  <2>6. drain'[d] = job
    BY <1>0, <2>3
  <2>7. JobFits(d)'
    BY <2>0, <2>5, <2>6 DEF JobFits
  <2>8. drain[d].started = 0
    BY <2>1 DEF CountInv, JobFits
  <2>9. ~MayInsert(d, 0)' /\ \A r \in stored : ~MayInsert(d, r)'
    BY <2>5, <2>6 DEF MayInsert
  <2>10. faults' \in 0 .. MaxFaults /\ (deleted' # {} => deleteSource)
    BY <2>3 DEF CountInv
  <2>11. drain[d].started <= job.started
    BY <2>5, <2>8
  <2> QED BY <2>3, <2>5, <2>7, <2>8, <2>9, <2>10, <2>11, OneJobCounts
<1> QED BY <1>1, <1>2

\* A new attempt has spent nothing.
LEMMA StartCounts ==
    ASSUME DrainInv, CountInv, NEW d \in Days, StartDrain(d) PROVE CountInv'
<1>0. StoreInv /\ drain \in [Days -> Drained] /\ JobFits(d) /\ drain[d] \in DrainJob
      /\ DrainAttempts \in Nat
  BY DrainAssumption DEF DrainInv, StoreInv, CountInv, JobFits, DrainAssumption
<1>1. PICK job : job = [drain[d] EXCEPT !.state = "active", !.step = "read",
                                       !.cursor = <<drain[d].from, 0>>,
                                       !.started = @ + 1, !.fails = FALSE]
  OBVIOUS
<1>2. /\ drain' = [drain EXCEPT ![d] = job] /\ drain[d].state = "waiting"
      /\ UNCHANGED <<now, stored, deleted, copies, lastDrained, deleteSource, faults>>
  BY <1>0, <1>1 DEF StartDrain
<1>3. drain[d].made < DrainAttempts /\ drain[d].batch = {}
      /\ drain[d].started = drain[d].made + (IF drain[d].stalled THEN 1 ELSE 0)
  BY <1>0, <1>2 DEF JobFits, DrainJob
<1>4. drain[d].made \in Nat /\ drain[d].started \in Nat /\ drain[d].stalled \in BOOLEAN
      /\ drain[d].started + 1 \in 0 .. DrainAttempts + 1
      /\ drain[d].from \in Time /\ drain[d].from \in Nat
  BY <1>0, <1>3, DrainAssumption DEF DrainJob, Time, DrainAssumption
<1>5. /\ job \in DrainJob /\ job.state = "active" /\ job.step = "read" /\ job.batch = {}
      /\ job.from = drain[d].from /\ job.to = drain[d].to /\ job.cursor[1] = job.from
      /\ job.started = drain[d].started + 1 /\ job.made = drain[d].made
      /\ job.stalled = drain[d].stalled
  BY <1>0, <1>1, <1>3, <1>4 DEF DrainJob
<1>6. drain'[d] = job
  BY <1>0, <1>2
<1>7. JobFits(d)'
  BY <1>3, <1>4, <1>5, <1>6 DEF JobFits
<1>8. faults' \in 0 .. MaxFaults /\ (deleted' # {} => deleteSource)
  BY <1>2 DEF CountInv
<1>9. drain[d].started <= job.started /\ job.started # drain[d].started
  BY <1>4, <1>5
<1> QED BY <1>2, <1>5, <1>7, <1>8, <1>9, OneJobCounts

\* The rows of a batch were ahead of the cursor, and those after it still are.
LEMMA ReadCounts ==
    ASSUME DrainInv, CountInv, NEW d \in Days, ReadBatch(d) PROVE CountInv'
<1>0. StoreInv /\ drain \in [Days -> Drained] /\ JobFits(d) /\ drain[d] \in DrainJob
      /\ stored \subseteq Rows /\ IsFiniteSet(stored)
  BY DEF DrainInv, StoreInv, CountInv, JobFits
<1>a. Events \subseteq Nat \ {0} /\ MaxTime \in Nat /\ Rows \subseteq Nat \X Nat
  <2>1. Events \subseteq Nat \ {0} /\ MaxTime \in Nat
    BY DrainAssumption DEF DrainAssumption
  <2>2. Time \subseteq Nat
    BY DEF Time
  <2> QED BY <2>1, <2>2 DEF Rows
<1>1. PICK rows : rows = NextBatch(d)
  OBVIOUS
<1>2. PICK S : S = {r \in Live : r[2] <= drain[d].to /\ Beyond(r, drain[d].cursor)}
  OBVIOUS
<1>3. S \subseteq stored /\ IsFiniteSet(S) /\ S \subseteq Nat \X Nat
  <2>1. S \subseteq stored
    BY <1>2 DEF Live
  <2> QED BY <1>0, <1>a, <2>1, FS_Subset
<1>4. rows \subseteq S /\ IsFiniteSet(rows) /\ rows \subseteq Nat \X Nat /\ rows \subseteq Rows
  BY <1>0, <1>1, <1>2, <1>3, BatchOfRows DEF NextBatch
<1>5. PICK cursor : cursor = IF rows = {} THEN drain[d].cursor
                             ELSE <<LastOf(rows)[2], LastOf(rows)[1]>>
  OBVIOUS
<1>6. PICK job : job = [drain[d] EXCEPT !.step = IF rows = {} THEN "finish" ELSE "insert",
                                       !.batch = Ids(rows), !.cursor = cursor]
  OBVIOUS
<1>7. /\ drain' = [drain EXCEPT ![d] = job]
      /\ UNCHANGED <<now, stored, deleted, copies, lastDrained, deleteSource, due, faults>>
      /\ drain[d].state = "active" /\ drain[d].step = "read"
  <2>1. /\ drain' = [drain EXCEPT
              ![d].step = IF rows = {} THEN "finish" ELSE "insert",
              ![d].batch = Ids(rows),
              ![d].cursor = IF rows = {} THEN @ ELSE <<LastOf(rows)[2], LastOf(rows)[1]>>]
        /\ UNCHANGED <<now, stored, deleted, copies, lastDrained, deleteSource, due, faults>>
        /\ drain[d].state = "active" /\ drain[d].step = "read"
    BY <1>1 DEF ReadBatch
  <2> QED BY <1>0, <1>5, <1>6, <2>1
<1>8. /\ drain[d].cursor \in Time \X (Events \cup {0}) /\ drain[d].from <= drain[d].cursor[1]
      /\ drain[d].cursor[1] \in Nat /\ drain[d].cursor[2] \in Nat /\ drain[d].from \in Nat
  <2>1. drain[d].cursor \in Time \X (Events \cup {0}) /\ drain[d].from \in Time
    BY <1>0 DEF DrainJob
  <2>2. drain[d].from <= drain[d].cursor[1]
    BY <1>0, <1>7 DEF JobFits
  <2>3. drain[d].cursor[1] \in Time /\ drain[d].cursor[2] \in Events \cup {0}
    BY <2>1
  <2>4. Time \subseteq Nat /\ Events \cup {0} \subseteq Nat
    BY <1>a DEF Time
  <2> QED BY <2>1, <2>2, <2>3, <2>4
<1>9. /\ cursor \in Time \X (Events \cup {0}) /\ cursor[1] \in Nat /\ cursor[2] \in Nat
      /\ drain[d].from <= cursor[1]
      /\ \A r \in Rows : Beyond(r, cursor) => Beyond(r, drain[d].cursor)
      /\ \A r \in rows : ~Beyond(r, cursor)
  <2>1. CASE rows = {}
    BY <1>5, <1>8, <2>1
  <2>2. CASE rows # {}
    <3>1. PICK l : l = LastOf(rows)
      OBVIOUS
    <3>2. l \in rows /\ \A r \in rows : r = l \/ Precedes(r, l)
      BY <1>4, <2>2, <3>1, LastIsLast
    <3>3. cursor = <<l[2], l[1]>> /\ cursor[1] = l[2] /\ cursor[2] = l[1]
      BY <1>5, <2>2, <3>1
    <3>4. l \in Rows /\ l[1] \in Events /\ l[2] \in Time /\ l[1] \in Nat /\ l[2] \in Nat
      BY <1>4, <1>a, <3>2 DEF Rows, Time
    <3>5. Beyond(l, drain[d].cursor)
      BY <1>2, <1>4, <3>2
    <3>6. drain[d].from <= cursor[1]
      BY <1>8, <3>3, <3>4, <3>5 DEF Beyond
    <3>7. ASSUME NEW r \in Rows, Beyond(r, cursor) PROVE Beyond(r, drain[d].cursor)
      <4>1. r[1] \in Nat /\ r[2] \in Nat
        BY <1>a DEF Rows, Time
      <4> QED BY <1>8, <3>3, <3>4, <3>5, <3>7, <4>1 DEF Beyond
    <3>8. ASSUME NEW r \in rows PROVE ~Beyond(r, cursor)
      <4>1. r[1] \in Nat /\ r[2] \in Nat /\ (r = l \/ Precedes(r, l))
        BY <1>4, <3>2
      <4> QED BY <3>3, <3>4, <4>1 DEF Beyond, Precedes
    <3> QED BY <3>3, <3>4, <3>6, <3>7, <3>8
  <2> QED BY <2>1, <2>2
<1>10. Ids(rows) \subseteq Events /\ Ids(rows) \subseteq Ids(stored)
  BY <1>3, <1>4 DEF Ids, Rows
<1>11. /\ job \in DrainJob /\ job.state = "active" /\ job.batch = Ids(rows)
       /\ job.from = drain[d].from /\ job.to = drain[d].to /\ job.cursor = cursor
       /\ job.started = drain[d].started /\ job.made = drain[d].made
       /\ job.stalled = drain[d].stalled /\ job.step = (IF rows = {} THEN "finish" ELSE "insert")
  BY <1>0, <1>6, <1>7, <1>9, <1>10 DEF DrainJob
<1>12. drain'[d] = job
  BY <1>0, <1>7
<1>13. ASSUME NEW r \in stored, r[1] \in Ids(rows) PROVE r \in rows
  <2>1. PICK s \in rows : s[1] = r[1]
    BY <1>13 DEF Ids
  <2> QED BY <1>0, <1>3, <1>4, <2>1 DEF StoreInv
<1>14. ASSUME NEW r \in rows PROVE InWindow(d, r) /\ Beyond(r, drain[d].cursor)
  <2>1. r[2] <= drain[d].to /\ Beyond(r, drain[d].cursor) /\ r[2] \in Nat /\ r[1] \in Nat
    BY <1>2, <1>4
  <2> QED BY <1>8, <2>1 DEF InWindow, Beyond
<1>15. JobFits(d)'
  <2>1. ASSUME NEW r \in stored', r[1] \in drain'[d].batch
        PROVE  InWindow(d, r)' /\ ~Beyond(r, drain'[d].cursor)
    <3>1. r \in rows
      BY <1>7, <1>11, <1>12, <1>13, <2>1
    <3> QED BY <1>9, <1>11, <1>12, <1>14, <3>1 DEF InWindow
  <2>2. drain'[d].batch \subseteq Ids(stored)'
    BY <1>7, <1>10, <1>11, <1>12 DEF Ids
  <2> QED BY <1>0, <1>7, <1>9, <1>11, <1>12, <2>1, <2>2 DEF JobFits, Beyond
<1>16. ASSUME NEW r \in stored, MayInsert(d, r)' PROVE MayInsert(d, r)
  <2>1. Beyond(r, cursor) \/ r[1] \in Ids(rows)
    BY <1>11, <1>12, <1>16 DEF MayInsert, Beyond
  <2>2. Beyond(r, drain[d].cursor)
    BY <1>0, <1>9, <1>13, <1>14, <2>1
  <2> QED BY <1>7, <2>2 DEF MayInsert
<1>17. faults' \in 0 .. MaxFaults /\ (deleted' # {} => deleteSource)
       /\ drain[d].started <= job.started
  BY <1>0, <1>7, <1>11 DEF CountInv, DrainJob
<1> QED BY <1>7, <1>11, <1>15, <1>16, <1>17, OneJobCounts

\* A row that has been inserted is behind the cursor.
LEMMA InsertCounts ==
    ASSUME DrainInv, CountInv, NEW d \in Days, InsertBatch(d) PROVE CountInv'
<1>0. StoreInv /\ drain \in [Days -> Drained] /\ JobFits(d) /\ drain[d] \in DrainJob
      /\ copies \in [Events -> Nat] /\ stored \subseteq Rows
  BY DEF DrainInv, StoreInv, CountInv, JobFits
<1>1. PICK job : job = IF deleteSource THEN [drain[d] EXCEPT !.step = "delete"]
                       ELSE [drain[d] EXCEPT !.step = AfterBatch(d), !.batch = {}]
  OBVIOUS
<1>2. /\ drain' = [drain EXCEPT ![d] = job]
      /\ UNCHANGED <<now, stored, deleted, lastDrained, deleteSource, due, faults>>
      /\ drain[d].state = "active" /\ drain[d].step = "insert"
      /\ copies' = [e \in Events |-> IF e \in drain[d].batch THEN copies[e] + 1 ELSE copies[e]]
  BY <1>0, <1>1 DEF InsertBatch
<1>3. AfterBatch(d) \in {"read", "finish"}
  BY DEF AfterBatch
<1>4. /\ job \in DrainJob /\ job.state = "active" /\ job.step # "insert"
      /\ job.from = drain[d].from /\ job.to = drain[d].to /\ job.cursor = drain[d].cursor
      /\ job.started = drain[d].started /\ job.made = drain[d].made
      /\ job.stalled = drain[d].stalled /\ job.batch \subseteq drain[d].batch
      /\ job.step = "delete" => deleteSource
  BY <1>0, <1>1, <1>2, <1>3 DEF DrainJob
<1>5. drain'[d] = job
  BY <1>0, <1>2
<1>6. JobFits(d)'
  <2>1. ASSUME NEW r \in stored', r[1] \in drain'[d].batch
        PROVE  InWindow(d, r)' /\ ~Beyond(r, drain'[d].cursor)
    <3>1. r \in stored /\ r[1] \in drain[d].batch
      BY <1>2, <1>4, <1>5, <2>1
    <3>2. InWindow(d, r) /\ ~Beyond(r, drain[d].cursor)
      BY <1>0, <3>1 DEF JobFits
    <3> QED BY <1>4, <1>5, <3>2 DEF InWindow
  <2>2. drain'[d].batch \subseteq Ids(stored)'
    BY <1>0, <1>2, <1>4, <1>5 DEF JobFits, Ids
  <2> QED BY <1>0, <1>2, <1>4, <1>5, <2>1, <2>2 DEF JobFits, Beyond
<1>7. ASSUME NEW e \in Events \ Ids(stored) PROVE copies'[e] = copies[e]
  BY <1>0, <1>2 DEF JobFits
<1>8. ASSUME NEW r \in stored
      PROVE  /\ MayInsert(d, r)' => MayInsert(d, r)
             /\ \/ copies'[r[1]] = copies[r[1]]
                \/ /\ copies'[r[1]] = copies[r[1]] + 1
                   /\ InWindow(d, r) /\ MayInsert(d, r) /\ ~MayInsert(d, r)'
  <2>1. r[1] \in Events
    BY <1>0 DEF Rows
  <2>2. MayInsert(d, r)' => Beyond(r, drain[d].cursor)
    BY <1>4, <1>5 DEF MayInsert, Beyond
  <2>3. MayInsert(d, r)' => MayInsert(d, r)
    BY <1>2, <2>2 DEF MayInsert
  <2>4. CASE r[1] \in drain[d].batch
    <3>1. InWindow(d, r) /\ ~Beyond(r, drain[d].cursor)
      BY <1>0, <2>4 DEF JobFits
    <3>2. MayInsert(d, r)
      BY <1>2, <2>4 DEF MayInsert
    <3> QED BY <1>2, <2>1, <2>2, <2>3, <2>4, <3>1, <3>2
  <2> QED BY <1>2, <2>1, <2>3, <2>4
<1>9. faults' \in 0 .. MaxFaults /\ (deleted' # {} => deleteSource)
      /\ drain[d].started <= job.started
  BY <1>0, <1>2, <1>4 DEF CountInv, DrainJob
<1> QED BY <1>2, <1>4, <1>6, <1>7, <1>8, <1>9, OneJobCounts

\* A delete inserts nothing.
LEMMA DeleteCounts ==
    ASSUME DrainInv, CountInv, NEW d \in Days, DeleteBatch(d) PROVE CountInv'
<1>0. StoreInv /\ drain \in [Days -> Drained] /\ JobFits(d) /\ drain[d] \in DrainJob
  BY DEF DrainInv, StoreInv, CountInv, JobFits
<1>1. PICK job : job = [drain[d] EXCEPT !.step = AfterBatch(d), !.batch = {}]
  OBVIOUS
<1>2. /\ drain' = [drain EXCEPT ![d] = job]
      /\ UNCHANGED <<now, stored, copies, lastDrained, deleteSource, due, faults>>
      /\ drain[d].state = "active" /\ drain[d].step = "delete"
  BY <1>0, <1>1 DEF DeleteBatch
<1>3. AfterBatch(d) \in {"read", "finish"}
  BY DEF AfterBatch
<1>4. /\ job \in DrainJob /\ job.state = "active" /\ job.step \in {"read", "finish"}
      /\ job.from = drain[d].from /\ job.to = drain[d].to /\ job.cursor = drain[d].cursor
      /\ job.started = drain[d].started /\ job.made = drain[d].made
      /\ job.stalled = drain[d].stalled /\ job.batch = {}
  BY <1>0, <1>1, <1>2, <1>3 DEF DrainJob
<1>5. drain'[d] = job
  BY <1>0, <1>2
<1>6. JobFits(d)'
  BY <1>0, <1>2, <1>4, <1>5 DEF JobFits
<1>7. ASSUME NEW r \in stored, MayInsert(d, r)' PROVE MayInsert(d, r)
  <2>1. Beyond(r, drain[d].cursor)
    BY <1>4, <1>5, <1>7 DEF MayInsert, Beyond
  <2> QED BY <1>2, <2>1 DEF MayInsert
<1>8. faults' \in 0 .. MaxFaults /\ deleteSource /\ drain[d].started <= job.started
  BY <1>0, <1>2, <1>4 DEF CountInv, DrainJob, JobFits
<1> QED BY <1>2, <1>4, <1>6, <1>7, <1>8, OneJobCounts

\* A failing insert may have been taken; the attempt inserts no more.
LEMMA FailCounts ==
    ASSUME DrainInv, CountInv, NEW d \in Days, AttemptFails(d) PROVE CountInv'
<1>0. StoreInv /\ drain \in [Days -> Drained] /\ JobFits(d) /\ drain[d] \in DrainJob
      /\ copies \in [Events -> Nat] /\ stored \subseteq Rows /\ faults \in 0 .. MaxFaults
      /\ MaxFaults \in Nat
  BY DrainAssumption DEF DrainInv, StoreInv, CountInv, JobFits, DrainAssumption
<1>1. PICK job : job = [drain[d] EXCEPT !.step = "finish", !.fails = TRUE, !.batch = {}]
  OBVIOUS
<1>2. /\ drain' = [drain EXCEPT ![d] = job]
      /\ UNCHANGED <<now, stored, deleted, lastDrained, deleteSource, due>>
      /\ drain[d].state = "active" /\ faults < MaxFaults /\ faults' = faults + 1
      /\ \/ UNCHANGED copies
         \/ /\ drain[d].step = "insert"
            /\ copies' = [e \in Events |-> IF e \in drain[d].batch THEN copies[e] + 1
                                           ELSE copies[e]]
  BY <1>0, <1>1 DEF AttemptFails, Fault
<1>3. /\ job \in DrainJob /\ job.state = "active" /\ job.step = "finish"
      /\ job.from = drain[d].from /\ job.to = drain[d].to /\ job.cursor = drain[d].cursor
      /\ job.started = drain[d].started /\ job.made = drain[d].made
      /\ job.stalled = drain[d].stalled /\ job.batch = {}
  BY <1>0, <1>1, <1>2 DEF DrainJob
<1>4. drain'[d] = job
  BY <1>0, <1>2
<1>5. JobFits(d)'
  BY <1>0, <1>2, <1>3, <1>4 DEF JobFits
<1>6. \A e \in Events \ Ids(stored) : copies'[e] = copies[e]
  BY <1>0, <1>2 DEF JobFits
<1>7. ASSUME NEW r \in stored
      PROVE  /\ ~MayInsert(d, r)'
             /\ \/ copies'[r[1]] = copies[r[1]]
                \/ copies'[r[1]] = copies[r[1]] + 1 /\ InWindow(d, r) /\ MayInsert(d, r)
  <2>1. r[1] \in Events
    BY <1>0 DEF Rows
  <2>2. ~MayInsert(d, r)'
    BY <1>3, <1>4 DEF MayInsert
  <2>3. CASE r[1] \in drain[d].batch /\ drain[d].step = "insert"
    <3>1. InWindow(d, r) /\ MayInsert(d, r)
      BY <1>0, <1>2, <2>3 DEF JobFits, MayInsert
    <3> QED BY <1>2, <2>1, <2>2, <2>3, <3>1
  <2> QED BY <1>2, <2>1, <2>2, <2>3
<1>8. faults' \in 0 .. MaxFaults /\ (deleted' # {} => deleteSource)
      /\ drain[d].started <= job.started
  BY <1>0, <1>2, <1>3 DEF CountInv, DrainJob
<1> QED BY <1>2, <1>3, <1>5, <1>6, <1>7, <1>8, OneJobCounts

\* A job that is not active inserts nothing, and has been started once more
\* than it has ended or stalled before.
LEMMA EndCounts ==
    ASSUME DrainInv, CountInv, NEW d \in Days, FinishDrain(d) \/ WatermarkFails(d) \/ WorkerDies(d)
    PROVE  CountInv'
<1>0. StoreInv /\ drain \in [Days -> Drained] /\ JobFits(d) /\ drain[d] \in DrainJob
      /\ faults \in 0 .. MaxFaults /\ MaxFaults \in Nat /\ DrainAttempts \in Nat \ {0}
  BY DrainAssumption DEF DrainInv, StoreInv, CountInv, JobFits, DrainAssumption
<1>1. UNCHANGED <<now, stored, deleted, copies, deleteSource, due>> /\ drain[d].state = "active"
      /\ faults' \in 0 .. MaxFaults
  <2>1. faults' = faults \/ (faults < MaxFaults /\ faults' = faults + 1)
    BY DEF FinishDrain, WatermarkFails, WorkerDies, Fault
  <2>2. faults' \in 0 .. MaxFaults
    BY <1>0, <2>1
  <2> QED BY <2>2 DEF FinishDrain, WatermarkFails, WorkerDies
<1>2. /\ drain[d].made \in Nat /\ drain[d].made < DrainAttempts
      /\ drain[d].started = drain[d].made + (IF drain[d].stalled THEN 1 ELSE 0) + 1
      /\ drain[d].stalled \in BOOLEAN
  BY <1>0, <1>1 DEF JobFits, DrainJob
<1>3. PICK job \in DrainJob :
         /\ drain' = [drain EXCEPT ![d] = job]
         /\ job.from = drain[d].from /\ job.to = drain[d].to
         /\ job.started = drain[d].started /\ job.batch = {} /\ job.step = "read"
         /\ job.state \in {"waiting", "completed", "failed"}
         /\ job.state = "waiting" =>
               /\ job.made < DrainAttempts
               /\ job.started = job.made + (IF job.stalled THEN 1 ELSE 0)
  <2>1. ASSUME NEW failing \in BOOLEAN, NEW job, job = Ended(drain[d], failing)
        PROVE  /\ job \in DrainJob /\ job.from = drain[d].from /\ job.to = drain[d].to
               /\ job.started = drain[d].started /\ job.batch = {} /\ job.step = "read"
               /\ job.state \in {"waiting", "completed", "failed"}
               /\ job.state = "waiting" =>
                     /\ job.made < DrainAttempts
                     /\ job.started = job.made + (IF job.stalled THEN 1 ELSE 0)
    <3>1. PICK result \in {"completed", "waiting", "failed"} :
             /\ job = [drain[d] EXCEPT !.made = @ + 1, !.step = "read", !.batch = {},
                                       !.state = result]
             /\ result = "waiting" => drain[d].made + 1 < DrainAttempts
      BY <1>0, <2>1 DEF Ended, DrainJob
    <3>2. drain[d].made + 1 \in 0 .. DrainAttempts
      BY <1>0, <1>2
    <3>3. job \in DrainJob /\ job.made = drain[d].made + 1 /\ job.state = result
          /\ job.stalled = drain[d].stalled /\ job.started = drain[d].started
          /\ job.batch = {} /\ job.step = "read"
          /\ job.from = drain[d].from /\ job.to = drain[d].to
      BY <1>0, <3>1, <3>2 DEF DrainJob
    <3> QED BY <1>2, <3>1, <3>3
  <2>2. CASE FinishDrain(d) \/ WatermarkFails(d)
    <3>1. PICK failing \in BOOLEAN : drain' = [drain EXCEPT ![d] = Ended(drain[d], failing)]
      <4>1. drain[d].fails \in BOOLEAN
        BY <1>0 DEF DrainJob
      <4> QED BY <1>0, <2>2, <4>1 DEF FinishDrain, WatermarkFails
    <3> QED BY <2>1, <3>1
  <2>3. CASE WorkerDies(d)
    <3>1. PICK job : job = [drain[d] EXCEPT
                              !.state = IF drain[d].stalled THEN "failed" ELSE "waiting",
                              !.stalled = TRUE, !.step = "read", !.batch = {}]
      OBVIOUS
    <3>2. drain' = [drain EXCEPT ![d] = job]
      BY <1>0, <2>3, <3>1 DEF WorkerDies
    <3>3. /\ job \in DrainJob /\ job.from = drain[d].from /\ job.to = drain[d].to
          /\ job.started = drain[d].started /\ job.made = drain[d].made /\ job.stalled = TRUE
          /\ job.batch = {} /\ job.step = "read"
          /\ job.state = (IF drain[d].stalled THEN "failed" ELSE "waiting")
      BY <1>0, <3>1 DEF DrainJob
    <3>4. job.state = "waiting" =>
             job.made < DrainAttempts /\ job.started = job.made + (IF job.stalled THEN 1 ELSE 0)
      BY <1>2, <3>3
    <3>5. job.state \in {"waiting", "completed", "failed"}
      BY <3>3
    <3> QED BY <3>2, <3>3, <3>4, <3>5
  <2> QED BY <2>2, <2>3
<1>4. drain'[d] = job
  BY <1>0, <1>3
<1>5. JobFits(d)'
  <2>1. drain'[d].state = "waiting" =>
          drain'[d].started = drain'[d].made + (IF drain'[d].stalled THEN 1 ELSE 0)
                                + (IF drain'[d].state = "active" THEN 1 ELSE 0)
    BY <1>3, <1>4 DEF DrainJob
  <2>2. drain'[d].batch = {} /\ drain'[d].step = "read" /\ drain'[d] \in DrainJob
        /\ drain'[d].state \in {"waiting", "completed", "failed"}
        /\ (drain'[d].state = "waiting" => drain'[d].made < DrainAttempts)
    BY <1>3, <1>4
  <2> QED BY <2>1, <2>2 DEF JobFits
<1>6. \A r \in stored : ~MayInsert(d, r)'
  BY <1>3, <1>4 DEF MayInsert
<1>7. (deleted' # {} => deleteSource) /\ drain[d].started <= job.started
  BY <1>0, <1>1, <1>3 DEF CountInv, DrainJob
<1> QED BY <1>1, <1>3, <1>5, <1>6, <1>7, OneJobCounts

\* Every step keeps it.
LEMMA NextCount == DrainInv /\ CountInv /\ [DrainNext]_drainVars => CountInv'
<1> SUFFICES ASSUME DrainInv, CountInv, [DrainNext]_drainVars PROVE CountInv'
  OBVIOUS
<1>1. CASE Tick \/ Schedule
  BY <1>1, ClockCounts
<1>2. ASSUME NEW e \in Events, NEW at \in Time, Ingest(e, at) PROVE CountInv'
  BY <1>2, ArrivalCounts
<1>3. ASSUME NEW d \in Days, DrainStep(d) PROVE CountInv'
  BY <1>3, StartCounts, ReadCounts, InsertCounts, DeleteCounts, FailCounts, EndCounts
  DEF DrainStep
<1>4. CASE UNCHANGED drainVars
  <2>1. UNCHANGED <<now, stored, deleted, copies, lastDrained, drain, deleteSource, due, faults>>
    BY <1>4 DEF drainVars
  <2>2. \A c \in Days : JobFits(c)'
    BY <2>1, OthersFit
  <2>3. ASSUME NEW r PROVE Spent(r)' = Spent(r)
    BY <2>1 DEF Spent, AttemptsOver, InWindow, MayInsert, Beyond
  <2> QED BY <2>1, <2>2, <2>3 DEF CountInv, Ids
<1> QED BY <1>1, <1>2, <1>3, <1>4 DEF DrainNext

\* Every reachable state of the drain is one both invariants describe.
LEMMA CountInvHolds == DrainSpec => [](DrainInv /\ CountInv)
<1>1. DrainInit => CountInv
  BY InitCount
<1> QED BY <1>1, NextCount, DrainInvHolds, PTL DEF DrainSpec

\* An attempt inserts no event twice: a copy too many is the work of another
\* attempt or of another job over the same time (analytics-drain.worker.ts:
\* the cursor moves past a batch before the next is read).
THEOREM CopiesCountedHolds == DrainSpec => []CopiesCounted
<1>1. ASSUME DrainInv, CountInv, NEW r \in stored PROVE copies[r[1]] <= Cardinality(AttemptsOver(r))
  <2>1. Spent(r) \subseteq AttemptsOver(r) /\ AttemptsOver(r) \subseteq Days \X (1 .. DrainAttempts + 1)
    BY DEF Spent, AttemptsOver
  <2>2. /\ IsFiniteSet(AttemptsOver(r)) /\ Cardinality(AttemptsOver(r)) \in Nat
        /\ Cardinality(Spent(r)) \in Nat
    BY <2>1, AttemptsFinite
  <2>3. Cardinality(Spent(r)) <= Cardinality(AttemptsOver(r))
    BY <2>1, <2>2, FS_Subset
  <2>4. copies[r[1]] \in Nat /\ copies[r[1]] <= Cardinality(Spent(r))
    BY <1>1 DEF DrainInv, StoreInv, Rows, CountInv
  <2> QED BY <2>2, <2>3, <2>4
<1>2. DrainInv /\ CountInv => CopiesCounted
  BY <1>1 DEF CopiesCounted
<1> QED BY <1>2, CountInvHolds, PTL

\* The drain's variables keep their types: in particular a job is started at
\* most once more than it has attempts (queues/analytics-drain.queue.ts).
THEOREM DrainTypes == DrainSpec => []DrainTypeOK
<1>1. DrainInv /\ CountInv => DrainTypeOK
  <2> SUFFICES ASSUME DrainInv, CountInv PROVE DrainTypeOK
    OBVIOUS
  <2>1. drain \in [Days -> DrainJob]
        /\ \A d \in Days : \/ drain[d].state = "active"
                           \/ drain[d].batch = {} /\ drain[d].step = "read"
    BY DEF DrainInv, StoreInv, CountInv, JobFits
  <2> QED BY <2>1 DEF DrainInv, StoreInv, CountInv, DrainTypeOK, Rows
<1> QED BY <1>1, CountInvHolds, PTL

\* Of rows that have all been inserted ClickHouse has as many or more, and as
\* many if none was inserted twice.
LEMMA CopiesOfRows ==
    ASSUME StoreInv, NEW S, S \subseteq stored, \A r \in S : copies[r[1]] > 0
    PROVE  /\ Cardinality(S) <= Cardinality(CopiesOf(S))
           /\ (\A r \in S : copies[r[1]] <= 1) => Cardinality(CopiesOf(S)) = Cardinality(S)
<1> DEFINE rows(r) == {r} \X (1 .. copies[r[1]])
<1> DEFINE f == [r \in S |-> <<r, 1>>]
<1>1. IsFiniteSet(S) /\ \A r \in S : copies[r[1]] \in Nat
  BY FS_Subset DEF StoreInv, Rows
<1>2. IsFiniteSet(CopiesOf(S))
  <2>1. IsFiniteSet({rows(r) : r \in S})
    <3> DEFINE g == [r \in S |-> rows(r)]
    <3>1. g \in Surjection(S, {rows(r) : r \in S})
      BY DEF Surjection
    <3> HIDE DEF g, rows
    <3> QED BY <1>1, <3>1, FS_Surjection
  <2>2. ASSUME NEW r \in S PROVE IsFiniteSet(rows(r))
    <3>1. copies[r[1]] \in Int /\ 1 \in Int
      BY <1>1
    <3>2. IsFiniteSet(1 .. copies[r[1]])
      BY <3>1, FS_Interval, Zenon
    <3> QED BY <3>2, FS_Singleton, FS_Product
  <2>3. CopiesOf(S) = UNION {rows(r) : r \in S}
    BY DEF CopiesOf
  <2> HIDE DEF rows
  <2> QED BY <2>1, <2>2, <2>3, FS_UNION
<1>3. f \in Injection(S, CopiesOf(S))
  <2>1. \A r \in S : <<r, 1>> \in CopiesOf(S)
    BY <1>1 DEF CopiesOf
  <2>2. f \in [S -> CopiesOf(S)] /\ \A r, q \in S : f[r] = f[q] => r = q
    BY <2>1
  <2> QED BY <2>2, Fun_IsInj
<1>4. ASSUME \A r \in S : copies[r[1]] <= 1 PROVE f \in Surjection(S, CopiesOf(S))
  <2>1. ASSUME NEW c \in CopiesOf(S) PROVE \E r \in S : f[r] = c
    <3>1. PICK r \in S : c \in {r} \X (1 .. copies[r[1]])
      BY DEF CopiesOf
    <3>2. copies[r[1]] = 1
      BY <1>1, <1>4
    <3>3. c = <<r, 1>>
      BY <3>1, <3>2
    <3> QED BY <3>3
  <2>2. f \in [S -> CopiesOf(S)]
    BY <1>3 DEF Injection
  <2> QED BY <2>1, <2>2 DEF Surjection
<1> HIDE DEF f
<1>5. Cardinality(S) <= Cardinality(CopiesOf(S))
  BY <1>2, <1>3, FS_Injection
<1> QED BY <1>2, <1>3, <1>4, <1>5, FS_Injection

\* What the two readers read of a window that is drained and still kept are
\* the same events: their funnels are equal (both count distinct tokens), and
\* the counts of a day differ by copies only (funnel.clickhouse.ts and
\* funnel.service.ts).
THEOREM ReadersAgreeHolds == DrainSpec => []ReadersAgree
<1>1. ASSUME DrainInv, NEW from \in Time, NEW to \in Time, WindowDrained(from, to)
      PROVE  /\ Between(Live, from, to) = Between(stored, from, to)
             /\ \A i \in Ids(Between(Live, from, to)) : copies[i] > 0
  BY <1>1 DEF WindowDrained, Between, Live, DrainInv, JobInvAt
<1>2. ASSUME DrainInv, NEW from \in Time, NEW to \in Time, WindowDrained(from, to)
      PROVE  ClickHouseFunnel(from, to) = PostgresFunnel(from, to)
  <2>1. \A n : {i \in Ids(Between(Live, from, to)) : NameOf(i) = n}
               = {i \in Ids(Between(stored, from, to)) : copies[i] > 0 /\ NameOf(i) = n}
    BY <1>1, <1>2
  <2> QED BY <2>1 DEF ClickHouseFunnel, PostgresFunnel
<1>3. ASSUME DrainInv, NEW from \in Time, NEW to \in Time, WindowDrained(from, to), NEW day, NEW name
      PROVE  /\ PostgresDaily(from, to, day, name) <= ClickHouseDaily(from, to, day, name)
             /\ (\A r \in Between(stored, from, to) : copies[r[1]] <= 1) =>
                   ClickHouseDaily(from, to, day, name) = PostgresDaily(from, to, day, name)
  <2> DEFINE S == OfDay(Between(stored, from, to), day, name)
  <2>1. S \subseteq Between(stored, from, to) /\ Between(stored, from, to) \subseteq stored
    BY DEF OfDay, Between
  <2>2. \A r \in S : copies[r[1]] > 0
    BY <1>1, <1>3, <2>1 DEF Ids
  <2>3. /\ PostgresDaily(from, to, day, name) = Cardinality(S)
        /\ ClickHouseDaily(from, to, day, name) = Cardinality(CopiesOf(S))
    BY <1>1, <1>3 DEF PostgresDaily, ClickHouseDaily
  <2>4. StoreInv
    BY <1>3 DEF DrainInv
  <2> HIDE DEF S
  <2> QED BY <2>1, <2>2, <2>3, <2>4, CopiesOfRows
<1>4. DrainInv => ReadersAgree
  <2> SUFFICES ASSUME DrainInv, NEW from \in Time, NEW to \in Time, WindowDrained(from, to)
               PROVE  /\ ClickHouseFunnel(from, to) = PostgresFunnel(from, to)
                      /\ \A day \in Days, name \in Names \cup {"any"} :
                            /\ PostgresDaily(from, to, day, name) <= ClickHouseDaily(from, to, day, name)
                            /\ (\A r \in Between(stored, from, to) : copies[r[1]] <= 1) =>
                                  ClickHouseDaily(from, to, day, name)
                                     = PostgresDaily(from, to, day, name)
    BY DEF ReadersAgree, FunnelShown
  <2> QED BY <1>2, <1>3
<1> QED BY <1>4, DrainInvHolds, PTL

-----------------------------------------------------------------------------
\* Experiments

\* A visitor is assigned a variant, in whatever order they are read.
LEMMA AssignsAVariant ==
    ASSUME NEW order \in SetToSeqs(Variants), NEW w, NEW bucket
    PROVE  AssignVariant(order, w, bucket) \in Variants
<1> DEFINE UpTo(k) == MapThenSumSet(LAMBDA j : w[order[j]], 1 .. k)
<1> DEFINE beyond == {k \in DOMAIN order : bucket < UpTo(k)}
<1>1. PICK n \in Nat : n >= 2 /\ n = Cardinality(Variants) /\ order \in [1 .. n -> Variants]
  <2>1. Cardinality(Variants) \in Nat /\ Cardinality(Variants) >= 2
    BY ExperimentAssumption, FS_CardinalityType DEF ExperimentAssumption
  <2>2. order \in [1 .. Cardinality(Variants) -> Variants]
    BY DEF SetToSeqs
  <2> QED BY <2>1, <2>2
<1>2. Last(order) \in Variants
  <2>1. Len(order) = n
    BY <1>1
  <2> QED BY <1>1, <2>1 DEF Last
<1>3. AssignVariant(order, w, bucket) =
         IF beyond = {} THEN Last(order)
         ELSE order[CHOOSE k \in beyond : \A j \in beyond : k <= j]
  BY Zenon DEF AssignVariant
<1>4. beyond \subseteq 1 .. n
  BY <1>1, Zenon
<1> HIDE DEF beyond
<1>5. ASSUME beyond # {} PROVE (CHOOSE k \in beyond : \A j \in beyond : k <= j) \in beyond
  <2>1. beyond \subseteq Nat
    BY <1>1, <1>4
  <2>2. \E k \in beyond : \A j \in beyond : ~(<<j, k>> \in OpToRel(<, Nat))
    BY <1>5, <2>1, WFMin, NatLessThanWellFounded, Zenon
  <2>3. PICK k \in beyond : \A j \in beyond : ~(<<j, k>> \in OpToRel(<, Nat))
    BY <2>2
  <2>4. \A j \in beyond : ~(j < k)
    BY <2>1, <2>3 DEF OpToRel
  <2>5. \A j \in beyond : k <= j
    BY <2>1, <2>4
  <2> QED BY <2>5
<1> QED BY <1>1, <1>2, <1>3, <1>4, <1>5

SomeExperiment == CHOOSE x \in Experiments : TRUE
SomeVisitor == CHOOSE v \in Visitors : TRUE

\* What a proof needs of a visit's types.
Visited == [step : {"idle", "resolved", "assign", "upsert"},
            exp : Experiments \cup {SomeExperiment}, visitor : Visitors \cup {SomeVisitor},
            variant : Variants \cup {NoVariant}]

\* Who has no exposure has seen nothing, and nobody is assigned nothing.
StickyInv ==
    /\ visit \in [Visits -> Visited]
    /\ exposure \in [Experiments \X Visitors -> Variants \cup {NoVariant}]
    /\ shown \in [Experiments \X Visitors -> SUBSET Variants]
    /\ \A k \in Experiments \X Visitors :
          \/ shown[k] = {}
          \/ exposure[k] \in Variants /\ shown[k] = {exposure[k]}
    /\ \A r \in Visits :
          /\ visit[r].step # "idle" => Key(r) \in Experiments \X Visitors
          /\ visit[r].step = "upsert" => visit[r].variant \in Variants

\* At first nobody has come.
LEMMA InitSticky == ExperimentInit => StickyInv
<1> SUFFICES ASSUME ExperimentInit PROVE StickyInv
  OBVIOUS
<1>1. IdleVisit \in Visited /\ IdleVisit.step = "idle"
  BY DEF IdleVisit, Visited, SomeExperiment, SomeVisitor
<1> QED BY <1>1 DEF ExperimentInit, StickyInv

\* A visit that shows what its exposure says, and ends.
LEMMA ShowKeeps ==
    ASSUME StickyInv, NEW r \in Visits, visit[r].step # "idle", NEW i \in Variants,
           exposure[Key(r)] \in {i, NoVariant},
           exposure' = [exposure EXCEPT ![Key(r)] = i], Show(r, i), Leave(r)
    PROVE  StickyInv'
<1>0. NoVariant \notin Variants
  BY ExperimentAssumption DEF ExperimentAssumption
<1>1. PICK key \in Experiments \X Visitors : key = Key(r)
  BY DEF StickyInv
<1>2. /\ exposure' = [exposure EXCEPT ![key] = i]
      /\ shown' = [shown EXCEPT ![key] = shown[key] \cup {i}]
      /\ visit' = [visit EXCEPT ![r] = IdleVisit]
      /\ exposure[key] \in {i, NoVariant}
  BY <1>1 DEF Show, Leave
<1>3. IdleVisit \in Visited /\ IdleVisit.step = "idle"
  BY DEF IdleVisit, Visited, SomeExperiment, SomeVisitor
<1>4. /\ visit' \in [Visits -> Visited]
      /\ exposure' \in [Experiments \X Visitors -> Variants \cup {NoVariant}]
      /\ shown' \in [Experiments \X Visitors -> SUBSET Variants]
  BY <1>2, <1>3 DEF StickyInv
<1>5. ASSUME NEW k \in Experiments \X Visitors
      PROVE  shown'[k] = {} \/ (exposure'[k] \in Variants /\ shown'[k] = {exposure'[k]})
  <2>1. CASE k = key
    <3>1. exposure'[k] = i /\ shown'[k] = shown[k] \cup {i}
      BY <1>2, <2>1 DEF StickyInv
    <3>2. shown[k] \subseteq {i}
      BY <1>0, <1>2, <2>1 DEF StickyInv
    <3> QED BY <3>1, <3>2
  <2>2. CASE k # key
    <3>1. exposure'[k] = exposure[k] /\ shown'[k] = shown[k]
      BY <1>2, <2>2 DEF StickyInv
    <3> QED BY <3>1 DEF StickyInv
  <2> QED BY <2>1, <2>2
<1>6. ASSUME NEW q \in Visits
      PROVE  /\ visit'[q].step # "idle" => Key(q)' \in Experiments \X Visitors
             /\ visit'[q].step = "upsert" => visit'[q].variant \in Variants
  <2>1. CASE q = r
    BY <1>2, <1>3, <2>1 DEF StickyInv
  <2>2. CASE q # r
    <3>1. visit'[q] = visit[q]
      BY <1>2, <2>2 DEF StickyInv
    <3> QED BY <3>1 DEF StickyInv, Key
  <2> QED BY <2>1, <2>2
<1> QED BY <1>4, <1>5, <1>6 DEF StickyInv

\* A visit that goes on, or ends without showing a variant.
LEMMA TurnKeeps ==
    ASSUME StickyInv, NEW r \in Visits, NEW v \in Visited, UNCHANGED <<exposure, shown>>,
           visit' = [visit EXCEPT ![r] = v],
           v.step # "idle" => v.exp \in Experiments /\ v.visitor \in Visitors,
           v.step = "upsert" => v.variant \in Variants
    PROVE  StickyInv'
<1>1. visit' \in [Visits -> Visited]
  BY DEF StickyInv
<1>2. ASSUME NEW q \in Visits
      PROVE  /\ visit'[q].step # "idle" => Key(q)' \in Experiments \X Visitors
             /\ visit'[q].step = "upsert" => visit'[q].variant \in Variants
  <2>1. CASE q = r
    <3>1. visit'[q] = v
      BY <2>1 DEF StickyInv
    <3> QED BY <3>1 DEF Key
  <2>2. CASE q # r
    <3>1. visit'[q] = visit[q]
      BY <2>2 DEF StickyInv
    <3> QED BY <3>1 DEF StickyInv, Key
  <2> QED BY <2>1, <2>2
<1> QED BY <1>1, <1>2 DEF StickyInv

\* Every step keeps the invariant.
LEMMA NextSticky == StickyInv /\ [ExperimentNext]_experimentVars => StickyInv'
<1> SUFFICES ASSUME StickyInv, [ExperimentNext]_experimentVars PROVE StickyInv'
  OBVIOUS
<1>0. NoVariant \notin Variants /\ visit \in [Visits -> Visited]
  BY ExperimentAssumption DEF ExperimentAssumption, StickyInv
<1>1. CASE UNCHANGED <<visit, exposure, shown>>
  BY <1>1 DEF StickyInv, Key
<1>2. ASSUME NEW x \in Experiments, ExperimentAdmin(x) PROVE UNCHANGED <<visit, exposure, shown>>
  BY <1>2, Zenon DEF ExperimentAdmin, CreateExperiment, StartExperiment, CancelExperiment,
     StopWithWinner, PatchExperiment
<1>3. ASSUME NEW r \in Visits, NEW x \in Experiments, NEW v \in Visitors,
             ResolveExperiment(r, x, v) PROVE StickyInv'
  <2>1. PICK t : t = [step |-> "resolved", exp |-> x, visitor |-> v, variant |-> NoVariant]
    OBVIOUS
  <2>2. t \in Visited
    BY <2>1 DEF Visited
  <2> QED BY <1>3, <2>1, <2>2, TurnKeeps DEF ResolveExperiment
<1>4. ASSUME NEW r \in Visits, ReadExposure(r) PROVE StickyInv'
  <2>1. visit[r].step = "resolved" /\ Key(r) \in Experiments \X Visitors
    BY <1>4 DEF ReadExposure, StickyInv
  <2>2. CASE exposure[Key(r)] = NoVariant
    <3>1. PICK t : t = [visit[r] EXCEPT !.step = "assign"]
      OBVIOUS
    <3>2. visit[r] \in Visited
      BY <1>0
    <3>3. t \in Visited /\ t.step = "assign" /\ t.exp = visit[r].exp
          /\ t.visitor = visit[r].visitor
      BY <3>1, <3>2 DEF Visited
    <3>4. visit' = [visit EXCEPT ![r] = t] /\ UNCHANGED <<exposure, shown>>
      BY <1>0, <1>4, <2>2, <3>1 DEF ReadExposure
    <3>5. visit[r].exp \in Experiments /\ visit[r].visitor \in Visitors
      BY <2>1 DEF Key
    <3> QED BY <3>3, <3>4, <3>5, TurnKeeps
  <2>3. CASE exposure[Key(r)] # NoVariant
    <3>1. exposure \in [Experiments \X Visitors -> Variants \cup {NoVariant}]
      BY DEF StickyInv
    <3>2. exposure[Key(r)] \in Variants
      BY <2>1, <2>3, <3>1
    <3>3. exposure' = exposure /\ Show(r, exposure[Key(r)]) /\ Leave(r)
      BY <1>4, <2>3 DEF ReadExposure
    <3>4. exposure' = [exposure EXCEPT ![Key(r)] = exposure[Key(r)]]
      BY <2>1, <3>1, <3>3
    <3> QED BY <2>1, <3>2, <3>3, <3>4, ShowKeeps
  <2> QED BY <2>2, <2>3
<1>5. ASSUME NEW r \in Visits, NEW order \in SetToSeqs(Variants), ReadWeights(r, order)
      PROVE  StickyInv'
  <2>1. PICK i \in Variants :
           i = AssignVariant(order, weight[visit[r].exp],
                             BucketOf(visit[r].exp, visit[r].visitor))
    BY AssignsAVariant
  <2>2. PICK t : t = [visit[r] EXCEPT !.step = "upsert", !.variant = i]
    OBVIOUS
  <2>3. visit[r] \in Visited /\ visit[r].step = "assign"
    BY <1>0, <1>5 DEF ReadWeights
  <2>4. t \in Visited /\ t.step = "upsert" /\ t.variant = i /\ t.exp = visit[r].exp
        /\ t.visitor = visit[r].visitor
    BY <2>2, <2>3 DEF Visited
  <2>5. visit' = [visit EXCEPT ![r].step = "upsert", ![r].variant = i]
        /\ UNCHANGED <<exposure, shown>>
    BY <1>5, <2>1, Zenon DEF ReadWeights
  <2>6. visit' = [visit EXCEPT ![r] = t]
    BY <1>0, <2>2, <2>5
  <2>7. visit[r].exp \in Experiments /\ visit[r].visitor \in Visitors
    BY <2>3 DEF StickyInv, Key
  <2> QED BY <2>4, <2>5, <2>6, <2>7, TurnKeeps
<1>6. ASSUME NEW r \in Visits, UpsertExposure(r) PROVE StickyInv'
  <2>1. visit[r].step = "upsert" /\ Key(r) \in Experiments \X Visitors
        /\ visit[r].variant \in Variants
    BY <1>6 DEF UpsertExposure, StickyInv
  <2>2. exposure[Key(r)] \in Variants \cup {NoVariant}
    BY <2>1 DEF StickyInv
  <2>3. PICK i \in Variants : i = Upserted(r) /\ exposure[Key(r)] \in {i, NoVariant}
    BY <2>1, <2>2 DEF Upserted
  <2>4. exposure' = [exposure EXCEPT ![Key(r)] = i] /\ Show(r, i) /\ Leave(r)
    BY <1>6, <2>3 DEF UpsertExposure
  <2> QED BY <2>1, <2>3, <2>4, ShowKeeps
<1>7. ASSUME NEW r \in Visits, ServeDefault(r) PROVE StickyInv'
  <2>1. IdleVisit \in Visited /\ IdleVisit.step = "idle"
    BY DEF IdleVisit, Visited, SomeExperiment, SomeVisitor
  <2> QED BY <1>7, <2>1, TurnKeeps DEF ServeDefault, Leave
<1> QED BY <1>1, <1>2, <1>3, <1>4, <1>5, <1>6, <1>7, Zenon
    DEF ExperimentNext, VisitStep, experimentVars

\* A visitor sees one variant of an experiment, the one the exposure counts
\* (experiment.service.ts: recordExposure reads before and upserts without update).
THEOREM StickyHolds == ExperimentSpec => []Sticky
<1>1. StickyInv => Sticky
  BY DEF StickyInv, Sticky
<1> QED BY <1>1, InitSticky, NextSticky, PTL DEF ExperimentSpec

-----------------------------------------------------------------------------
\* Files

SomeFile == CHOOSE f \in Files : TRUE

\* A row keeps the size it was presigned for, and whoever found the object of
\* that size has found one that was put.
UploadInv ==
    /\ file \in [Files -> File]
    /\ object \in [Files -> BrowserBytes \cup {Absent}]
    /\ had \in [Files -> SUBSET BrowserBytes]
    /\ confirm \in [Confirmations -> [step : {"idle", "head", "update"},
                                      file : Files \cup {SomeFile}]]
    /\ \A f \in Files : object[f] # Absent => object[f] \in had[f]
    /\ \A c \in Confirmations : confirm[c].step # "idle" =>
          confirm[c].file \in Files /\ file[confirm[c].file].row
    /\ \A c \in Confirmations : confirm[c].step = "update" =>
          file[confirm[c].file].size \in had[confirm[c].file]
    /\ ConfirmedWasStored

\* At first there is no file.
LEMMA InitUpload == UploadInit => UploadInv
<1> SUFFICES ASSUME UploadInit PROVE UploadInv
  OBVIOUS
<1>1. NoFile \in File /\ ~NoFile.confirmed
  BY DEF NoFile, File
<1>2. \A c \in Confirmations : confirm[c] = [step |-> "idle", file |-> SomeFile]
  BY DEF UploadInit, SomeFile
<1>3. confirm \in [Confirmations -> [step : {"idle", "head", "update"},
                                    file : Files \cup {SomeFile}]]
  BY <1>2 DEF UploadInit
<1> QED BY <1>1, <1>2, <1>3 DEF UploadInit, UploadInv, ConfirmedWasStored

\* Every step keeps the invariant.
LEMMA NextUpload == UploadInv /\ [UploadNext]_uploadVars => UploadInv'
<1> SUFFICES ASSUME UploadInv, [UploadNext]_uploadVars PROVE UploadInv'
  OBVIOUS
<1>1. ASSUME NEW f \in Files, NEW n \in BrowserBytes, Presign(f, n) PROVE UploadInv'
  <2>1. PICK new : new = [NoFile EXCEPT !.row = TRUE, !.size = n]
    OBVIOUS
  <2>0. new \in File /\ new.row /\ ~new.confirmed
    BY <2>1 DEF NoFile, File
  <2>2. file' = [file EXCEPT ![f] = new] /\ ~file[f].row /\ UNCHANGED <<object, confirm, had>>
    BY <1>1, <2>1 DEF Presign
  <2>3. \A g \in Files : file'[g] = IF g = f THEN new ELSE file[g]
    BY <2>2 DEF UploadInv
  <2>4. file' \in [Files -> File]
    BY <2>0, <2>2 DEF UploadInv
  <2>5. \A c \in Confirmations : confirm[c].step # "idle" => confirm[c].file # f
    BY <2>2 DEF UploadInv
  <2> QED BY <2>0, <2>2, <2>3, <2>4, <2>5 DEF UploadInv, ConfirmedWasStored
<1>2. ASSUME NEW f \in Files, NEW n \in BrowserBytes, PutObject(f, n) PROVE UploadInv'
  <2>1. /\ object' = [object EXCEPT ![f] = n] /\ had' = [had EXCEPT ![f] = had[f] \cup {n}]
        /\ UNCHANGED <<file, confirm>>
    BY <1>2 DEF PutObject
  <2>2. /\ object' \in [Files -> BrowserBytes \cup {Absent}]
        /\ had' \in [Files -> SUBSET BrowserBytes]
    BY <2>1 DEF UploadInv
  <2>3. \A g \in Files : had[g] \subseteq had'[g]
    BY <2>1 DEF UploadInv
  <2>4. \A g \in Files : object'[g] # Absent => object'[g] \in had'[g]
    BY <2>1 DEF UploadInv
  <2> QED BY <2>1, <2>2, <2>3, <2>4 DEF UploadInv, ConfirmedWasStored
<1>3. ASSUME NEW f \in Files, UrlExpires(f) PROVE UploadInv'
  BY <1>3 DEF UrlExpires, UploadInv, ConfirmedWasStored
<1>4. ASSUME NEW c \in Confirmations, NEW f \in Files, FindFile(c, f) PROVE UploadInv'
  <2>1. /\ confirm' = [confirm EXCEPT ![c] = [step |-> "head", file |-> f]]
        /\ file[f].row /\ UNCHANGED <<file, object, had>>
    BY <1>4 DEF FindFile
  <2>2. confirm' \in [Confirmations -> [step : {"idle", "head", "update"},
                                        file : Files \cup {SomeFile}]]
    BY <2>1 DEF UploadInv
  <2>3. \A q \in Confirmations :
           confirm'[q] = IF q = c THEN [step |-> "head", file |-> f] ELSE confirm[q]
    BY <2>1 DEF UploadInv
  <2> QED BY <2>1, <2>2, <2>3 DEF UploadInv, ConfirmedWasStored
<1>5. ASSUME NEW c \in Confirmations, HeadObject(c) PROVE UploadInv'
  <2>1. PICK step \in {"update", "idle"} :
          /\ confirm' = [confirm EXCEPT ![c].step = step]
          /\ step = "update" => Matches(confirm[c].file)
    BY <1>5 DEF HeadObject
  <2>2. confirm[c].step = "head" /\ UNCHANGED <<file, object, had>>
    BY <1>5 DEF HeadObject
  <2>3. \A q \in Confirmations : /\ confirm'[q].file = confirm[q].file
                                 /\ confirm'[q].step = IF q = c THEN step ELSE confirm[q].step
    BY <2>1 DEF UploadInv
  <2>4. confirm' \in [Confirmations -> [step : {"idle", "head", "update"},
                                        file : Files \cup {SomeFile}]]
    BY <2>1 DEF UploadInv
  <2>5. step = "update" => file[confirm[c].file].size \in had[confirm[c].file]
    BY <2>1, <2>2 DEF Matches, UploadInv
  <2> QED BY <2>2, <2>3, <2>4, <2>5 DEF UploadInv, ConfirmedWasStored
<1>6. ASSUME NEW c \in Confirmations, StoreHash(c) PROVE UploadInv'
  <2>1. PICK f \in Files : f = confirm[c].file /\ file[f].size \in had[f] /\ file[f].row
    BY <1>6 DEF StoreHash, UploadInv
  <2>2. /\ file' = [file EXCEPT ![f].confirmed = TRUE]
        /\ confirm' = [confirm EXCEPT ![c].step = "idle"]
        /\ UNCHANGED <<object, had>>
    BY <1>6, <2>1 DEF StoreHash
  <2>0. file' = [file EXCEPT ![f] = [file[f] EXCEPT !.confirmed = TRUE]]
        /\ file \in [Files -> File]
    BY <2>2 DEF UploadInv
  <2>3. file' \in [Files -> File]
    BY <2>0 DEF File
  <2>4. \A g \in Files : /\ file'[g].row = file[g].row /\ file'[g].size = file[g].size
                         /\ file'[g].confirmed => file[g].confirmed \/ g = f
    BY <2>0 DEF File
  <2>5. \A q \in Confirmations :
           /\ confirm'[q].file = confirm[q].file
           /\ confirm'[q].step = IF q = c THEN "idle" ELSE confirm[q].step
    BY <2>2 DEF UploadInv
  <2>6. confirm' \in [Confirmations -> [step : {"idle", "head", "update"},
                                        file : Files \cup {SomeFile}]]
    BY <2>2 DEF UploadInv
  <2> QED BY <2>1, <2>2, <2>3, <2>4, <2>5, <2>6 DEF UploadInv, ConfirmedWasStored
<1>7. ASSUME NEW ids, NEW s \in LinkTargets \cup {NoOwner},
             file' = [f \in Files |-> IF f \in ids THEN [file[f] EXCEPT !.owner = s]
                                      ELSE file[f]],
             UNCHANGED <<object, confirm, had>>
      PROVE  UploadInv'
  <2>1. file' \in [Files -> File]
    BY <1>7 DEF UploadInv, File
  <2>2. \A f \in Files : /\ file'[f].row = file[f].row /\ file'[f].size = file[f].size
                         /\ file'[f].confirmed = file[f].confirmed
    BY <1>7 DEF UploadInv, File
  <2> QED BY <1>7, <2>1, <2>2 DEF UploadInv, ConfirmedWasStored
<1>8. ASSUME NEW s \in LinkTargets, NEW ids, LinkToSubmission(s, ids) PROVE UploadInv'
  <2>1. file' = [f \in Files |-> IF f \in {g \in ids : file[g].row}
                                 THEN [file[f] EXCEPT !.owner = s] ELSE file[f]]
    BY <1>8 DEF LinkToSubmission
  <2> QED BY <1>7, <1>8, <2>1 DEF LinkToSubmission
<1>9. ASSUME NEW s \in LinkTargets, FreeFiles(s) PROVE UploadInv'
  <2>1. file' = [f \in Files |-> IF f \in {g \in Files : file[g].owner = s}
                                 THEN [file[f] EXCEPT !.owner = NoOwner] ELSE file[f]]
    BY <1>9 DEF FreeFiles
  <2> QED BY <1>7, <1>9, <2>1 DEF FreeFiles
<1>10. CASE UNCHANGED uploadVars
  BY <1>10 DEF uploadVars, UploadInv, ConfirmedWasStored
<1> QED BY <1>1, <1>2, <1>3, <1>4, <1>5, <1>6, <1>8, <1>9, <1>10 DEF UploadNext

\* A confirmed file was in the store with the size of its row
\* (file.service.ts: confirmUpload).
THEOREM ConfirmedWasStoredHolds == UploadSpec => []ConfirmedWasStored
<1>1. UploadInv => ConfirmedWasStored
  BY DEF UploadInv
<1> QED BY <1>1, InitUpload, NextUpload, PTL DEF UploadSpec

-----------------------------------------------------------------------------
\* Templates

\* A template whose clones overlapped no change of it has a use, and nobody
\* who has counted none.
TemplateInv ==
    /\ template \in [Templates -> Template]
    /\ DOMAIN request = Requests
    /\ cloned \in [Templates -> SUBSET Forms]
    /\ \A r \in Requests : request[r].step \in {"update", "delete", "clone"} =>
          request[r].id \in Templates
    /\ \A r \in Requests : request[r].step = "update" => request[r].spec \in Specs
    /\ \A t \in Templates : cloned[t] # {} => template[t].state # "none"
    /\ \A t \in Templates \ raced : cloned[t] # {} =>
          ~Unused(t) /\ ~Pending("update", t) /\ ~Pending("delete", t)

\* At first nothing is cloned.
LEMMA InitTemplate == CatalogueInit => TemplateInv
  BY DEF CatalogueInit, TemplateInv, Template, IdleRequest, Pending

\* A request that ends leaves none pending that was not.
LEMMA CloseKeeps ==
    ASSUME TemplateInv, NEW r \in Requests, Close(r)
    PROVE  /\ DOMAIN request' = Requests
           /\ \A q \in Requests : request'[q].step \in {"update", "delete", "clone"} =>
                 request'[q] = request[q] /\ q # r
           /\ \A t \in Templates : Pending("update", t)' => Pending("update", t)
           /\ \A t \in Templates : Pending("delete", t)' => Pending("delete", t)
<1>1. request' = [request EXCEPT ![r] = IdleRequest] /\ IdleRequest.step = "idle"
  BY DEF Close, IdleRequest
<1>2. \A q \in Requests : request'[q] = IF q = r THEN IdleRequest ELSE request[q]
  BY <1>1 DEF TemplateInv
<1> QED BY <1>1, <1>2 DEF TemplateInv, Pending

\* A request that begins on an id.
LEMMA BeginKeeps ==
    ASSUME TemplateInv, NEW r \in Requests, NEW step, NEW id, NEW spec,
           Turn(r, step, id, spec), UNCHANGED <<template, uses, cloned, raced>>,
           step \in {"update", "delete", "clone"} => id \in Templates,
           step \in {"update", "delete"} => Unused(id),
           step = "update" => spec \in Specs
    PROVE  TemplateInv'
<1>1. \A q \in Requests : request'[q] =
         IF q = r THEN [step |-> step, id |-> id, spec |-> spec] ELSE request[q]
  BY DEF Turn, TemplateInv
<1>2. DOMAIN request' = Requests
  BY DEF Turn, TemplateInv
<1>3. ASSUME NEW t \in Templates \ raced, cloned[t] # {}
      PROVE  ~Pending("update", t)' /\ ~Pending("delete", t)'
  <2>1. ~Unused(t) /\ ~Pending("update", t) /\ ~Pending("delete", t)
    BY <1>3 DEF TemplateInv
  <2> QED BY <1>1, <2>1 DEF Pending
<1>4. \A t \in Templates : Unused(t)' <=> Unused(t)
  BY DEF Unused
<1> QED BY <1>1, <1>2, <1>3, <1>4 DEF TemplateInv

\* Every step keeps the invariant, and changes no template that was cloned
\* without being marked as raced.
LEMMA NextTemplate ==
    ASSUME TemplateInv, [CatalogueNext]_catalogueVars
    PROVE  /\ TemplateInv'
           /\ \A t \in Templates :
                 template[t] # template'[t] /\ cloned[t] # {} => t \in raced'
<1> DEFINE Goal == /\ TemplateInv'
                   /\ \A t \in Templates :
                         template[t] # template'[t] /\ cloned[t] # {} => t \in raced'
<1>1. ASSUME UNCHANGED <<template, uses, cloned, raced, request>> PROVE Goal
  BY <1>1 DEF TemplateInv, Unused, Pending
<1>2. ASSUME NEW r \in Requests, UNCHANGED <<template, uses, cloned, raced>>, Close(r)
      PROVE  Goal
  BY <1>2, CloseKeeps DEF TemplateInv, Unused
<1>3. ASSUME NEW r \in Requests, NEW f \in Forms, NEW s \in Slugs, CreateForm(r, f, s)
      PROVE  Goal
  <2>1. CASE UNCHANGED request
    BY <1>1, <1>3, <2>1 DEF CreateForm
  <2>2. ASSUME NEW p \in Specs, Turn(r, "publish", f, p) PROVE Goal
    BY <1>3, <2>2, BeginKeeps DEF CreateForm
  <2> QED BY <1>3, <2>1, <2>2 DEF CreateForm
<1>4. ASSUME NEW r \in Requests, NEW f \in Forms, ReadSource(r, f) PROVE Goal
  BY <1>4, BeginKeeps DEF ReadSource
<1>5. ASSUME NEW r \in Requests,
             \/ PublishFirst(r) \/ RequestFails(r)
             \/ \E f \in Forms, s \in Slugs : DuplicateForm(r, f, s)
      PROVE  Goal
  BY <1>2, <1>5 DEF PublishFirst, RequestFails, DuplicateForm
<1>6. ASSUME NEW r \in Requests, NEW f \in Forms, NEW s \in Slugs, CloneTemplate(r, f, s)
      PROVE  Goal
  <2>1. PICK t \in Templates : t = request[r].id /\ LiveTemplate(t)
    BY <1>6 DEF CloneTemplate, TemplateInv
  <2>2. /\ uses' = uses \cup {<<t, f>>}
        /\ cloned' = [cloned EXCEPT ![t] = cloned[t] \cup {f}]
        /\ raced' = IF Pending("update", t) \/ Pending("delete", t)
                    THEN raced \cup {t} ELSE raced
        /\ Close(r) /\ UNCHANGED template
    BY <1>6, <2>1 DEF CloneTemplate, RecordUse
  <2>3. ~Unused(t)' /\ \A u \in Templates : Unused(u)' => Unused(u)
    BY <2>2 DEF Unused
  <2>4. \A u \in Templates \ {t} : cloned'[u] = cloned[u]
    BY <2>2 DEF TemplateInv
  <2>5. cloned' \in [Templates -> SUBSET Forms]
    BY <2>2 DEF TemplateInv
  <2>6. template[t].state # "none" /\ raced \subseteq raced'
    BY <2>1, <2>2 DEF LiveTemplate
  <2>7. ASSUME NEW u \in Templates \ raced', cloned'[u] # {}
        PROVE  ~Unused(u)' /\ ~Pending("update", u)' /\ ~Pending("delete", u)'
    <3>1. CASE u = t
      BY <2>2, <2>3, <2>7, <3>1, CloseKeeps
    <3>2. CASE u # t
      BY <2>2, <2>3, <2>4, <2>6, <2>7, <3>2, CloseKeeps DEF TemplateInv
    <3> QED BY <3>1, <3>2
  <2>8. \A u \in Templates : cloned'[u] # {} => template'[u].state # "none"
    BY <2>2, <2>4, <2>6 DEF TemplateInv
  <2> QED BY <2>2, <2>5, <2>7, <2>8, CloseKeeps DEF TemplateInv
<1>7. ASSUME NEW r \in Requests, NEW t \in Templates,
             \/ CountForDelete(r, t) \/ ReadTemplate(r, t)
             \/ \E p \in Specs : CountForUpdate(r, t, p)
      PROVE  Goal
  BY <1>7, BeginKeeps DEF CountForDelete, ReadTemplate, CountForUpdate
<1>8. ASSUME NEW r \in Requests, UpdateTemplate(r) \/ DeleteTemplate(r) PROVE Goal
  <2>1. PICK t \in Templates :
           /\ t = request[r].id /\ LiveTemplate(t)
           /\ Pending("update", t) \/ Pending("delete", t)
    BY <1>8 DEF UpdateTemplate, DeleteTemplate, TemplateInv, Pending
  <2>0. template \in [Templates -> Template]
    BY DEF TemplateInv
  <2>2. /\ UNCHANGED cloned /\ raced \subseteq raced' /\ Close(r)
        /\ template' \in [Templates -> Template]
        /\ \A u \in Templates \ {t} : template'[u] = template[u]
        /\ template'[t].state # "none"
        /\ \A u \in Templates \ {t} : Unused(u)' => Unused(u)
    <3>1. CASE UpdateTemplate(r)
      <4>1. template' = [template EXCEPT ![t].spec = request[r].spec]
        BY <2>1, <3>1 DEF UpdateTemplate
      <4>2. request[r].spec \in Specs
        BY <3>1 DEF UpdateTemplate, TemplateInv
      <4>3. template' = [template EXCEPT ![t] = [template[t] EXCEPT !.spec = request[r].spec]]
        BY <2>0, <4>1
      <4>4. /\ template' \in [Templates -> Template]
            /\ \A u \in Templates \ {t} : template'[u] = template[u]
            /\ template'[t].state # "none"
        BY <2>0, <2>1, <4>2, <4>3 DEF Template, LiveTemplate
      <4>5. /\ UNCHANGED <<uses, cloned>> /\ raced \subseteq raced' /\ Close(r)
        BY <3>1 DEF UpdateTemplate
      <4> QED BY <4>4, <4>5 DEF Unused
    <3>2. CASE DeleteTemplate(r)
      <4>1. /\ template' = [template EXCEPT ![t] = [state |-> "gone", spec |-> NoSpec]]
            /\ uses' = {u \in uses : u[1] # t}
        BY <2>1, <3>2 DEF DeleteTemplate
      <4> QED BY <3>2, <4>1 DEF DeleteTemplate, TemplateInv, Template, Unused
    <3> QED BY <1>8, <3>1, <3>2
  <2>3. cloned[t] = {} \/ t \in raced
    BY <2>1 DEF TemplateInv
  <2>4. \A u \in Templates : cloned'[u] # {} => template'[u].state # "none"
    BY <2>2 DEF TemplateInv
  <2>5. ASSUME NEW u \in Templates \ raced', cloned'[u] # {}
        PROVE  ~Unused(u)' /\ ~Pending("update", u)' /\ ~Pending("delete", u)'
    <3>1. u # t /\ u \notin raced /\ cloned[u] # {}
      BY <2>2, <2>3, <2>5
    <3> QED BY <2>2, <3>1, CloseKeeps DEF TemplateInv
  <2> QED BY <2>2, <2>3, <2>4, <2>5, CloseKeeps DEF TemplateInv
<1>9. ASSUME NEW f \in Forms, DeleteForm(f) \/ \E s \in Slugs, b \in BOOLEAN : UpdateForm(f, s, b)
      PROVE  Goal
  BY <1>1, <1>9 DEF DeleteForm, UpdateForm
<1>10. ASSUME NEW t \in Templates, NEW p \in Specs, CreateTemplate(t, p) PROVE Goal
  <2>1. /\ template[t].state = "none" /\ UNCHANGED <<uses, cloned, raced, request>>
        /\ template' = [template EXCEPT ![t] = [state |-> "live", spec |-> p]]
    BY <1>10 DEF CreateTemplate
  <2>2. cloned[t] = {} /\ template' \in [Templates -> Template]
        /\ \A u \in Templates \ {t} : template'[u] = template[u]
    BY <2>1 DEF TemplateInv, Template
  <2> QED BY <2>1, <2>2 DEF TemplateInv, Unused, Pending
<1>11. ASSUME UNCHANGED catalogueVars PROVE Goal
  BY <1>1, <1>11 DEF catalogueVars
<1> HIDE DEF Goal
<1>12. ASSUME NEW r \in Requests, FormRequest(r) PROVE Goal
  BY <1>3, <1>4, <1>5, <1>6, <1>12, Zenon DEF FormRequest
<1>13. ASSUME NEW r \in Requests, TemplateRequest(r) PROVE Goal
  BY <1>7, <1>8, <1>13, Zenon DEF TemplateRequest
<1>14. ASSUME NEW f \in Forms, NEW s \in Slugs, NEW b \in BOOLEAN, UpdateForm(f, s, b)
       PROVE  Goal
  BY <1>9, <1>14, Zenon
<1>15. ASSUME CatalogueNext PROVE Goal
  <2>1. \/ \E r \in Requests : FormRequest(r) \/ TemplateRequest(r)
        \/ \E f \in Forms, s \in Slugs, b \in BOOLEAN : UpdateForm(f, s, b)
        \/ \E f \in Forms : DeleteForm(f)
        \/ \E t \in Templates, p \in Specs : CreateTemplate(t, p)
    BY <1>15 DEF CatalogueNext
  <2> QED BY <1>9, <1>10, <1>12, <1>13, <1>14, <2>1, Zenon
<1>16. CatalogueNext \/ UNCHANGED catalogueVars
  OBVIOUS
<1>17. Goal
  BY <1>11, <1>15, <1>16, Zenon
<1> QED BY <1>17 DEF Goal

\* A template that was cloned stays as it is, but for the overlaps
\* (template.service.ts: updateTemplate and deleteTemplate count the uses).
THEOREM UsedTemplateStaysHolds == CatalogueSpec => UsedTemplateStays
<1>1. TemplateInv /\ [CatalogueNext]_catalogueVars => TemplateInv'
  BY NextTemplate
<1>2. TemplateInv /\ [CatalogueNext]_catalogueVars
      => [\A t \in Templates :
            template[t] # template'[t] /\ cloned[t] # {} => t \in raced']_catalogueVars
  BY NextTemplate
<1> QED BY InitTemplate, <1>1, <1>2, PTL DEF CatalogueSpec, UsedTemplateStays

-----------------------------------------------------------------------------
\* The types of experiments, files and templates

\* The last entry of a variant is one of the entries.
LEMMA LastEntry ==
    ASSUME NEW n \in Nat, NEW K, K \subseteq 1 .. n, K # {}
    PROVE  Max(K) \in K /\ \A j \in K : Max(K) >= j
<1> DEFINE Behind == {m \in Nat : \E k \in K : m = n - k}
<1>1. Behind \subseteq Nat /\ Behind # {}
  <2>1. PICK k \in K : TRUE
    OBVIOUS
  <2>2. n - k \in Nat
    BY <2>1
  <2> QED BY <2>1, <2>2
<1> HIDE DEF Behind
<1>a. \E m \in Behind : \A j \in Behind : ~(<<j, m>> \in OpToRel(<, Nat))
  BY <1>1, WFMin, NatLessThanWellFounded, Zenon
<1>2. PICK m \in Behind : \A j \in Behind : ~(<<j, m>> \in OpToRel(<, Nat))
  BY <1>a
<1>3. \A j \in Behind : m <= j
  <2>1. \A j \in Behind : ~(j < m)
    BY <1>1, <1>2 DEF OpToRel
  <2> QED BY <1>1, <2>1
<1>4. PICK k \in K : m = n - k
  BY <1>2 DEF Behind
<1>5. ASSUME NEW j \in K PROVE k >= j
  <2>1. n - j \in Nat /\ n - j \in Behind
    BY DEF Behind
  <2>2. m <= n - j /\ m = n - k /\ k \in Nat /\ j \in Nat
    BY <1>3, <1>4, <2>1
  <2> QED BY <2>2
<1> QED BY <1>5 DEF Max

\* Nothing is running at first.
LEMMA InitExperimentTypes == ExperimentInit => ExperimentTypeOK
<1> SUFFICES ASSUME ExperimentInit PROVE ExperimentTypeOK
  OBVIOUS
<1>1. IdleVisit \in Visit
  BY ExperimentAssumption DEF ExperimentAssumption, IdleVisit, Visit
<1>2. 1 \in Positive /\ 0 \in 0 .. MaxPatches
  BY ExperimentAssumption DEF ExperimentAssumption, Positive
<1> QED BY <1>1, <1>2 DEF ExperimentInit, ExperimentTypeOK

\* An admin starts an experiment where none runs, and writes positive weights.
LEMMA AdminTypes ==
    ASSUME StickyInv', ExperimentTypeOK, NEW x \in Experiments, ExperimentAdmin(x)
    PROVE  ExperimentTypeOK'
<1> USE DEF ExperimentTypeOK
<1>0. exposure' \in [Experiments \X Visitors -> Variants \cup {NoVariant}]
      /\ shown' \in [Experiments \X Visitors -> SUBSET Variants]
  BY DEF StickyInv
<1>1. ASSUME NEW f \in [Variants -> Positive], CreateExperiment(x, f) PROVE ExperimentTypeOK'
  <2>1. /\ status' = [status EXCEPT ![x] = "draft"] /\ weight' = [weight EXCEPT ![x] = f]
        /\ UNCHANGED <<winner, exposure, visit, shown, patches>>
    BY <1>1 DEF CreateExperiment
  <2> QED BY <1>0, <2>1
<1>2. CASE StartExperiment(x)
  <2>1. /\ status' = [status EXCEPT ![x] = "running"]
        /\ \A y \in Experiments \ {x} : status[y] # "running"
        /\ UNCHANGED <<winner, weight, exposure, visit, shown, patches>>
    BY <1>2 DEF StartExperiment
  <2> QED BY <1>0, <2>1
<1>3. CASE CancelExperiment(x)
  <2>1. /\ status' = [status EXCEPT ![x] = "stopped"]
        /\ UNCHANGED <<winner, weight, exposure, visit, shown, patches>>
    BY <1>3 DEF CancelExperiment
  <2> QED BY <1>0, <2>1
<1>4. ASSUME NEW i \in Variants, StopWithWinner(x, i) PROVE ExperimentTypeOK'
  <2>1. /\ status' = [status EXCEPT ![x] = "stopped"]
        /\ winner' = [winner EXCEPT ![x] = i]
        /\ UNCHANGED <<weight, exposure, visit, shown, patches>>
    BY <1>4 DEF StopWithWinner
  <2> QED BY <1>0, <2>1
<1>5. ASSUME NEW n \in 1 .. Cardinality(Variants), NEW entries \in [1 .. n -> Entry],
             PatchExperiment(x, entries)
      PROVE  ExperimentTypeOK'
  <2>0. n \in Nat
    OBVIOUS
  <2>1. /\ patches < MaxPatches /\ patches' = patches + 1
        /\ weight' = [y \in Experiments |-> [i \in Variants |-> Patched(entries, y, i)]]
        /\ UNCHANGED <<status, winner, exposure, visit, shown>>
    BY <1>5 DEF PatchExperiment
  <2>2. ASSUME NEW y \in Experiments, NEW i \in Variants
        PROVE  Patched(entries, y, i) \in Positive
    <3>1. PICK K : K = {k \in DOMAIN entries : entries[k].exp = y /\ entries[k].variant = i}
      OBVIOUS
    <3>2. Patched(entries, y, i) = IF K = {} THEN weight[y][i] ELSE entries[Max(K)].bps
      BY <3>1, Zenon DEF Patched
    <3>3. K \subseteq 1 .. n
      BY <3>1
    <3>4. ASSUME K # {} PROVE entries[Max(K)].bps \in Positive
      <4>1. Max(K) \in 1 .. n
        BY <2>0, <3>3, <3>4, LastEntry
      <4>2. entries[Max(K)] \in Entry
        BY <4>1
      <4> QED BY <4>2 DEF Entry
    <3>5. weight[y][i] \in Positive
      OBVIOUS
    <3> QED BY <3>2, <3>4, <3>5
  <2>3. weight' \in [Experiments -> [Variants -> Positive]]
    BY <2>1, <2>2
  <2>4. patches' \in 0 .. MaxPatches
    BY <2>1, ExperimentAssumption DEF ExperimentAssumption
  <2> QED BY <1>0, <2>1, <2>3, <2>4
<1> QED BY <1>1, <1>2, <1>3, <1>4, <1>5 DEF ExperimentAdmin

\* A visit finds out one thing after the other.
LEMMA VisitTypes ==
    ASSUME StickyInv', ExperimentTypeOK, NEW r \in Visits, VisitStep(r)
    PROVE  ExperimentTypeOK'
<1>0. /\ exposure' \in [Experiments \X Visitors -> Variants \cup {NoVariant}]
      /\ shown' \in [Experiments \X Visitors -> SUBSET Variants]
      /\ DOMAIN visit = Visits /\ DOMAIN visit' = Visits /\ visit[r] \in Visit
  BY DEF StickyInv, ExperimentTypeOK
<1>1. UNCHANGED <<status, winner, weight, patches>>
  BY Zenon DEF VisitStep, ResolveExperiment, ReadExposure, ReadWeights, UpsertExposure, ServeDefault
<1>2. PICK v \in Visit : visit' = [visit EXCEPT ![r] = v]
  <2>1. IdleVisit \in Visit
    BY ExperimentAssumption DEF ExperimentAssumption, IdleVisit, Visit
  <2>2. CASE Leave(r)
    BY <2>1, <2>2 DEF Leave
  <2>3. ASSUME NEW x \in Experiments, NEW u \in Visitors, ResolveExperiment(r, x, u)
        PROVE  \E v \in Visit : visit' = [visit EXCEPT ![r] = v]
    <3>1. [step |-> "resolved", exp |-> x, visitor |-> u, variant |-> NoVariant] \in Visit
      BY DEF Visit
    <3> QED BY <2>3, <3>1 DEF ResolveExperiment
  <2>4. CASE visit' = [visit EXCEPT ![r].step = "assign"]
    <3>1. [visit[r] EXCEPT !.step = "assign"] \in Visit
      BY <1>0 DEF Visit
    <3>2. visit' = [visit EXCEPT ![r] = [visit[r] EXCEPT !.step = "assign"]]
      BY <1>0, <2>4
    <3> QED BY <3>1, <3>2
  <2>5. ASSUME NEW order \in SetToSeqs(Variants), ReadWeights(r, order)
        PROVE  \E v \in Visit : visit' = [visit EXCEPT ![r] = v]
    <3>1. PICK i \in Variants :
             i = AssignVariant(order, weight[visit[r].exp],
                               BucketOf(visit[r].exp, visit[r].visitor))
      BY AssignsAVariant
    <3>2. visit' = [visit EXCEPT ![r].step = "upsert", ![r].variant = i]
      BY <2>5, <3>1, Zenon DEF ReadWeights
    <3>3. PICK v : v = [visit[r] EXCEPT !.step = "upsert", !.variant = i]
      OBVIOUS
    <3>4. v \in Visit
      BY <1>0, <3>3 DEF Visit
    <3>5. visit' = [visit EXCEPT ![r] = v]
      BY <1>0, <3>2, <3>3
    <3> QED BY <3>4, <3>5
  <2>6. ReadExposure(r) => Leave(r) \/ visit' = [visit EXCEPT ![r].step = "assign"]
    BY DEF ReadExposure
  <2>7. UpsertExposure(r) \/ ServeDefault(r) => Leave(r)
    BY DEF UpsertExposure, ServeDefault
  <2> QED BY <2>2, <2>3, <2>4, <2>5, <2>6, <2>7 DEF VisitStep
<1>3. \A q \in Visits : visit'[q] \in Visit
  <2>1. ASSUME NEW q \in Visits PROVE visit'[q] = v \/ visit'[q] = visit[q]
    BY <1>0, <1>2
  <2> QED BY <1>2, <2>1 DEF ExperimentTypeOK
<1> QED BY <1>0, <1>1, <1>3 DEF ExperimentTypeOK

\* The variables of the experiments keep their types, and at most one
\* experiment of a form is running (the partial unique index that
\* experiment.service.ts relies on when it starts one).
THEOREM ExperimentTypes == ExperimentSpec => []ExperimentTypeOK
<1>1. StickyInv /\ StickyInv' /\ ExperimentTypeOK /\ [ExperimentNext]_experimentVars
         => ExperimentTypeOK'
  <2> SUFFICES ASSUME StickyInv', ExperimentTypeOK, [ExperimentNext]_experimentVars
               PROVE  ExperimentTypeOK'
    OBVIOUS
  <2>1. CASE UNCHANGED experimentVars
    BY <2>1 DEF experimentVars, ExperimentTypeOK
  <2> QED BY <2>1, AdminTypes, VisitTypes DEF ExperimentNext
<1>2. StickyInv /\ [ExperimentNext]_experimentVars => StickyInv'
  BY NextSticky
<1> QED BY <1>1, <1>2, InitSticky, InitExperimentTypes, PTL DEF ExperimentSpec

\* Only a row has an URL, and only an URL puts an object.
FileTypeInv == UploadTypeOK /\ \A f \in Files : url[f] => file[f].row

\* A step that keeps every file's row and size.
LEMMA RowsStay ==
    ASSUME FileTypeInv, file' \in [Files -> File],
           \A f \in Files : file'[f].size = file[f].size /\ file'[f].row = file[f].row,
           UNCHANGED <<object, url, had>>,
           DOMAIN confirm' = Confirmations,
           \A c \in Confirmations : confirm'[c] \in Confirmation
    PROVE  FileTypeInv'
<1> QED BY DEF FileTypeInv, UploadTypeOK

\* Every step keeps the types of files.
LEMMA NextFileTypes == FileTypeInv /\ [UploadNext]_uploadVars => FileTypeInv'
<1> SUFFICES ASSUME FileTypeInv, [UploadNext]_uploadVars PROVE FileTypeInv'
  OBVIOUS
<1>0. /\ file \in [Files -> File] /\ DOMAIN confirm = Confirmations
      /\ \A c \in Confirmations : confirm[c] \in Confirmation
      /\ object \in [Files -> BrowserBytes \cup {Absent}] /\ url \in [Files -> BOOLEAN]
      /\ had \in [Files -> SUBSET BrowserBytes]
  BY DEF FileTypeInv, UploadTypeOK
<1>1. ASSUME NEW f \in Files, NEW n \in BrowserBytes, Presign(f, n) PROVE FileTypeInv'
  <2>1. PICK new : new = [NoFile EXCEPT !.row = TRUE, !.size = n]
    OBVIOUS
  <2>2. new \in File /\ new.row /\ new.size = n
    BY <2>1 DEF NoFile, File
  <2>3. /\ file' = [file EXCEPT ![f] = new] /\ url' = [url EXCEPT ![f] = TRUE]
        /\ UNCHANGED <<object, confirm, had>> /\ n <= MaxBytes
    BY <1>1, <2>1 DEF Presign, WithinLimit
  <2>4. file' \in [Files -> File] /\ url' \in [Files -> BOOLEAN]
    BY <1>0, <2>2, <2>3
  <2>5. ASSUME NEW g \in Files
        PROVE  /\ file'[g].size <= MaxBytes /\ (object'[g] # Absent => file'[g].row)
               /\ url'[g] => file'[g].row
    <3>1. CASE g = f
      BY <1>0, <2>2, <2>3, <3>1
    <3>2. CASE g # f
      <4>1. file'[g] = file[g] /\ url'[g] = url[g]
        BY <1>0, <2>3, <3>2
      <4> QED BY <2>3, <4>1 DEF FileTypeInv, UploadTypeOK
    <3> QED BY <3>1, <3>2
  <2> QED BY <1>0, <2>3, <2>4, <2>5 DEF FileTypeInv, UploadTypeOK
<1>2. ASSUME NEW f \in Files, NEW n \in BrowserBytes, PutObject(f, n) PROVE FileTypeInv'
  <2>1. /\ object' = [object EXCEPT ![f] = n] /\ had' = [had EXCEPT ![f] = had[f] \cup {n}]
        /\ UNCHANGED <<file, url, confirm>> /\ url[f]
    BY <1>2 DEF PutObject
  <2> QED BY <1>0, <2>1 DEF FileTypeInv, UploadTypeOK
<1>3. ASSUME NEW f \in Files, UrlExpires(f) PROVE FileTypeInv'
  <2>1. url' = [url EXCEPT ![f] = FALSE] /\ UNCHANGED <<file, object, confirm, had>>
    BY <1>3 DEF UrlExpires
  <2> QED BY <1>0, <2>1 DEF FileTypeInv, UploadTypeOK
<1>4. ASSUME NEW c \in Confirmations, NEW f \in Files, FindFile(c, f) PROVE FileTypeInv'
  <2>1. [step |-> "head", file |-> f] \in Confirmation
    BY DEF Confirmation
  <2>2. DOMAIN confirm' = Confirmations /\ \A q \in Confirmations : confirm'[q] \in Confirmation
    BY <1>0, <1>4, <2>1 DEF FindFile
  <2>3. UNCHANGED <<file, object, url, had>>
    BY <1>4 DEF FindFile
  <2> QED BY <1>0, <2>2, <2>3, RowsStay
<1>5. ASSUME NEW c \in Confirmations, NEW step \in {"update", "idle"},
             confirm' = [confirm EXCEPT ![c].step = step]
      PROVE  DOMAIN confirm' = Confirmations /\ \A q \in Confirmations : confirm'[q] \in Confirmation
  <2>1. confirm' = [confirm EXCEPT ![c] = [confirm[c] EXCEPT !.step = step]]
    BY <1>0, <1>5
  <2>2. [confirm[c] EXCEPT !.step = step] \in Confirmation
    BY <1>0 DEF Confirmation
  <2> QED BY <1>0, <2>1, <2>2
<1>6. ASSUME NEW c \in Confirmations, HeadObject(c) PROVE FileTypeInv'
  <2>1. PICK step \in {"update", "idle"} : confirm' = [confirm EXCEPT ![c].step = step]
    BY <1>6 DEF HeadObject
  <2>2. UNCHANGED <<file, object, url, had>>
    BY <1>6 DEF HeadObject
  <2> QED BY <1>0, <1>5, <2>1, <2>2, RowsStay
<1>7. ASSUME NEW c \in Confirmations, StoreHash(c) PROVE FileTypeInv'
  <2>1. PICK f : f = confirm[c].file
    OBVIOUS
  <2>2. f \in Files
    BY <1>0, <2>1 DEF Confirmation
  <2>3. /\ file' = [file EXCEPT ![f] = [file[f] EXCEPT !.confirmed = TRUE]]
        /\ confirm' = [confirm EXCEPT ![c].step = "idle"] /\ UNCHANGED <<object, url, had>>
    BY <1>0, <1>7, <2>1 DEF StoreHash
  <2>4. file' \in [Files -> File]
        /\ \A g \in Files : file'[g].size = file[g].size /\ file'[g].row = file[g].row
    BY <1>0, <2>2, <2>3 DEF File
  <2> QED BY <1>5, <2>3, <2>4, RowsStay
<1>8. ASSUME NEW ids, NEW s \in LinkTargets \cup {NoOwner},
             file' = [f \in Files |-> IF f \in ids THEN [file[f] EXCEPT !.owner = s]
                                      ELSE file[f]],
             UNCHANGED <<object, url, confirm, had>>
      PROVE  FileTypeInv'
  <2>1. file' \in [Files -> File]
        /\ \A f \in Files : file'[f].row = file[f].row /\ file'[f].size = file[f].size
    BY <1>0, <1>8 DEF File
  <2> QED BY <1>0, <1>8, <2>1, RowsStay
<1>9. ASSUME NEW s \in LinkTargets, NEW ids, LinkToSubmission(s, ids) PROVE FileTypeInv'
  <2>1. file' = [f \in Files |-> IF f \in {g \in ids : file[g].row}
                                 THEN [file[f] EXCEPT !.owner = s] ELSE file[f]]
    BY <1>9 DEF LinkToSubmission
  <2> QED BY <1>8, <1>9, <2>1 DEF LinkToSubmission
<1>10. ASSUME NEW s \in LinkTargets, FreeFiles(s) PROVE FileTypeInv'
  <2>1. file' = [f \in Files |-> IF f \in {g \in Files : file[g].owner = s}
                                 THEN [file[f] EXCEPT !.owner = NoOwner] ELSE file[f]]
    BY <1>10 DEF FreeFiles
  <2> QED BY <1>8, <1>10, <2>1 DEF FreeFiles
<1>11. CASE UNCHANGED uploadVars
  BY <1>11 DEF uploadVars, FileTypeInv, UploadTypeOK
<1> QED BY <1>1, <1>2, <1>3, <1>4, <1>6, <1>7, <1>9, <1>10, <1>11 DEF UploadNext

\* The variables of the uploads keep their types; no row is over the limit, and
\* no object is without one (file.service.ts: presignUpload checks the size
\* before it makes the row and the URL).
THEOREM UploadTypes == UploadSpec => []UploadTypeOK
<1>1. UploadInit => FileTypeInv
  <2> SUFFICES ASSUME UploadInit PROVE FileTypeInv
    OBVIOUS
  <2>1. NoFile \in File /\ NoFile.size = 0 /\ 0 <= MaxBytes
    BY UploadAssumption DEF NoFile, File, UploadAssumption
  <2>2. \A c \in Confirmations : confirm[c] \in Confirmation
    BY UploadAssumption DEF UploadInit, Confirmation, UploadAssumption
  <2> QED BY <2>1, <2>2 DEF UploadInit, FileTypeInv, UploadTypeOK
<1>2. FileTypeInv => UploadTypeOK
  BY DEF FileTypeInv
<1> QED BY <1>1, <1>2, NextFileTypes, PTL DEF UploadSpec

\* A request names what its step is about.
CatalogueInv ==
    /\ CatalogueTypeOK
    /\ \A r \in Requests :
          /\ request[r].step = "publish" => request[r].id \in Forms
          /\ request[r].step \in {"update", "delete", "clone"} => request[r].id \in Templates

\* What the requests have read keeps its type.
LEMMA RequestTypes ==
    ASSUME CatalogueInv, NEW r \in Requests, NEW q \in Request,
           request' = [request EXCEPT ![r] = q],
           q.step = "publish" => q.id \in Forms,
           q.step \in {"update", "delete", "clone"} => q.id \in Templates
    PROVE  /\ request' \in [Requests -> Request]
           /\ \A p \in Requests :
                 /\ request'[p].step = "publish" => request'[p].id \in Forms
                 /\ request'[p].step \in {"update", "delete", "clone"} =>
                       request'[p].id \in Templates
<1>1. request \in [Requests -> Request]
  BY DEF CatalogueInv, CatalogueTypeOK
<1>2. ASSUME NEW p \in Requests PROVE request'[p] = IF p = r THEN q ELSE request[p]
  BY <1>1
<1> QED BY <1>1, <1>2 DEF CatalogueInv

\* A form with its slug is one of its own.
LEMMA FormTypes ==
    ASSUME CatalogueInv, NEW f \in Forms, NEW g \in Form, form' = [form EXCEPT ![f] = g],
           (g.state = "live") <=> (g.slug # NoSlug),
           g.slug # NoSlug => \A h \in Forms \ {f} : form[h].slug # g.slug
    PROVE  /\ form' \in [Forms -> Form]
           /\ \A h \in Forms : (form'[h].state = "live") <=> (form'[h].slug # NoSlug)
           /\ \A h, i \in Forms : form'[h].slug = form'[i].slug => h = i \/ form'[h].slug = NoSlug
<1>1. form \in [Forms -> Form]
  BY DEF CatalogueInv, CatalogueTypeOK
<1>2. ASSUME NEW h \in Forms PROVE form'[h] = IF h = f THEN g ELSE form[h]
  BY <1>1
<1>3. form' \in [Forms -> Form]
  BY <1>1
<1>4. \A h \in Forms : (form'[h].state = "live") <=> (form'[h].slug # NoSlug)
  BY <1>2 DEF CatalogueInv, CatalogueTypeOK
<1>5. ASSUME NEW h \in Forms, NEW i \in Forms, form'[h].slug = form'[i].slug, h # i
      PROVE  form'[h].slug = NoSlug
  <2>1. CASE h = f
    BY <1>2, <1>5, <2>1
  <2>2. CASE i = f
    BY <1>2, <1>5, <2>2
  <2>3. CASE h # f /\ i # f
    <3>1. form'[h] = form[h] /\ form'[i] = form[i]
      BY <1>2, <2>3
    <3> QED BY <1>5, <3>1 DEF CatalogueInv, CatalogueTypeOK
  <2> QED BY <2>1, <2>2, <2>3
<1> QED BY <1>3, <1>4, <1>5

\* The end of a request.
LEMMA CloseTypes ==
    ASSUME CatalogueInv, NEW r \in Requests, Close(r)
    PROVE  /\ request' \in [Requests -> Request]
           /\ \A p \in Requests :
                 /\ request'[p].step = "publish" => request'[p].id \in Forms
                 /\ request'[p].step \in {"update", "delete", "clone"} =>
                       request'[p].id \in Templates
<1>1. IdleRequest \in Request /\ IdleRequest.step = "idle"
  BY DEF IdleRequest, Request
<1> QED BY <1>1, RequestTypes DEF Close

\* A new form takes a slug that nobody has.
LEMMA NewFormTypes ==
    ASSUME CatalogueInv, NEW f \in Forms, NEW s \in Slugs, NEW p \in Specs \cup {NoSpec},
           SlugFree(s), NewForm(f, s, p)
    PROVE  /\ form' \in [Forms -> Form]
           /\ \A h \in Forms : (form'[h].state = "live") <=> (form'[h].slug # NoSlug)
           /\ \A h, i \in Forms : form'[h].slug = form'[i].slug => h = i \/ form'[h].slug = NoSlug
<1>1. PICK g : g = [state |-> "live", slug |-> s, spec |-> p, archived |-> FALSE]
  OBVIOUS
<1>2. g \in Form /\ g.state = "live" /\ g.slug = s
  BY <1>1 DEF Form
<1>3. s # NoSlug
  BY CatalogueAssumption DEF CatalogueAssumption
<1>4. form' = [form EXCEPT ![f] = g] /\ \A h \in Forms \ {f} : form[h].slug # s
  BY <1>1 DEF NewForm, SlugFree
<1> QED BY <1>2, <1>3, <1>4, FormTypes

\* The requests about forms.
LEMMA FormRequestTypes ==
    ASSUME CatalogueInv, NEW r \in Requests, FormRequest(r) PROVE CatalogueInv'
<1>0. /\ form \in [Forms -> Form] /\ template \in [Templates -> Template]
      /\ uses \subseteq Templates \X Forms /\ request \in [Requests -> Request]
      /\ cloned \in [Templates -> SUBSET Forms] /\ raced \subseteq Templates
  BY DEF CatalogueInv, CatalogueTypeOK
<1>a. request[r].id \in Forms \cup Templates \cup {0} /\ request[r].spec \in Specs \cup {NoSpec}
  BY <1>0 DEF Request
<1>1. ASSUME NEW f \in Forms, ReadSource(r, f) PROVE CatalogueInv'
  <2>1. PICK q : q = [step |-> "duplicate", id |-> f, spec |-> form[f].spec]
    OBVIOUS
  <2>2. form[f].spec \in Specs \cup {NoSpec}
    BY <1>0 DEF Form
  <2>3. q \in Request /\ q.step = "duplicate"
    BY <2>1, <2>2 DEF Request
  <2>4. request' = [request EXCEPT ![r] = q] /\ UNCHANGED <<form, template, uses, cloned, raced>>
    BY <1>1, <2>1 DEF ReadSource, Turn
  <2> QED BY <2>3, <2>4, RequestTypes DEF CatalogueInv, CatalogueTypeOK
<1>2. ASSUME NEW f \in Forms, NEW s \in Slugs, CreateForm(r, f, s) PROVE CatalogueInv'
  <2>1. SlugFree(s) /\ NewForm(f, s, NoSpec) /\ UNCHANGED <<template, uses, cloned, raced>>
    BY <1>2 DEF CreateForm
  <2>2. CASE UNCHANGED request
    BY <2>1, <2>2, NewFormTypes DEF CatalogueInv, CatalogueTypeOK
  <2>3. ASSUME NEW p \in Specs, Turn(r, "publish", f, p) PROVE CatalogueInv'
    <3>1. PICK q : q = [step |-> "publish", id |-> f, spec |-> p]
      OBVIOUS
    <3>2. q \in Request /\ q.step = "publish" /\ q.id \in Forms
      BY <3>1 DEF Request
    <3>3. request' = [request EXCEPT ![r] = q]
      BY <2>3, <3>1 DEF Turn
    <3> QED BY <2>1, <3>2, <3>3, NewFormTypes, RequestTypes DEF CatalogueInv, CatalogueTypeOK
  <2> QED BY <1>2, <2>2, <2>3 DEF CreateForm
<1>3. ASSUME NEW f \in Forms, NEW s \in Slugs, DuplicateForm(r, f, s) PROVE CatalogueInv'
  <2>1. /\ SlugFree(s) /\ NewForm(f, s, request[r].spec) /\ Close(r)
        /\ UNCHANGED <<template, uses, cloned, raced>>
    BY <1>3 DEF DuplicateForm
  <2> QED BY <1>a, <2>1, NewFormTypes, CloseTypes DEF CatalogueInv, CatalogueTypeOK
<1>4. ASSUME NEW f \in Forms, NEW s \in Slugs, CloneTemplate(r, f, s) PROVE CatalogueInv'
  <2>1. PICK t \in Templates : t = request[r].id
    BY <1>4 DEF CloneTemplate, CatalogueInv
  <2>2. /\ SlugFree(s) /\ NewForm(f, s, request[r].spec) /\ Close(r) /\ UNCHANGED template
        /\ uses' = uses \cup {<<t, f>>}
        /\ cloned' = [cloned EXCEPT ![t] = cloned[t] \cup {f}]
        /\ raced' \in {raced, raced \cup {t}}
    BY <1>4, <2>1 DEF CloneTemplate, RecordUse
  <2>3. /\ uses' \subseteq Templates \X Forms /\ raced' \subseteq Templates
        /\ cloned' \in [Templates -> SUBSET Forms]
    BY <1>0, <2>2
  <2> QED BY <1>a, <2>2, <2>3, NewFormTypes, CloseTypes DEF CatalogueInv, CatalogueTypeOK
<1>5. CASE PublishFirst(r)
  <2>1. PICK f \in Forms : f = request[r].id
    BY <1>5 DEF PublishFirst, CatalogueInv
  <2>2. PICK g : g = [form[f] EXCEPT !.spec = request[r].spec]
    OBVIOUS
  <2>3. g \in Form /\ g.state = form[f].state /\ g.slug = form[f].slug
    BY <1>0, <1>a, <2>2 DEF Form
  <2>4. form' = [form EXCEPT ![f] = g] /\ Close(r) /\ UNCHANGED <<template, uses, cloned, raced>>
    BY <1>0, <1>5, <2>1, <2>2 DEF PublishFirst
  <2>5. /\ (g.state = "live") <=> (g.slug # NoSlug)
        /\ g.slug # NoSlug => \A h \in Forms \ {f} : form[h].slug # g.slug
    BY <2>3 DEF CatalogueInv, CatalogueTypeOK
  <2> QED BY <2>3, <2>4, <2>5, FormTypes, CloseTypes DEF CatalogueInv, CatalogueTypeOK
<1>6. CASE RequestFails(r)
  BY <1>6, CloseTypes DEF RequestFails, CatalogueInv, CatalogueTypeOK
<1> QED BY <1>1, <1>2, <1>3, <1>4, <1>5, <1>6 DEF FormRequest

\* The requests about templates.
LEMMA TemplateRequestTypes ==
    ASSUME CatalogueInv, NEW r \in Requests, TemplateRequest(r) PROVE CatalogueInv'
<1>0. /\ form \in [Forms -> Form] /\ template \in [Templates -> Template]
      /\ uses \subseteq Templates \X Forms /\ request \in [Requests -> Request]
      /\ cloned \in [Templates -> SUBSET Forms] /\ raced \subseteq Templates
  BY DEF CatalogueInv, CatalogueTypeOK
<1>a. request[r].id \in Forms \cup Templates \cup {0} /\ request[r].spec \in Specs \cup {NoSpec}
  BY <1>0 DEF Request
<1>1. ASSUME NEW step \in {"update", "delete", "clone"}, NEW t \in Templates,
             NEW p \in Specs \cup {NoSpec}, Turn(r, step, t, p),
             UNCHANGED <<form, template, uses, cloned, raced>>
      PROVE  CatalogueInv'
  <2>1. PICK q : q = [step |-> step, id |-> t, spec |-> p]
    OBVIOUS
  <2>2. q \in Request /\ q.step # "publish" /\ q.id \in Templates
    BY <2>1 DEF Request
  <2>3. request' = [request EXCEPT ![r] = q]
    BY <1>1, <2>1 DEF Turn
  <2> QED BY <1>1, <2>2, <2>3, RequestTypes DEF CatalogueInv, CatalogueTypeOK
<1>2. ASSUME NEW t \in Templates, CountForDelete(r, t) PROVE CatalogueInv'
  BY <1>1, <1>2 DEF CountForDelete
<1>3. ASSUME NEW t \in Templates, ReadTemplate(r, t) PROVE CatalogueInv'
  <2>1. template[t].spec \in Specs \cup {NoSpec}
    BY <1>0 DEF Template
  <2> QED BY <1>1, <1>3, <2>1 DEF ReadTemplate
<1>4. ASSUME NEW t \in Templates, NEW p \in Specs, CountForUpdate(r, t, p) PROVE CatalogueInv'
  BY <1>1, <1>4 DEF CountForUpdate
<1>5. CASE UpdateTemplate(r)
  <2>1. PICK t \in Templates : t = request[r].id
    BY <1>5 DEF UpdateTemplate, CatalogueInv
  <2>2. [template[t] EXCEPT !.spec = request[r].spec] \in Template
    BY <1>0, <1>a DEF Template
  <2>3. /\ template' = [template EXCEPT ![t] = [template[t] EXCEPT !.spec = request[r].spec]]
        /\ raced' \in {raced, raced \cup {t}} /\ Close(r) /\ UNCHANGED <<form, uses, cloned>>
    BY <1>0, <1>5, <2>1 DEF UpdateTemplate
  <2>4. template' \in [Templates -> Template] /\ raced' \subseteq Templates
    BY <1>0, <2>2, <2>3
  <2> QED BY <2>3, <2>4, CloseTypes DEF CatalogueInv, CatalogueTypeOK
<1>6. CASE DeleteTemplate(r)
  <2>1. [state |-> "gone", spec |-> NoSpec] \in Template
    BY DEF Template
  <2>2. template' \in [Templates -> Template] /\ uses' \subseteq Templates \X Forms
    BY <1>0, <1>6, <2>1 DEF DeleteTemplate
  <2>3. Close(r) /\ UNCHANGED <<form, cloned, raced>>
    BY <1>6 DEF DeleteTemplate
  <2> QED BY <2>2, <2>3, CloseTypes DEF CatalogueInv, CatalogueTypeOK
<1> QED BY <1>2, <1>3, <1>4, <1>5, <1>6 DEF TemplateRequest

\* Every step keeps the types of the catalogue.
LEMMA NextCatalogueTypes == CatalogueInv /\ [CatalogueNext]_catalogueVars => CatalogueInv'
<1> SUFFICES ASSUME CatalogueInv, [CatalogueNext]_catalogueVars PROVE CatalogueInv'
  OBVIOUS
<1>0. form \in [Forms -> Form] /\ template \in [Templates -> Template]
  BY DEF CatalogueInv, CatalogueTypeOK
<1>1. ASSUME NEW f \in Forms, NEW s \in Slugs, NEW b \in BOOLEAN, UpdateForm(f, s, b)
      PROVE  CatalogueInv'
  <2>1. PICK g : g = [form[f] EXCEPT !.slug = s, !.archived = b]
    OBVIOUS
  <2>2. g \in Form /\ g.state = form[f].state /\ g.slug = s
    BY <1>0, <2>1 DEF Form
  <2>3. /\ form' = [form EXCEPT ![f] = g] /\ g.state = "live"
        /\ UNCHANGED <<template, uses, request, cloned, raced>>
    BY <1>0, <1>1, <2>1, <2>2 DEF UpdateForm, LiveForm
  <2>4. s # NoSlug
    BY CatalogueAssumption DEF CatalogueAssumption
  <2>5. \A h \in Forms \ {f} : form[h].slug # s
    BY <1>1, <2>4 DEF UpdateForm, SlugFree, CatalogueInv, CatalogueTypeOK
  <2> QED BY <2>2, <2>3, <2>4, <2>5, FormTypes DEF CatalogueInv, CatalogueTypeOK
<1>2. ASSUME NEW f \in Forms, DeleteForm(f) PROVE CatalogueInv'
  <2>1. PICK g : g = [NoForm EXCEPT !.state = "gone"]
    OBVIOUS
  <2>2. g \in Form /\ g.state = "gone" /\ g.slug = NoSlug
    BY <2>1 DEF NoForm, Form
  <2>3. form' = [form EXCEPT ![f] = g] /\ UNCHANGED <<template, uses, request, cloned, raced>>
    BY <1>2, <2>1 DEF DeleteForm
  <2> QED BY <2>2, <2>3, FormTypes DEF CatalogueInv, CatalogueTypeOK
<1>3. ASSUME NEW t \in Templates, NEW p \in Specs, CreateTemplate(t, p) PROVE CatalogueInv'
  <2>1. [state |-> "live", spec |-> p] \in Template
    BY DEF Template
  <2>2. template' \in [Templates -> Template] /\ UNCHANGED <<form, uses, request, cloned, raced>>
    BY <1>0, <1>3, <2>1 DEF CreateTemplate
  <2> QED BY <2>2 DEF CatalogueInv, CatalogueTypeOK
<1>4. CASE UNCHANGED catalogueVars
  BY <1>4 DEF catalogueVars, CatalogueInv, CatalogueTypeOK
<1> QED BY <1>1, <1>2, <1>3, <1>4, FormRequestTypes, TemplateRequestTypes DEF CatalogueNext

\* The variables of the catalogue keep their types, and no two live forms share
\* a slug, whichever requests overlap (form.service.ts: the slug is unique).
THEOREM CatalogueTypes == CatalogueSpec => []CatalogueTypeOK
<1>1. CatalogueInit => CatalogueInv
  <2> SUFFICES ASSUME CatalogueInit PROVE CatalogueInv
    OBVIOUS
  <2>1. NoForm \in Form /\ NoForm.state = "none" /\ NoForm.slug = NoSlug
    BY DEF NoForm, Form
  <2>2. [state |-> "none", spec |-> NoSpec] \in Template
    BY DEF Template
  <2>3. IdleRequest \in Request /\ IdleRequest.step = "idle"
    BY DEF IdleRequest, Request
  <2> QED BY <2>1, <2>2, <2>3 DEF CatalogueInit, CatalogueInv, CatalogueTypeOK
<1>2. CatalogueInv => CatalogueTypeOK
  BY DEF CatalogueInv
<1> QED BY <1>1, <1>2, NextCatalogueTypes, PTL DEF CatalogueSpec

-----------------------------------------------------------------------------
\* The parts side by side

\* A behaviour of the whole is one of each part: what moves one of them leaves
\* the others alone.
LEMMA EachPart == Spec => DrainSpec /\ ExperimentSpec /\ CatalogueSpec /\ UploadSpec
<1>1. Init => DrainInit /\ ExperimentInit /\ CatalogueInit /\ UploadInit
  BY DEF Init
<1>2. [Next]_lifeVars => /\ [DrainNext]_drainVars /\ [ExperimentNext]_experimentVars
                         /\ [CatalogueNext]_catalogueVars /\ [UploadNext]_uploadVars
  BY Zenon DEF Next, lifeVars
<1> QED BY <1>1, <1>2, PTL DEF Spec, DrainSpec, ExperimentSpec, CatalogueSpec, UploadSpec

\* Side by side the parts keep their types, and with them: at most one running
\* experiment of a form, unique slugs, uploads within their limit.
THEOREM LifeTypes == Spec => []LifeTypeOK
<1>1. DrainTypeOK /\ ExperimentTypeOK /\ CatalogueTypeOK /\ UploadTypeOK => LifeTypeOK
  BY DEF LifeTypeOK
<1> QED BY <1>1, EachPart, DrainTypes, ExperimentTypes, CatalogueTypes, UploadTypes, PTL

-----------------------------------------------------------------------------
\* What a published spec does

\* Every input is shaped like a spec: the schema says so of the families, and
\* the plain one is.
LEMMA InputsAreSpecs == Spec => []IsSpec(declared)
<1>1. IsSpec(Plain.spec)
  <2> DEFINE s == Plain.spec
  <2>1. s = Bare
    BY DEF Plain
  <2>2. /\ s.pages = ThreePages /\ s.calcs = <<>> /\ s.rules = <<>>
        /\ s.buckets = <<>> /\ s.actions = <<>>
    BY <2>1 DEF Bare
  <2> HIDE DEF s
  <2>3. \A q : q = <<>> => Range(q) = {} /\ q \in Seq(Range(q)) /\ q \in Seq([min : Int, max : Int])
    BY DEF Range
  <2>4. /\ DOMAIN s.pages = 1 .. 3 /\ s.pages \in Seq(Range(s.pages)) \ {<<>>}
        /\ s.pages[1] = Page("a", <<"f1">>) /\ s.pages[2] = Page("b", <<"f2">>)
        /\ s.pages[3] = Page("c", <<"f3">>)
    <3>1. s.pages = <<Page("a", <<"f1">>), Page("b", <<"f2">>), Page("c", <<"f3">>)>>
      BY <2>2 DEF ThreePages
    <3> QED BY <3>1 DEF Range
  <2>5. ASSUME NEW p \in Range(s.pages) PROVE p.fields \in Seq(Range(p.fields))
    <3>1. PICK x : p.fields = <<x>>
      BY <2>4, <2>5 DEF Range, Page
    <3> QED BY <3>1 DEF Range
  <2>6. s.calcs \in Seq(Range(s.calcs)) /\ s.rules \in Seq(Range(s.rules)) /\ Range(s.rules) = {}
    BY <2>2, <2>3
  <2>7. s.actions \in Seq(Range(s.actions)) /\ Range(s.actions) = {}
        /\ s.buckets \in Seq([min : Int, max : Int])
    BY <2>2, <2>3
  <2>8. IsSpec(s)
    BY <2>4, <2>5, <2>6, <2>7, Zenon DEF IsSpec
  <2> QED BY <2>8 DEF s
<1>2. Init => IsSpec(declared)
  BY <1>1, LogicAssumption DEF Init, LogicInit, declared
<1>3. IsSpec(declared) /\ [Next]_lifeVars => IsSpec(declared)'
  BY DEF Next, lifeVars, declared
<1> QED BY <1>2, <1>3, PTL DEF Spec

\* A field of a spec that can be published is on one page, once.
LEMMA OnePageOfField ==
    ASSUME NEW s, IsSpec(s), ~RepeatedField(s), NEW i \in DOMAIN s.pages,
           NEW f \in Range(s.pages[i].fields)
    PROVE  /\ f \in FieldIds(s)
           /\ Max({j \in DOMAIN s.pages : f \in Range(s.pages[j].fields)}) = i
<1>1. i \in Int
  <2>1. s.pages \in Seq(Range(s.pages))
    BY DEF IsSpec
  <2> QED BY <2>1
<1>2. f \in FieldIds(s)
  BY DEF FieldIds, Range
<1>3. ASSUME NEW j \in DOMAIN s.pages, f \in Range(s.pages[j].fields) PROVE j = i
  <2>1. PICK k \in DOMAIN s.pages[i].fields : f = s.pages[i].fields[k]
    BY DEF Range
  <2>2. PICK l \in DOMAIN s.pages[j].fields : f = s.pages[j].fields[l]
    BY <1>3 DEF Range
  <2>3. <<i, k>> = <<j, l>>
    BY <2>1, <2>2, Zenon DEF RepeatedField
  <2> QED BY <2>3
<1>4. {j \in DOMAIN s.pages : f \in Range(s.pages[j].fields)} = {i}
  BY <1>3
<1>5. Max({i}) = i
  BY <1>1 DEF Max
<1> QED BY <1>2, <1>4, <1>5

\* What is kept of a payload are the values of the pages that were visited.
LEMMA StripsSkipped == IsSpec(declared) => SkippedAreStripped
<1> DEFINE s == declared
           visited == Range(Walk(s, ActionData(s, payload)).visited)
           kept == Sanitized(s, payload)
           Pages(f) == {i \in DOMAIN s.pages : f \in Range(s.pages[i].fields)}
<1> SUFFICES ASSUME IsSpec(s), Publishable(s), NEW i \in DOMAIN s.pages
             PROVE  IF s.pages[i].id \in visited
                    THEN Range(s.pages[i].fields) \cap DOMAIN payload \subseteq kept
                    ELSE Range(s.pages[i].fields) \cap kept = {}
  BY Zenon DEF SkippedAreStripped, Range
<1>1. ~RepeatedField(s)
  BY DEF Publishable
<1>2. kept = {f \in DOMAIN payload : f \in FieldIds(s) /\ s.pages[Max(Pages(f))].id \in visited}
  BY Zenon DEF Sanitized
<1> HIDE DEF visited, kept, Pages, s
<1>3. \A f \in Range(s.pages[i].fields) : f \in FieldIds(s) /\ Max(Pages(f)) = i
  BY <1>1, OnePageOfField DEF Pages
<1> QED BY <1>2, <1>3

\* No value of a page that was not visited is kept, and every value of a page
\* that was visited is, whatever the spec that was published says.
THEOREM SkippedAreStrippedHolds == Spec => []SkippedAreStripped
<1> QED BY InputsAreSpecs, StripsSkipped, PTL

-----------------------------------------------------------------------------
\* A recursive function over 0 .. N has a value for each: if some had none, there
\* would be a first, after one that has.
Iterates(f, N, x, step) == f[0] = x /\ \A n \in 1 .. N : f[n] = step[<<n, f[n - 1]>>]

LEMMA Iteration ==
    ASSUME NEW N \in Nat, NEW S, NEW x \in S, NEW step \in [(1 .. N) \X S -> S]
    PROVE  \E f \in [0 .. N -> S] : Iterates(f, N, x, step)
<1> DEFINE Value(f, n) == IF n = 0 THEN x ELSE step[<<n, f[n - 1]>>]
           Upto(f, m) == f \in [0 .. m -> S] /\ \A n \in 0 .. m : f[n] = Value(f, n)
           Fails == {m \in 0 .. N : ~ \E f : Upto(f, m)}
<1>1. Fails = {}
  <2> SUFFICES ASSUME Fails # {} PROVE FALSE
    OBVIOUS
  <2> HIDE DEF Fails, Upto
  <2>1. Fails \subseteq Nat
    BY DEF Fails
  <2>2. \E m \in Fails : \A j \in Fails : ~(<<j, m>> \in OpToRel(<, Nat))
    BY <2>1, WFMin, NatLessThanWellFounded, Zenon
  <2>3. PICK m \in Fails : \A j \in Fails : ~(j < m)
    BY <2>1, <2>2 DEF OpToRel
  <2>4. ASSUME m = 0 PROVE FALSE
    <3>1. Upto([n \in 0 .. 0 |-> x], 0)
      BY DEF Upto
    <3> QED BY <2>3, <2>4, <3>1 DEF Fails
  <2>5. ASSUME m # 0 PROVE FALSE
    <3>1. m - 1 \in 0 .. N /\ m - 1 \notin Fails /\ m \in 1 .. N
      BY <2>1, <2>3, <2>5 DEF Fails
    <3>2. PICK f : Upto(f, m - 1)
      BY <3>1 DEF Fails
    <3> DEFINE g == [n \in 0 .. m |-> IF n = m THEN Value(f, m) ELSE f[n]]
    <3>3. /\ f \in [0 .. m - 1 -> S] /\ Value(f, m) \in S
          /\ \A n \in 0 .. m - 1 : f[n] = Value(f, n)
      <4>1. f \in [0 .. m - 1 -> S] /\ \A n \in 0 .. m - 1 : f[n] = Value(f, n)
        BY <3>2 DEF Upto
      <4>2. f[m - 1] \in S
        BY <3>1, <4>1
      <4>3. step[<<m, f[m - 1]>>] \in S
        BY <3>1, <4>2
      <4>4. Value(f, m) = step[<<m, f[m - 1]>>]
        BY <3>1
      <4> HIDE DEF Value
      <4> QED BY <4>1, <4>3, <4>4
    <3>4. g \in [0 .. m -> S] /\ g[m] = Value(f, m) /\ \A n \in 0 .. m - 1 : g[n] = f[n]
      <4>1. \A n \in 0 .. m : n # m => n \in 0 .. m - 1
        BY <3>1
      <4>2. m \in 0 .. m /\ \A n \in 0 .. m - 1 : n \in 0 .. m /\ n # m
        BY <3>1
      <4> HIDE DEF Value
      <4> QED BY <3>3, <4>1, <4>2
    <3> HIDE DEF g
    <3>5. \A n \in 0 .. m : Value(g, n) = Value(f, n)
      <4> TAKE n \in 0 .. m
      <4>1. n # 0 => n - 1 \in 0 .. m - 1
        BY <3>1
      <4> QED BY <3>4, <4>1
    <3>6. ASSUME NEW n \in 0 .. m PROVE g[n] = Value(g, n)
      <4>1. n # m => n \in 0 .. m - 1
        BY <3>1
      <4> HIDE DEF Value
      <4> QED BY <3>3, <3>4, <3>5, <4>1
    <3>7. Upto(g, m)
      BY <3>4, <3>6 DEF Upto
    <3> QED BY <2>3, <3>7 DEF Fails
  <2> QED BY <2>4, <2>5
<1>2. \E f : Upto(f, N)
  <2> HIDE DEF Upto
  <2> QED BY <1>1
<1>2a. PICK f : Upto(f, N)
  BY <1>2
<1>3. f \in [0 .. N -> S] /\ \A n \in 0 .. N : f[n] = Value(f, n)
  BY <1>2a
<1>4. 0 \in 0 .. N /\ \A n \in 1 .. N : n \in 0 .. N /\ n # 0
  OBVIOUS
<1>5. f[0] = x /\ \A n \in 1 .. N : f[n] = step[<<n, f[n - 1]>>]
  BY <1>3, <1>4
<1> QED BY <1>3, <1>5 DEF Iterates

\* What holds of the first, and of each if of the one before, holds of all of them.
LEMMA UpTo ==
    ASSUME NEW N \in Nat, NEW S, 0 \in S, \A n \in 1 .. N : n - 1 \in S => n \in S
    PROVE  0 .. N \subseteq S
<1> DEFINE Fails == (0 .. N) \ S
<1> SUFFICES ASSUME Fails # {} PROVE FALSE
  OBVIOUS
<1> HIDE DEF Fails
<1>1. Fails \subseteq Nat
  BY DEF Fails
<1>2. \E m \in Fails : \A j \in Fails : ~(<<j, m>> \in OpToRel(<, Nat))
  BY <1>1, WFMin, NatLessThanWellFounded, Zenon
<1>3. PICK m \in Fails : \A j \in Fails : ~(j < m)
  BY <1>1, <1>2 DEF OpToRel
<1>4. m \in 1 .. N /\ m - 1 \in Nat /\ m - 1 \notin Fails
  BY <1>1, <1>3 DEF Fails
<1> QED BY <1>3, <1>4 DEF Fails

-----------------------------------------------------------------------------
\* The score

\* A rule changes a number into a number.
LEMMA RuleTypes ==
    ASSUME NEW s, NEW data, IsSpec(s), NEW i \in DOMAIN s.rules, NEW t \in Int
    PROVE  ApplyRule(t, s.rules[i], data) \in Int
<1>1. s.rules[i].n \in Int
  BY DEF IsSpec, Range
<1> QED BY <1>1 DEF ApplyRule

\* The total after each rule.
LEMMA TotalsOf ==
    ASSUME NEW s, NEW data, IsSpec(s)
    PROVE  \E total \in [0 .. Len(s.rules) -> Int] :
              /\ total[0] = 0
              /\ \A n \in 1 .. Len(s.rules) : total[n] = ApplyRule(total[n - 1], s.rules[n], data)
              /\ ScoreTotal(s, data) = total[Len(s.rules)]
<1> DEFINE N == Len(s.rules)
           step == [p \in (1 .. N) \X Int |-> ApplyRule(p[2], s.rules[p[1]], data)]
           Totals(f) == f = [n \in 0 .. N |-> IF n = 0 THEN 0 ELSE ApplyRule(f[n - 1], s.rules[n], data)]
           total == CHOOSE f : Totals(f)
<1>1. N \in Nat /\ DOMAIN s.rules = 1 .. N
  BY DEF IsSpec
<1>2. \A n \in 1 .. N, t \in Int : ApplyRule(t, s.rules[n], data) \in Int
  BY <1>1, RuleTypes
<1>3. step \in [(1 .. N) \X Int -> Int]
  BY <1>2
<1>4. \A n \in 1 .. N, t \in Int : step[<<n, t>>] = ApplyRule(t, s.rules[n], data)
  OBVIOUS
<1> HIDE DEF step
<1>5. PICK f \in [0 .. N -> Int] : Iterates(f, N, 0, step)
  <2> HIDE DEF N
  <2>1. 0 \in Int /\ N \in Nat
    BY <1>1
  <2> QED BY <1>3, <2>1, Iteration
<1>5a. f[0] = 0 /\ \A n \in 1 .. N : f[n] = step[<<n, f[n - 1]>>]
  BY <1>5 DEF Iterates
<1>6. Totals(f)
  <2>1. \A n \in 0 .. N : n # 0 => n \in 1 .. N /\ f[n - 1] \in Int
    <3> HIDE DEF N
    <3>1. f \in [0 .. N -> Int]
      BY <1>5
    <3> QED BY <1>1, <3>1
  <2> QED BY <1>4, <1>5, <1>5a, <2>1
<1>7. Totals(total)
  BY <1>6, Zenon
<1>8. ScoreTotal(s, data) = total[N]
  BY Zenon DEF ScoreTotal
<1> HIDE DEF total
<1>9. total[0] = 0 /\ \A n \in 1 .. N : total[n] = ApplyRule(total[n - 1], s.rules[n], data)
  <2> HIDE DEF N
  <2>1. 0 \in 0 .. N /\ \A n \in 1 .. N : n \in 0 .. N /\ n # 0
    BY <1>1
  <2> QED BY <1>7, <2>1
<1>10. total \in [0 .. N -> Int]
  <2> DEFINE S == {n \in 0 .. N : total[n] \in Int}
  <2>1. \A n \in 1 .. N : n - 1 \in S => n \in S
    <3> HIDE DEF N
    <3> TAKE n \in 1 .. N
    <3> HAVE n - 1 \in S
    <3>1. ApplyRule(total[n - 1], s.rules[n], data) \in Int
      BY <1>2
    <3>2. total[n] \in Int
      BY <1>9, <3>1
    <3>3. n \in 0 .. N
      BY <1>1
    <3> QED BY <3>2, <3>3
  <2>2. 0 .. N \subseteq S
    <3>1. 0 \in S
      BY <1>1, <1>9
    <3> HIDE DEF S
    <3> QED BY <1>1, <2>1, <3>1, UpTo
  <2> QED BY <1>7, <2>2
<1> QED BY <1>8, <1>9, <1>10

\* The total is the last matching set, or nothing, and every matching add after it.
LEMMA ScoreOfMatching ==
    ASSUME NEW s, NEW data, IsSpec(s)
    PROVE  LET matching == {i \in DOMAIN s.rules : Holds(s.rules[i].if, data)}
               sets == {i \in matching : s.rules[i].op = "set"}
               from == IF sets = {} THEN 0 ELSE Max(sets)
               start == IF sets = {} THEN 0 ELSE s.rules[from].n
               after[i \in 0 .. Len(s.rules)] ==
                   IF i = 0 THEN 0
                   ELSE after[i - 1] + (IF i > from /\ i \in matching THEN s.rules[i].n ELSE 0)
           IN  ScoreTotal(s, data) = start + after[Len(s.rules)]
<1> DEFINE N == Len(s.rules)
           matching == {i \in DOMAIN s.rules : Holds(s.rules[i].if, data)}
           sets == {i \in matching : s.rules[i].op = "set"}
           from == IF sets = {} THEN 0 ELSE Max(sets)
           start == IF sets = {} THEN 0 ELSE s.rules[from].n
           More(i) == IF i > from /\ i \in matching THEN s.rules[i].n ELSE 0
           Sums(f) == f = [i \in 0 .. N |-> IF i = 0 THEN 0 ELSE f[i - 1] + More(i)]
           after == CHOOSE f : Sums(f)
<1> SUFFICES ScoreTotal(s, data) = start + after[N]
  BY Zenon
<1>1. N \in Nat /\ DOMAIN s.rules = 1 .. N /\ \A i \in 1 .. N : s.rules[i].n \in Int
  BY DEF IsSpec, Range
<1>2. /\ from \in 0 .. N
      /\ from # 0 => from \in sets
      /\ sets # {} => from # 0
      /\ \A i \in sets : i <= from
  <2>1. sets \subseteq 1 .. N
    BY <1>1
  <2> HIDE DEF sets, N
  <2>2. sets # {} => Max(sets) \in sets /\ \A i \in sets : Max(sets) >= i
    BY <1>1, <2>1, LastEntry
  <2>3. CASE sets = {}
    BY <1>1, <2>3
  <2>4. CASE sets # {}
    <3>1. from \in sets /\ \A i \in sets : from >= i
      BY <2>2, <2>4
    <3> HIDE DEF from
    <3> QED BY <1>1, <2>1, <3>1
  <2> QED BY <2>3, <2>4
<1> DEFINE step == [p \in (1 .. N) \X Int |-> p[2] + More(p[1])]
<1>3. \A i \in 1 .. N : More(i) \in Int
  BY <1>1
<1>4. step \in [(1 .. N) \X Int -> Int] /\ \A n \in 1 .. N, t \in Int : step[<<n, t>>] = t + More(n)
  <2> HIDE DEF More, N
  <2> QED BY <1>3
<1> HIDE DEF step
<1>5. PICK f \in [0 .. N -> Int] : Iterates(f, N, 0, step)
  <2> HIDE DEF N
  <2>1. 0 \in Int /\ N \in Nat
    BY <1>1
  <2> QED BY <1>4, <2>1, Iteration
<1>6. Sums(f)
  <2> HIDE DEF N, More
  <2>1. f[0] = 0 /\ \A n \in 1 .. N : f[n] = step[<<n, f[n - 1]>>]
    BY <1>5 DEF Iterates
  <2>2. \A n \in 0 .. N : n # 0 => n \in 1 .. N /\ f[n - 1] \in Int
    BY <1>1, <1>5
  <2> QED BY <1>4, <1>5, <2>1, <2>2
<1>7. Sums(after)
  <2> HIDE DEF Sums
  <2> QED BY <1>6, Zenon
<1> HIDE DEF after
<1>8. after[0] = 0 /\ \A n \in 1 .. N : after[n] = after[n - 1] + More(n)
  <2> HIDE DEF N, More
  <2> QED BY <1>1, <1>7
<1>9. \A n \in 0 .. N : after[n] \in Int /\ (n <= from => after[n] = 0)
  <2> DEFINE S == {n \in 0 .. N : after[n] \in Int /\ (n <= from => after[n] = 0)}
  <2> HIDE DEF N, from, matching
  <2>1. 0 \in S
    BY <1>1, <1>8
  <2>2. ASSUME NEW n \in 1 .. N, n - 1 \in S PROVE n \in S
    <3>1. after[n - 1] \in Int /\ (n - 1 <= from => after[n - 1] = 0) /\ n \in 0 .. N
      BY <1>1, <2>2
    <3>2. n <= from => More(n) = 0 /\ n - 1 <= from
      BY <1>1, <1>2
    <3> HIDE DEF More
    <3> QED BY <1>3, <1>8, <3>1, <3>2
  <2> HIDE DEF S
  <2>3. 0 .. N \subseteq S
    BY <1>1, <2>1, <2>2, UpTo
  <2> QED BY <2>3 DEF S
<1>10. PICK t \in [0 .. N -> Int] :
          /\ t[0] = 0
          /\ \A n \in 1 .. N : t[n] = ApplyRule(t[n - 1], s.rules[n], data)
          /\ ScoreTotal(s, data) = t[N]
  BY TotalsOf
<1>11. \A n \in 0 .. N : n >= from => t[n] = start + after[n]
  <2> DEFINE S == {n \in 0 .. N : n >= from => t[n] = start + after[n]}
  <2>1. 0 \in S
    <3>1. from = 0 => start = 0
      BY <1>2
    <3>2. 0 \in 0 .. N /\ (0 >= from => from = 0)
      BY <1>1, <1>2
    <3> HIDE DEF from, start, N
    <3> QED BY <1>8, <1>10, <3>1, <3>2
  <2>2. ASSUME NEW n \in 1 .. N, n - 1 \in S PROVE n \in S
    <3>1. n \in 0 .. N /\ n - 1 \in 0 .. N /\ n \in DOMAIN s.rules
      BY <1>1
    <3>2. t[n] = ApplyRule(t[n - 1], s.rules[n], data) /\ t[n - 1] \in Int /\ t[n] \in Int
      BY <1>10, <3>1
    <3>3. CASE n < from
      <4> HIDE DEF N, from
      <4>1. ~(n >= from)
        BY <1>2, <3>1, <3>3
      <4> QED BY <3>1, <4>1
    <3>4. CASE n = from
      <4>1. from \in sets /\ start = s.rules[n].n
        <5>1. from # 0
          <6> HIDE DEF from, N
          <6> QED BY <1>1, <3>4
        <5>2. from \in sets
          <6> HIDE DEF from, sets, N
          <6> QED BY <1>2, <5>1
        <5>3. start = s.rules[from].n
          <6> HIDE DEF from
          <6> QED BY <5>1
        <5> HIDE DEF from, start, sets
        <5> QED BY <3>4, <5>2, <5>3
      <4>2. t[n] = s.rules[n].n
        <5>1. n \in sets
          <6> HIDE DEF from, sets, start
          <6> QED BY <3>4, <4>1
        <5>2. Holds(s.rules[n].if, data) /\ s.rules[n].op = "set"
          <6> HIDE DEF from, start
          <6> QED BY <5>1
        <5> HIDE DEF from, sets, start, N
        <5> QED BY <3>2, <5>2 DEF ApplyRule
      <4>3. after[n] = 0
        <5> HIDE DEF from, N
        <5> QED BY <1>2, <1>9, <3>1, <3>4
      <4>4. s.rules[n].n \in Int
        BY <1>1
      <4> HIDE DEF start, from, N
      <4> QED BY <3>1, <4>1, <4>2, <4>3, <4>4
    <3>5. CASE n > from
      <4>1. n - 1 >= from
        <5> HIDE DEF from, N
        <5> QED BY <1>2, <3>5, <3>1
      <4>2. t[n - 1] = start + after[n - 1]
        BY <2>2, <4>1
      <4>3. n \notin sets
        <5> HIDE DEF sets, from, N
        <5> QED BY <1>2, <3>5, <3>1
      <4>4. t[n] = t[n - 1] + More(n)
        <5>1. n \in matching <=> Holds(s.rules[n].if, data)
          BY <3>1
        <5>2. n \in matching => s.rules[n].op # "set"
          BY <4>3
        <5>3. n \notin matching => More(n) = 0
          OBVIOUS
        <5>4. n \in matching => More(n) = s.rules[n].n
          BY <3>5
        <5> HIDE DEF More, matching, from, N
        <5> QED BY <3>2, <5>1, <5>2, <5>3, <5>4 DEF ApplyRule
      <4>5. start \in Int /\ after[n - 1] \in Int /\ More(n) \in Int
        <5>1. start \in Int
          <6>1. sets # {} => from \in 1 .. N
            <7>1. sets \subseteq 1 .. N
              BY <1>1
            <7> HIDE DEF from, sets, N
            <7> QED BY <1>2, <7>1
          <6> HIDE DEF from, sets, N
          <6> QED BY <1>1, <6>1
        <5> HIDE DEF More, start, from, N
        <5> QED BY <1>3, <1>9, <3>1, <5>1
      <4>6. after[n] = after[n - 1] + More(n)
        BY <1>8
      <4> HIDE DEF More, start, after, from, N
      <4>7. t[n] = start + after[n]
        BY <4>2, <4>4, <4>5, <4>6
      <4> QED BY <3>1, <4>7
    <3> HIDE DEF from, S
    <3> QED BY <1>2, <3>1, <3>3, <3>4, <3>5
  <2> HIDE DEF S, N
  <2>3. 0 .. N \subseteq S
    BY <1>1, <2>1, <2>2, UpTo
  <2> HIDE DEF from, start, after, More
  <2> QED BY <2>3 DEF S
<1> HIDE DEF from, start, N
<1> QED BY <1>1, <1>2, <1>10, <1>11

\* Buckets that do not overlap share no number, so the first that a total is in is the only one.
LEMMA OneBucket ==
    ASSUME NEW s, IsSpec(s), ~OverlappingBuckets(s), NEW total \in Int,
           NEW i \in DOMAIN s.buckets, InBucket(s.buckets[i], total)
    PROVE  ScoreBucket(s, total) = i
<1> DEFINE I == {j \in 1 .. Len(s.buckets) : InBucket(s.buckets[j], total)}
<1>1. /\ Len(s.buckets) \in Nat /\ DOMAIN s.buckets = 1 .. Len(s.buckets)
      /\ \A j \in DOMAIN s.buckets : s.buckets[j].min \in Int /\ s.buckets[j].max \in Int
  <2>1. s.buckets \in Seq([min : Int, max : Int])
    BY DEF IsSpec
  <2>2. \A j \in DOMAIN s.buckets : s.buckets[j] \in [min : Int, max : Int]
    <3> DEFINE Bucket == [min : Int, max : Int]
    <3>1. s.buckets \in Seq(Bucket)
      BY <2>1
    <3> HIDE DEF Bucket
    <3>2. \A j \in DOMAIN s.buckets : s.buckets[j] \in Bucket
      BY <3>1
    <3> QED BY <3>2 DEF Bucket
  <2>3. \A b \in [min : Int, max : Int] : b.min \in Int /\ b.max \in Int
    OBVIOUS
  <2> QED BY <2>1, <2>2, <2>3
<1>2. ASSUME NEW j \in I PROVE j = i
  <2>1. Overlap(s.buckets[i], s.buckets[j]) /\ Overlap(s.buckets[j], s.buckets[i])
    BY <1>1 DEF InBucket, Overlap
  <2>2. ~(i < j) /\ ~(j < i)
    BY <1>1, <2>1 DEF OverlappingBuckets
  <2> QED BY <1>1, <2>2
<1>3. I = {i} /\ i \in Int
  BY <1>1, <1>2
<1>4. ScoreBucket(s, total) = Min(I)
  BY <1>3, Zenon DEF ScoreBucket, SelectInSeq
<1> HIDE DEF I
<1> QED BY <1>3, <1>4 DEF Min

LEMMA ScoresAsDeclared == IsSpec(declared) => ScoreIsDeclared
<1> SUFFICES ASSUME IsSpec(declared) PROVE ScoreIsDeclared
  OBVIOUS
<1> DEFINE s == declared
           data == DataOf(s, payload)
           total == ScoreTotal(s, data)
<1>1. total \in Int
  <2>1. PICK t \in [0 .. Len(s.rules) -> Int] : total = t[Len(s.rules)]
    BY TotalsOf
  <2>2. Len(s.rules) \in Nat
    BY DEF IsSpec
  <2> HIDE DEF total
  <2> QED BY <2>1, <2>2
<1>2. ASSUME Publishable(s), NEW i \in DOMAIN s.buckets, InBucket(s.buckets[i], total)
      PROVE  i = ScoreBucket(s, total)
  BY <1>1, <1>2, OneBucket DEF Publishable
<1> QED BY <1>2, ScoreOfMatching, Zenon DEF ScoreIsDeclared

\* The score of a submission is the last matching set and every matching add
\* after it, and it is in one bucket of a published spec at most.
THEOREM ScoreIsDeclaredHolds == Spec => []ScoreIsDeclared
<1> QED BY InputsAreSpecs, ScoresAsDeclared, PTL

-----------------------------------------------------------------------------
\* The calculations

\* The results of the first n formulas, for each n.
LEMMA ResultsOf ==
    ASSUME NEW s, NEW v, Len(s.calcs) \in Nat
    PROVE  \E r : /\ r[0] = <<>>
                  /\ \A n \in 1 .. Len(s.calcs) : r[n] = Append(r[n - 1], Result(s, v, r[n - 1]))
                  /\ CalcResults(s, v) = r[Len(s.calcs)]
<1> DEFINE N == Len(s.calcs)
           Value(f, n) == IF n = 0 THEN <<>> ELSE Append(f[n - 1], Result(s, v, f[n - 1]))
           Upto(f, m) == f = [n \in 0 .. m |-> f[n]] /\ \A n \in 0 .. m : f[n] = Value(f, n)
           Has == {m \in 0 .. N : \E f : Upto(f, m)}
<1>1. 0 \in Has
  <2>1. Upto([n \in 0 .. 0 |-> <<>>], 0)
    OBVIOUS
  <2> HIDE DEF Upto
  <2> QED BY <2>1
<1>2. ASSUME NEW m \in 1 .. N, m - 1 \in Has PROVE m \in Has
  <2> HIDE DEF Upto
  <2>1. PICK f : Upto(f, m - 1)
    BY <1>2
  <2> DEFINE g == [n \in 0 .. m |-> IF n = m THEN Value(f, m) ELSE f[n]]
  <2> HIDE DEF Value
  <2>2. \A n \in 0 .. m - 1 : f[n] = Value(f, n)
    BY <2>1 DEF Upto
  <2>3. g[m] = Value(f, m) /\ (\A n \in 0 .. m - 1 : g[n] = f[n]) /\ g = [n \in 0 .. m |-> g[n]]
    <3>1. m \in 0 .. m /\ \A n \in 0 .. m - 1 : n \in 0 .. m /\ n # m
      OBVIOUS
    <3> QED BY <3>1
  <2> HIDE DEF g
  <2>4. \A n \in 0 .. m : Value(g, n) = Value(f, n)
    <3> TAKE n \in 0 .. m
    <3>1. n # 0 => n - 1 \in 0 .. m - 1
      OBVIOUS
    <3> QED BY <2>3, <3>1 DEF Value
  <2>5. \A n \in 0 .. m : n # m => n \in 0 .. m - 1
    OBVIOUS
  <2>6. Upto(g, m)
    BY <2>2, <2>3, <2>4, <2>5 DEF Upto
  <2>7. m \in 0 .. N
    OBVIOUS
  <2> QED BY <2>6, <2>7
<1>3. N \in Has
  <2> HIDE DEF Has, N
  <2>1. N \in Nat
    BY DEF N
  <2>2. 0 .. N \subseteq Has
    BY <1>1, <1>2, <2>1, UpTo
  <2> QED BY <2>1, <2>2
<1>4. PICK f : Upto(f, N)
  <2> HIDE DEF Upto, N
  <2> QED BY <1>3
<1> DEFINE Results(h) == h = [n \in 0 .. N |-> Value(h, n)]
           r == CHOOSE h : Results(h)
<1>5. Results(f)
  <2>1. f = [n \in 0 .. N |-> f[n]] /\ \A n \in 0 .. N : f[n] = Value(f, n)
    BY <1>4
  <2> HIDE DEF Value
  <2> QED BY <2>1
<1>6. Results(r)
  <2> HIDE DEF Results
  <2> QED BY <1>5, Zenon
<1>7. CalcResults(s, v) = r[N]
  BY Zenon DEF CalcResults
<1> HIDE DEF r
<1>8. \A n \in 0 .. N : r[n] = Value(r, n)
  <2>1. r = [n \in 0 .. N |-> Value(r, n)]
    BY <1>6
  <2> HIDE DEF Value
  <2> QED BY <2>1
<1>9. r[0] = <<>> /\ \A n \in 1 .. N : r[n] = Append(r[n - 1], Result(s, v, r[n - 1]))
  <2>1. 0 \in 0 .. N /\ \A n \in 1 .. N : n \in 0 .. N /\ n # 0
    OBVIOUS
  <2> HIDE DEF N
  <2> QED BY <1>8, <2>1
<1> QED BY <1>7, <1>9

\* Appending leaves the rest.
LEMMA Appended ==
    ASSUME NEW q, \E T : q \in Seq(T), NEW e
    PROVE  /\ \E T : Append(q, e) \in Seq(T)
           /\ Len(q) \in Nat /\ DOMAIN q = 1 .. Len(q)
           /\ Len(Append(q, e)) = Len(q) + 1
           /\ DOMAIN Append(q, e) = 1 .. Len(q) + 1
           /\ Append(q, e)[Len(q) + 1] = e
           /\ \A i \in 1 .. Len(q) : Append(q, e)[i] = q[i]
<1>1. PICK T : q \in Seq(T)
  OBVIOUS
<1> DEFINE U == T \cup {e}
<1>2. q \in Seq(U) /\ e \in U
  <2>1. \A i \in 1 .. Len(q) : q[i] \in U
    BY <1>1
  <2>2. q = [i \in 1 .. Len(q) |-> q[i]] /\ Len(q) \in Nat
    BY <1>1
  <2> HIDE DEF U
  <2>3. q \in [1 .. Len(q) -> U]
    BY <2>1, <2>2
  <2> QED BY <2>2, <2>3 DEF U
<1> HIDE DEF U
<1> QED BY <1>2

\* A formula has a number exactly if every id in it is a field or stands for a
\* formula before it that has one.
LEMMA ResultOfRow ==
    ASSUME NEW s, NEW v, IsSpec(s)
    PROVE  LET N == Len(s.calcs)
               results == CalcResults(s, v)
           IN  \A i \in 1 .. N :
                  results[i] # Null <=>
                     /\ Uncompiled(s, i) = {}
                     /\ i \notin Compiled(s, i)
                     /\ \A j \in Compiled(s, i) \cap (1 .. i - 1) : results[j] # Null
<1> DEFINE N == Len(s.calcs)
           results == CalcResults(s, v)
<1>1. N \in Nat
  BY DEF IsSpec
<1>2. PICK r : /\ r[0] = <<>>
               /\ \A n \in 1 .. N : r[n] = Append(r[n - 1], Result(s, v, r[n - 1]))
               /\ results = r[N]
  BY <1>1, ResultsOf
<1> HIDE DEF N, results
<1> DEFINE Sound(n) == (\E T : r[n] \in Seq(T)) /\ Len(r[n]) = n
<1>3. \A n \in 0 .. N : Sound(n)
  <2> DEFINE S == {n \in 0 .. N : Sound(n)}
  <2>1. 0 \in S
    <3>1. r[0] \in Seq({}) /\ Len(r[0]) = 0
      BY <1>2
    <3> QED BY <1>1, <3>1
  <2>2. ASSUME NEW n \in 1 .. N, n - 1 \in S PROVE n \in S
    <3>1. r[n] = Append(r[n - 1], Result(s, v, r[n - 1])) /\ n \in 0 .. N
      BY <1>1, <1>2
    <3>2. (\E T : r[n - 1] \in Seq(T)) /\ Len(r[n - 1]) = n - 1
      BY <2>2
    <3>3. (\E T : r[n] \in Seq(T)) /\ Len(r[n]) = Len(r[n - 1]) + 1
      <4> DEFINE q == r[n - 1]
                 e == Result(s, v, q)
      <4> HIDE DEF q, e
      <4>1. \E T : q \in Seq(T)
        BY <3>2 DEF q
      <4>2. (\E T : Append(q, e) \in Seq(T)) /\ Len(Append(q, e)) = Len(q) + 1
        BY <4>1, Appended
      <4> QED BY <3>1, <4>2 DEF q, e
    <3>4. Len(r[n]) = n
      BY <3>2, <3>3
    <3> QED BY <3>1, <3>3, <3>4
  <2> HIDE DEF S
  <2>3. 0 .. N \subseteq S
    BY <1>1, <2>1, <2>2, UpTo
  <2> QED BY <2>3 DEF S
<1>4. ASSUME NEW n \in 1 .. N
      PROVE  /\ Len(r[n - 1]) = n - 1 /\ DOMAIN r[n - 1] = 1 .. n - 1
             /\ r[n][n] = Result(s, v, r[n - 1])
             /\ \A i \in 1 .. n - 1 : r[n][i] = r[n - 1][i]
  <2>1. Sound(n - 1) /\ r[n] = Append(r[n - 1], Result(s, v, r[n - 1])) /\ n = n - 1 + 1
    <3>1. n - 1 \in 0 .. N /\ n = n - 1 + 1
      BY <1>1
    <3>2. Sound(n - 1)
      BY <1>3, <3>1
    <3> HIDE DEF Sound
    <3> QED BY <1>2, <3>1, <3>2
  <2>2. Len(r[n - 1]) = n - 1 /\ \E T : r[n - 1] \in Seq(T)
    BY <2>1
  <2>3. /\ DOMAIN r[n - 1] = 1 .. Len(r[n - 1])
        /\ r[n][Len(r[n - 1]) + 1] = Result(s, v, r[n - 1])
        /\ \A i \in 1 .. Len(r[n - 1]) : r[n][i] = r[n - 1][i]
    BY <2>1, <2>2, Appended
  <2> QED BY <2>1, <2>2, <2>3
\* What a formula came to stays.
<1>5. \A n \in 0 .. N : \A i \in 1 .. n : r[n][i] = r[i][i]
  <2> DEFINE S == {n \in 0 .. N : \A i \in 1 .. n : r[n][i] = r[i][i]}
  <2>1. 0 \in S
    BY <1>1
  <2>2. ASSUME NEW n \in 1 .. N, n - 1 \in S PROVE n \in S
    <3>1. \A i \in 1 .. n : i # n => i \in 1 .. n - 1
      OBVIOUS
    <3>2. n \in 0 .. N /\ \A i \in 1 .. n - 1 : r[n - 1][i] = r[i][i]
      BY <1>1, <2>2
    <3> QED BY <1>4, <3>1, <3>2
  <2> HIDE DEF S
  <2>3. 0 .. N \subseteq S
    BY <1>1, <2>1, <2>2, UpTo
  <2> QED BY <2>3 DEF S
<1>6. ASSUME NEW i \in 1 .. N
      PROVE  results[i] # Null <=>
                /\ Uncompiled(s, i) = {}
                /\ i \notin Compiled(s, i)
                /\ \A j \in Compiled(s, i) \cap (1 .. i - 1) : results[j] # Null
  <2> DEFINE before == r[i - 1]
  <2>1. results[i] = Result(s, v, before)
    <3>1. N \in 0 .. N
      BY <1>1
    <3>2. results[i] = r[i][i]
      BY <1>2, <1>5, <3>1
    <3> QED BY <1>4, <3>2
  <2>2. Len(before) + 1 = i /\ DOMAIN before = 1 .. i - 1
    BY <1>4
  <2>3. \A j \in 1 .. i - 1 : before[j] = results[j]
    <3>1. N \in 0 .. N /\ i - 1 \in 0 .. N /\ \A j \in 1 .. i - 1 : j \in 1 .. N
      BY <1>1
    <3>2. \A j \in 1 .. i - 1 : r[i - 1][j] = r[j][j] /\ r[N][j] = r[j][j]
      BY <1>5, <3>1
    <3> QED BY <1>2, <3>2
  <2> HIDE DEF before
  <2>4. <<FormulaSum(s, v, i, before)>> # Null
    BY DEF Null
  <2>5. Result(s, v, before) = IF \/ Uncompiled(s, i) # {} \/ i \in Compiled(s, i)
                                  \/ \E j \in Compiled(s, i) \cap (1 .. i - 1) : before[j] = Null
                               THEN Null ELSE <<FormulaSum(s, v, i, before)>>
    BY <2>2, Zenon DEF Result
  <2> QED BY <2>1, <2>3, <2>4, <2>5
<1> QED BY <1>6 DEF N, results

\* A set of formulas that refer to fields and to formulas of the set before them
\* all have numbers; and those that have numbers are such a set.
LEMMA RowsInOrder == IsSpec(declared) => CalcsInOrderEvaluate
<1> SUFFICES ASSUME IsSpec(declared) PROVE CalcsInOrderEvaluate
  OBVIOUS
<1> DEFINE s == declared
           calcs == s.calcs
           N == Len(calcs)
           results == CalcResults(s, payload)
           Refs(i) == calcs[i].refs \ FieldIds(s)
           DeclaredBefore(id, j, i) ==
               j < i /\ calcs[j].id = id /\ \A k \in j + 1 .. i : calcs[k].id # id
           Ordered(rows) == \A i \in rows : \A id \in Refs(i) : \E j \in rows : DeclaredBefore(id, j, i)
<1>1. N \in Nat /\ DOMAIN calcs = 1 .. N
  BY DEF IsSpec
<1>2. \A i \in 1 .. N :
         results[i] # Null <=>
            /\ Uncompiled(s, i) = {}
            /\ i \notin Compiled(s, i)
            /\ \A j \in Compiled(s, i) \cap (1 .. i - 1) : results[j] # Null
  BY ResultOfRow
<1>3. \A i \in 1 .. N :
         /\ Compiled(s, i) = {j \in 1 .. i : /\ calcs[j].id \in Refs(i)
                                             /\ \A k \in j + 1 .. i : calcs[k].id # calcs[j].id}
         /\ Uncompiled(s, i) = {id \in Refs(i) : \A j \in Compiled(s, i) : calcs[j].id # id}
  BY DEF Compiled, Uncompiled
<1> SUFFICES \A i \in DOMAIN calcs :
               results[i] # Null <=> \E rows \in SUBSET (DOMAIN calcs) : i \in rows /\ Ordered(rows)
  BY Zenon DEF CalcsInOrderEvaluate
<1> HIDE DEF s, calcs, N, results, Refs
<1>4. ASSUME NEW i \in 1 .. N, results[i] # Null
      PROVE  \E rows \in SUBSET (1 .. N) : i \in rows /\ Ordered(rows)
  <2> DEFINE rows == {j \in 1 .. N : results[j] # Null}
  <2>1. ASSUME NEW j \in rows, NEW id \in Refs(j) PROVE \E k \in rows : DeclaredBefore(id, k, j)
    <3>1. j \in 1 .. N /\ results[j] # Null
      OBVIOUS
    <3>2. PICK k \in Compiled(s, j) : calcs[k].id = id
      BY <1>2, <1>3, <3>1
    <3>3. k \in 1 .. j /\ k # j /\ \A m \in k + 1 .. j : calcs[m].id # id
      BY <1>2, <1>3, <3>1, <3>2
    <3>4. k \in 1 .. j - 1 /\ k < j /\ k \in 1 .. N
      BY <1>1, <3>1, <3>3
    <3>5. results[k] # Null
      BY <1>2, <3>1, <3>2, <3>4
    <3> QED BY <3>2, <3>3, <3>4, <3>5
  <2>2. i \in rows /\ Ordered(rows) /\ rows \in SUBSET (1 .. N)
    BY <1>4, <2>1
  <2> HIDE DEF rows, Ordered
  <2> QED BY <2>2
<1>5. ASSUME NEW rows \in SUBSET (1 .. N), Ordered(rows) PROVE \A i \in rows : results[i] # Null
  <2> DEFINE S == {n \in 0 .. N : \A i \in rows : i <= n => results[i] # Null}
  <2>1. 0 \in S
    BY <1>1
  <2>2. ASSUME NEW n \in 1 .. N, n - 1 \in S PROVE n \in S
    <3>1. \A i \in rows : i <= n => i = n \/ i <= n - 1
      OBVIOUS
    <3>2. ASSUME n \in rows PROVE results[n] # Null
      <4>1. \A id \in Refs(n) : \E j \in rows : DeclaredBefore(id, j, n)
        BY <1>5, <3>2
      <4>2. Uncompiled(s, n) = {}
        <5>1. ASSUME NEW id \in Refs(n) PROVE \E j \in Compiled(s, n) : calcs[j].id = id
          <6>1. PICK j \in rows : DeclaredBefore(id, j, n)
            BY <4>1
          <6>2. j \in 1 .. n
            BY <6>1
          <6> QED BY <1>3, <6>1, <6>2
        <5> QED BY <1>3, <5>1
      <4>3. n \notin Compiled(s, n)
        <5> SUFFICES ASSUME n \in Compiled(s, n) PROVE FALSE
          OBVIOUS
        <5>1. calcs[n].id \in Refs(n)
          BY <1>3
        <5>2. PICK j \in rows : DeclaredBefore(calcs[n].id, j, n)
          BY <4>1, <5>1
        <5>3. n \in j + 1 .. n
          BY <5>2
        <5> QED BY <5>2, <5>3
      <4>4. ASSUME NEW j \in Compiled(s, n) \cap (1 .. n - 1) PROVE results[j] # Null
        <5>1. calcs[j].id \in Refs(n) /\ \A k \in j + 1 .. n : calcs[k].id # calcs[j].id
          BY <1>3
        <5>2. PICK i \in rows : DeclaredBefore(calcs[j].id, i, n)
          BY <4>1, <5>1
        <5>3. i = j
          <6>1. i \in 1 .. n - 1 /\ j \in 1 .. n - 1
            BY <5>2
          <6>2. ~(i < j)
            <7>1. i < j => j \in i + 1 .. n
              BY <6>1
            <7> QED BY <5>2, <7>1
          <6>3. ~(j < i)
            <7>1. j < i => i \in j + 1 .. n
              BY <6>1
            <7> QED BY <5>1, <5>2, <7>1
          <6> QED BY <6>1, <6>2, <6>3
        <5> QED BY <2>2, <5>2, <5>3
      <4> QED BY <1>2, <4>2, <4>3, <4>4
    <3>3. n \in 0 .. N
      BY <1>1
    <3> QED BY <2>2, <3>1, <3>2, <3>3
  <2> HIDE DEF S
  <2>3. 0 .. N \subseteq S
    BY <1>1, <2>1, <2>2, UpTo
  <2>4. N \in S /\ \A i \in rows : i <= N
    BY <1>1, <2>3
  <2> QED BY <2>4 DEF S
<1> HIDE DEF Ordered
<1> QED BY <1>1, <1>4, <1>5

\* A calculation evaluates exactly if all it refers to, directly or not, is
\* declared before whatever refers to it, in any spec.
THEOREM CalcsInOrderEvaluateHolds == Spec => []CalcsInOrderEvaluate
<1> QED BY InputsAreSpecs, RowsInOrder, PTL

-----------------------------------------------------------------------------
\* The pages visited

\* What WalkFollowsActions says of an action and of a step between pages.
ActionApplies(s, data, k, i) ==
    /\ s.actions[k].page = s.pages[i].id
    /\ Holds(s.actions[k].if, data)
    /\ "skip_ids" \notin DOMAIN s.actions[k].do

Sends(s, data, i, j) ==
    \/ \E k \in DOMAIN s.actions :
         /\ ActionApplies(s, data, k, i) /\ \A m \in 1 .. k - 1 : ~ActionApplies(s, data, m, i)
         /\ LET do == s.actions[k].do
            IN  IF "skip_pages" \in DOMAIN do
                THEN j = Smaller(i + 1 + do.skip_pages, Len(s.pages) + 1)
                ELSE j \in DOMAIN s.pages /\ s.pages[j].id = do.jump_to_page
    \/ j = i + 1 /\ \A k \in DOMAIN s.actions : ~ActionApplies(s, data, k, i)

\* A set of positive numbers has a first.
LEMMA FirstEntry ==
    ASSUME NEW K, K \subseteq Nat, K # {}
    PROVE  Min(K) \in K /\ \A j \in K : Min(K) <= j
<1>1. \E m \in K : \A j \in K : ~(<<j, m>> \in OpToRel(<, Nat))
  BY WFMin, NatLessThanWellFounded, Zenon
<1>2. PICK m \in K : \A j \in K : ~(j < m)
  BY <1>1 DEF OpToRel
<1>3. \A j \in K : m <= j
  BY <1>2
<1> QED BY <1>3 DEF Min

\* The pages of a published spec are found by their ids.
LEMMA IndexOfPage ==
    ASSUME NEW s, IsSpec(s), ~RepeatedPage(s)
    PROVE  /\ Len(s.pages) \in Nat \ {0} /\ DOMAIN s.pages = 1 .. Len(s.pages)
           /\ \A i \in DOMAIN s.pages : s.pages[i].id \in PageIds(s)
           /\ \A i \in DOMAIN s.pages : PageIndex(s, s.pages[i].id) = i
           /\ \A id \in PageIds(s) : /\ PageIndex(s, id) \in DOMAIN s.pages
                                     /\ s.pages[PageIndex(s, id)].id = id
<1>1. Len(s.pages) \in Nat \ {0} /\ DOMAIN s.pages = 1 .. Len(s.pages)
  BY DEF IsSpec
<1>2. \A i \in DOMAIN s.pages : s.pages[i].id \in PageIds(s)
  BY DEF PageIds, Range
<1>3. ASSUME NEW i \in DOMAIN s.pages PROVE PageIndex(s, s.pages[i].id) = i
  <2>1. \A j \in DOMAIN s.pages : s.pages[j].id = s.pages[i].id => j = i
    BY DEF RepeatedPage, IsInjective
  <2>2. {j \in DOMAIN s.pages : s.pages[j].id = s.pages[i].id} = {i}
    BY <2>1
  <2>3. i \in Int
    BY <1>1
  <2>4. Max({i}) = i
    BY <2>3 DEF Max
  <2> QED BY <2>2, <2>4 DEF PageIndex
<1>4. \A id \in PageIds(s) : \E i \in DOMAIN s.pages : s.pages[i].id = id
  BY DEF PageIds, Range
<1> QED BY <1>1, <1>2, <1>3, <1>4

\* The page after another is where the first action that applies sends to.
LEMMA NextPageSends ==
    ASSUME NEW s, NEW data, IsSpec(s), ~RepeatedPage(s), ~UnknownPageRef(s),
           NEW i \in DOMAIN s.pages
    PROVE  /\ NextPage(s, i, data) \in 1 .. Len(s.pages) + 1
           /\ Sends(s, data, i, NextPage(s, i, data))
<1> DEFINE N == Len(s.pages)
           K == {k \in 1 .. Len(s.actions) : ActionApplies(s, data, k, i)}
           first == IF K # {} THEN Min(K) ELSE 0
           do == s.actions[first].do
<1>1. N \in Nat \ {0} /\ i \in 1 .. N /\ DOMAIN s.pages = 1 .. N
  BY IndexOfPage
<1>2. Len(s.actions) \in Nat /\ DOMAIN s.actions = 1 .. Len(s.actions)
  BY DEF IsSpec
<1>3. NextPage(s, i, data) =
        IF first = 0 THEN i + 1
        ELSE IF "skip_pages" \in DOMAIN do THEN Smaller(i + 1 + do.skip_pages, N + 1)
             ELSE IF PageIndex(s, do.jump_to_page) = 0 THEN i + 1
                  ELSE PageIndex(s, do.jump_to_page)
  BY Zenon DEF NextPage, SelectInSeq, ActionApplies
<1>4. CASE K = {}
  <2>1. first = 0
    BY <1>4
  <2>2. NextPage(s, i, data) = i + 1
    BY <1>3, <2>1
  <2>3. \A k \in DOMAIN s.actions : ~ActionApplies(s, data, k, i)
    BY <1>2, <1>4
  <2>4. Sends(s, data, i, i + 1)
    BY <2>3 DEF Sends
  <2> HIDE DEF N
  <2> QED BY <1>1, <2>2, <2>4 DEF N
<1>5. CASE K # {}
  <2>1. first \in K /\ \A k \in K : first <= k
    <3>1. K \subseteq Nat
      BY <1>2
    <3> HIDE DEF K
    <3> QED BY <1>5, <3>1, FirstEntry
  <2>2. first \in DOMAIN s.actions /\ first # 0 /\ ActionApplies(s, data, first, i)
    BY <1>2, <2>1
  <2>3. \A m \in 1 .. first - 1 : ~ActionApplies(s, data, m, i)
    <3> SUFFICES ASSUME NEW m \in 1 .. first - 1, ActionApplies(s, data, m, i) PROVE FALSE
      OBVIOUS
    <3>1. first \in 1 .. Len(s.actions)
      BY <1>2, <2>2
    <3> HIDE DEF first
    <3>2. m \in K
      BY <1>2, <3>1
    <3> QED BY <2>1, <3>1, <3>2
  <2>4. /\ DOMAIN do \in {{"jump_to_page"}, {"skip_pages"}, {"skip_ids"}}
        /\ "skip_pages" \in DOMAIN do => do.skip_pages \in Nat \ {0}
        /\ "skip_ids" \notin DOMAIN do
        /\ "jump_to_page" \in DOMAIN do => do.jump_to_page \in PageIds(s)
    <3>1. s.actions[first] \in Range(s.actions)
      BY <2>2 DEF Range
    <3> HIDE DEF first
    <3>2. /\ DOMAIN do \in {{"jump_to_page"}, {"skip_pages"}, {"skip_ids"}}
          /\ "skip_pages" \in DOMAIN do => do.skip_pages \in Nat \ {0}
      BY <3>1, Zenon DEF IsSpec
    <3>3. "jump_to_page" \in DOMAIN do => do.jump_to_page \in PageIds(s)
      BY <3>1 DEF UnknownPageRef
    <3> QED BY <2>2, <3>2, <3>3 DEF ActionApplies
  <2> HIDE DEF first
  <2>5. CASE "skip_pages" \in DOMAIN do
    <3>1. NextPage(s, i, data) = Smaller(i + 1 + do.skip_pages, N + 1)
      BY <1>3, <2>2, <2>5
    <3>2. Smaller(i + 1 + do.skip_pages, N + 1) \in 1 .. N + 1
      <4>1. do.skip_pages \in Nat
        BY <2>4, <2>5
      <4> HIDE DEF N, do
      <4> QED BY <1>1, <4>1 DEF Smaller
    <3>3. Sends(s, data, i, Smaller(i + 1 + do.skip_pages, N + 1))
      BY <2>2, <2>3, <2>5, Zenon DEF Sends
    <3> QED BY <3>1, <3>2, <3>3
  <2>6. CASE "skip_pages" \notin DOMAIN do
    <3>1. do.jump_to_page \in PageIds(s)
      <4>1. "jump_to_page" \in DOMAIN do
        BY <2>4, <2>6
      <4> QED BY <2>4, <4>1
    <3> DEFINE j == PageIndex(s, do.jump_to_page)
    <3>2. j \in DOMAIN s.pages /\ s.pages[j].id = do.jump_to_page
      BY <3>1, IndexOfPage
    <3>3. NextPage(s, i, data) = j
      <4>1. j # 0
        BY <1>1, <3>2
      <4> QED BY <1>3, <2>2, <2>6, <4>1
    <3>4. Sends(s, data, i, j)
      BY <2>2, <2>3, <2>6, <3>2, Zenon DEF Sends
    <3>5. j \in 1 .. N + 1
      BY <1>1, <3>2
    <3> QED BY <3>3, <3>4, <3>5
  <2> QED BY <2>5, <2>6
<1> QED BY <1>4, <1>5

\* The walk so far, and what is true of it after n turns.
WalkState(s) == [at : 1 .. Len(s.pages) + 1, visited : Seq(PageIds(s)),
                 cycle : BOOLEAN, ended : BOOLEAN]

\* The pages visited, on the way to page at.
WalksTo(s, data, visited, at) ==
    LET Index(k) == PageIndex(s, visited[k])
    IN  /\ IsInjective(visited)
        /\ IF visited = <<>> THEN at = 1
           ELSE Index(1) = 1 /\ Sends(s, data, Index(Len(visited)), at)
        /\ \A k \in 1 .. Len(visited) - 1 : Sends(s, data, Index(k), Index(k + 1))

WalkInv(s, data, w, n) ==
    /\ WalksTo(s, data, w.visited, w.at)
    /\ ~w.ended => Len(w.visited) = n /\ ~w.cycle
    /\ w.ended => IF w.cycle THEN w.at \in DOMAIN s.pages /\ s.pages[w.at].id \in Range(w.visited)
                  ELSE w.at = Len(s.pages) + 1

StartOfWalk == [at |-> 1, visited |-> <<>>, cycle |-> FALSE, ended |-> FALSE]

\* A turn of the loop keeps the walk well formed.
LEMMA TurnTypes ==
    ASSUME NEW s, NEW data, IsSpec(s), ~RepeatedPage(s), ~UnknownPageRef(s),
           NEW w \in WalkState(s)
    PROVE  WalkOn(s, w, data) \in WalkState(s)
<1>1. DOMAIN s.pages = 1 .. Len(s.pages) /\ Len(s.pages) \in Nat
  BY IndexOfPage
<1>2. w.at \in 1 .. Len(s.pages) + 1 /\ w.visited \in Seq(PageIds(s))
  BY DEF WalkState
<1>3. ASSUME w.at \in 1 .. Len(s.pages) PROVE s.pages[w.at].id \in PageIds(s) /\ NextPage(s, w.at, data) \in 1 .. Len(s.pages) + 1
  BY <1>1, <1>3, IndexOfPage, NextPageSends
<1>4. ASSUME w.at \in 1 .. Len(s.pages)
      PROVE  [w EXCEPT !.visited = Append(w.visited, s.pages[w.at].id), !.at = NextPage(s, w.at, data)]
                \in WalkState(s)
  <2> DEFINE q == Append(w.visited, s.pages[w.at].id)
             j == NextPage(s, w.at, data)
  <2>1. q \in Seq(PageIds(s)) /\ j \in 1 .. Len(s.pages) + 1
    BY <1>2, <1>3, <1>4
  <2> HIDE DEF q, j
  <2>2. [w EXCEPT !.visited = q, !.at = j] \in WalkState(s)
    BY <2>1 DEF WalkState
  <2> QED BY <2>2 DEF q, j
<1>5. /\ [w EXCEPT !.ended = TRUE] \in WalkState(s)
      /\ [w EXCEPT !.ended = TRUE, !.cycle = TRUE] \in WalkState(s)
  BY DEF WalkState
<1>6. ~(w.at > Len(s.pages)) => w.at \in 1 .. Len(s.pages)
  BY <1>1, <1>2
<1> QED BY <1>4, <1>5, <1>6 DEF WalkOn

\* The walk after each turn.
LEMMA WalkOf ==
    ASSUME NEW s, NEW data, IsSpec(s), ~RepeatedPage(s), ~UnknownPageRef(s)
    PROVE  \E walk \in [0 .. Len(s.pages) + 1 -> WalkState(s)] :
              /\ walk[0] = StartOfWalk
              /\ \A n \in 1 .. Len(s.pages) + 1 : walk[n] = WalkOn(s, walk[n - 1], data)
              /\ Walk(s, data) = walk[Len(s.pages) + 1]
<1> DEFINE M == Len(s.pages) + 1
           W == WalkState(s)
           Value(f, n) == IF n = 0 THEN [at |-> 1, visited |-> <<>>, cycle |-> FALSE, ended |-> FALSE]
                         ELSE WalkOn(s, f[n - 1], data)
           Values(f) == f = [n \in 0 .. M |-> Value(f, n)]
           step == [p \in (1 .. M) \X W |-> WalkOn(s, p[2], data)]
           walk == CHOOSE f : Values(f)
<1>1. M \in Nat /\ StartOfWalk \in W
  <2>1. Len(s.pages) \in Nat
    BY IndexOfPage
  <2> QED BY <2>1 DEF StartOfWalk, WalkState
<1>2. \A w \in W : WalkOn(s, w, data) \in W
  BY TurnTypes
<1> HIDE DEF W, M
<1>3. step \in [(1 .. M) \X W -> W] /\ \A n \in 1 .. M, w \in W : step[<<n, w>>] = WalkOn(s, w, data)
  BY <1>2
<1> HIDE DEF step
<1>4. PICK f \in [0 .. M -> W] : Iterates(f, M, StartOfWalk, step)
  BY <1>1, <1>3, Iteration
<1>5. \A n \in 0 .. M : f[n] = Value(f, n)
  <2>1. f[0] = StartOfWalk /\ \A n \in 1 .. M : f[n] = step[<<n, f[n - 1]>>]
    BY <1>4 DEF Iterates
  <2>2. \A n \in 0 .. M : n # 0 => n \in 1 .. M /\ f[n - 1] \in W
    BY <1>1, <1>4
  <2> QED BY <1>3, <2>1, <2>2 DEF StartOfWalk
<1>6. Values(f)
  <2> HIDE DEF Value
  <2> QED BY <1>4, <1>5
<1>7. Values(walk)
  <2> HIDE DEF Values
  <2> QED BY <1>6, Zenon
<1>8. Walk(s, data) = walk[M]
  BY Zenon DEF Walk, M
<1> HIDE DEF walk
<1>9. \A n \in 0 .. M : walk[n] = Value(walk, n)
  <2>1. walk = [n \in 0 .. M |-> Value(walk, n)]
    BY <1>7
  <2> HIDE DEF Value
  <2> QED BY <2>1
<1>10. walk[0] = StartOfWalk /\ \A n \in 1 .. M : walk[n] = WalkOn(s, walk[n - 1], data)
  <2>1. 0 \in 0 .. M /\ \A n \in 1 .. M : n \in 0 .. M /\ n # 0
    BY <1>1
  <2> QED BY <1>9, <2>1 DEF StartOfWalk
<1>11. walk \in [0 .. M -> W]
  <2> DEFINE S == {n \in 0 .. M : walk[n] \in W}
  <2>1. 0 \in S
    BY <1>1, <1>10
  <2>2. ASSUME NEW n \in 1 .. M, n - 1 \in S PROVE n \in S
    <3>1. n \in 0 .. M /\ walk[n - 1] \in W
      BY <1>1, <2>2
    <3> QED BY <1>2, <1>10, <3>1
  <2> HIDE DEF S
  <2>3. 0 .. M \subseteq S
    BY <1>1, <2>1, <2>2, UpTo
  <2>4. \A n \in 0 .. M : walk[n] \in W
    BY <2>3 DEF S
  <2>5. walk = [n \in 0 .. M |-> walk[n]]
    <3> HIDE DEF Value
    <3>1. walk = [n \in 0 .. M |-> Value(walk, n)]
      BY <1>7
    <3> QED BY <3>1
  <2> QED BY <2>4, <2>5
<1> QED BY <1>8, <1>10, <1>11 DEF M, W

\* A turn goes where the page's actions send it, or ends the walk.
LEMMA TurnKeepsWalk ==
    ASSUME NEW s, NEW data, IsSpec(s), ~RepeatedPage(s), ~UnknownPageRef(s),
           NEW w \in WalkState(s), NEW n \in Nat, WalkInv(s, data, w, n)
    PROVE  WalkInv(s, data, WalkOn(s, w, data), n + 1)
<1> DEFINE N == Len(s.pages)
           v == w.visited
           L == Len(v)
           x == WalkOn(s, w, data)
<1>1. N \in Nat \ {0} /\ DOMAIN s.pages = 1 .. N
  BY IndexOfPage
<1>2. w.at \in 1 .. N + 1 /\ v \in Seq(PageIds(s)) /\ L \in Nat /\ DOMAIN v = 1 .. L
  BY DEF WalkState
<1>3. CASE w.ended
  <2>1. x = w
    BY <1>3 DEF WalkOn
  <2> QED BY <1>3, <2>1, Zenon DEF WalkInv
<1>4. CASE ~w.ended /\ w.at > N
  <2>1. x = [w EXCEPT !.ended = TRUE]
    BY <1>4 DEF WalkOn
  <2>2. x.at = w.at /\ x.visited = v /\ x.cycle = w.cycle /\ x.ended
    BY <2>1 DEF WalkState
  <2>3. w.at = N + 1 /\ ~w.cycle
    BY <1>1, <1>2, <1>4 DEF WalkInv
  <2> HIDE DEF x
  <2> QED BY <2>2, <2>3, Zenon DEF WalkInv, x
<1>5. CASE ~w.ended /\ ~(w.at > N) /\ s.pages[w.at].id \in Range(v)
  <2>1. x = [w EXCEPT !.ended = TRUE, !.cycle = TRUE]
    BY <1>5 DEF WalkOn
  <2>2. x.at = w.at /\ x.visited = v /\ x.cycle /\ x.ended
    BY <2>1 DEF WalkState
  <2>3. w.at \in DOMAIN s.pages
    BY <1>1, <1>2, <1>5
  <2> HIDE DEF x
  <2> QED BY <1>5, <2>2, <2>3, Zenon DEF WalkInv, x
<1>6. CASE ~w.ended /\ ~(w.at > N) /\ s.pages[w.at].id \notin Range(v)
  <2> DEFINE id == s.pages[w.at].id
             q == Append(v, id)
             j == NextPage(s, w.at, data)
             Index(u, k) == PageIndex(s, u[k])
  <2>1. x = [w EXCEPT !.visited = q, !.at = j]
    BY <1>6 DEF WalkOn
  <2>2. x.at = j /\ x.visited = q /\ x.cycle = w.cycle /\ x.ended = w.ended
    BY <2>1 DEF WalkState
  <2>3. w.at \in DOMAIN s.pages
    BY <1>1, <1>2, <1>6
  <2>4. id \in PageIds(s) /\ PageIndex(s, id) = w.at /\ Sends(s, data, w.at, j)
    BY <2>3, IndexOfPage, NextPageSends
  <2>5. /\ Len(q) = L + 1 /\ DOMAIN q = 1 .. L + 1 /\ q[L + 1] = id
        /\ \A k \in 1 .. L : q[k] = v[k]
    BY <1>2, <2>4
  <2> HIDE DEF x, q, j, id, N, L, v
  <2>6. IsInjective(q)
    <3>1. \A k \in 1 .. L : v[k] # id
      BY <1>2, <1>6 DEF Range, id
    <3>2. \A a, b \in 1 .. L : v[a] = v[b] => a = b
      BY <1>2 DEF WalkInv, WalksTo, IsInjective, v
    <3>3. \A a \in 1 .. L + 1 : a \in 1 .. L \/ a = L + 1
      BY <1>2
    <3> QED BY <2>5, <3>1, <3>2, <3>3 DEF IsInjective
  <2>7. q # <<>> /\ Sends(s, data, Index(q, Len(q)), j)
    BY <1>2, <2>4, <2>5
  <2>8. v = <<>> => w.at = 1 /\ L = 0
    BY <1>2 DEF WalkInv, WalksTo, v, L
  <2>9. v # <<>> => Index(v, 1) = 1 /\ Sends(s, data, Index(v, L), w.at) /\ L \in 1 .. L
    <3>1. v # <<>> => L \in 1 .. L
      BY <1>2 DEF L
    <3> QED BY <3>1 DEF WalkInv, WalksTo, v, L
  <2>10. Index(q, 1) = 1
    <3>1. CASE v = <<>>
      BY <2>4, <2>5, <2>8, <3>1
    <3>2. CASE v # <<>>
      <4>1. 1 \in 1 .. L
        BY <1>2, <2>9, <3>2
      <4> QED BY <2>5, <2>9, <3>2, <4>1
    <3> QED BY <3>1, <3>2
  <2>11. ASSUME NEW k \in 1 .. Len(q) - 1 PROVE Sends(s, data, Index(q, k), Index(q, k + 1))
    <3>1. k \in 1 .. L
      BY <1>2, <2>5
    <3>2. CASE k = L
      <4>1. v # <<>>
        BY <1>2, <2>8, <3>1
      <4>2. Index(q, k) = Index(v, L) /\ Index(q, k + 1) = w.at
        BY <2>4, <2>5, <3>1, <3>2
      <4> QED BY <2>9, <4>1, <4>2
    <3>3. CASE k # L
      <4>1. k \in 1 .. L - 1 /\ k + 1 \in 1 .. L
        BY <1>2, <3>1, <3>3
      <4>2. Sends(s, data, Index(v, k), Index(v, k + 1))
        BY <4>1 DEF WalkInv, WalksTo, v, L
      <4>3. Index(q, k) = Index(v, k) /\ Index(q, k + 1) = Index(v, k + 1)
        BY <2>5, <3>1, <4>1
      <4> QED BY <4>2, <4>3
    <3> QED BY <3>2, <3>3
  <2>12. ~x.ended /\ Len(q) = n + 1 /\ ~x.cycle
    BY <1>6, <2>2, <2>5 DEF WalkInv, L, v
  <2>13. WalksTo(s, data, q, j)
    BY <2>6, <2>7, <2>10, <2>11, Zenon DEF WalksTo
  <2> QED BY <2>2, <2>12, <2>13, Zenon DEF WalkInv, x
<1> QED BY <1>3, <1>4, <1>5, <1>6

\* After as many turns as there are pages, and one, the walk has ended: it visits no page twice.
LEMMA WalkEnds ==
    ASSUME NEW s, NEW data, IsSpec(s), ~RepeatedPage(s), ~UnknownPageRef(s)
    PROVE  /\ Walk(s, data) \in WalkState(s)
           /\ WalkInv(s, data, Walk(s, data), Len(s.pages) + 1)
           /\ Walk(s, data).ended
<1> DEFINE N == Len(s.pages)
           M == N + 1
           w == Walk(s, data)
           v == w.visited
<1>1. N \in Nat \ {0} /\ DOMAIN s.pages = 1 .. N
  BY IndexOfPage
<1>2. PICK walk \in [0 .. M -> WalkState(s)] :
         /\ walk[0] = StartOfWalk
         /\ \A n \in 1 .. M : walk[n] = WalkOn(s, walk[n - 1], data)
         /\ w = walk[M]
  BY WalkOf
<1> HIDE DEF N, w
<1>3. M \in Nat
  BY <1>1
<1>4. WalkInv(s, data, walk[0], 0)
  <2>1. /\ StartOfWalk.at = 1 /\ StartOfWalk.visited = <<>>
        /\ StartOfWalk.cycle = FALSE /\ StartOfWalk.ended = FALSE
    BY DEF StartOfWalk
  <2>2. IsInjective(<<>>) /\ Len(<<>>) = 0
    BY DEF IsInjective
  <2>3. \A k \in 1 .. Len(<<>>) - 1 : FALSE
    BY <2>2
  <2> QED BY <1>2, <2>1, <2>2, <2>3, Zenon DEF WalkInv, WalksTo
<1>5. w \in WalkState(s) /\ WalkInv(s, data, w, M)
  <2> HIDE DEF M
  <2> DEFINE S == {n \in 0 .. M : WalkInv(s, data, walk[n], n)}
  <2>1. 0 \in S
    BY <1>3, <1>4
  <2>2. ASSUME NEW n \in 1 .. M, n - 1 \in S PROVE n \in S
    <3>1. n - 1 \in 0 .. M /\ n \in 0 .. M /\ n - 1 \in Nat /\ n - 1 + 1 = n
      BY <1>3
    <3>2. walk[n - 1] \in WalkState(s) /\ WalkInv(s, data, walk[n - 1], n - 1)
      BY <1>2, <2>2, <3>1
    <3>3. WalkInv(s, data, WalkOn(s, walk[n - 1], data), n - 1 + 1)
      BY <3>1, <3>2, TurnKeepsWalk
    <3> QED BY <1>2, <3>1, <3>3
  <2> HIDE DEF S
  <2>3. 0 .. M \subseteq S
    BY <1>3, <2>1, <2>2, UpTo
  <2>4. M \in 0 .. M
    BY <1>3
  <2> QED BY <1>2, <2>3, <2>4 DEF S
<1>6. w.ended
  <2> SUFFICES ASSUME ~w.ended PROVE FALSE
    OBVIOUS
  <2>1. v \in Seq(PageIds(s)) /\ Len(v) = M /\ IsInjective(v)
    BY <1>5 DEF WalkState, WalkInv, WalksTo
  <2>2. DOMAIN v = 1 .. M /\ \A k \in 1 .. M : v[k] \in PageIds(s)
    BY <2>1
  <2> HIDE DEF v
  <2> DEFINE f == [k \in 1 .. M |-> PageIndex(s, v[k])]
  <2>3. f \in [1 .. M -> 1 .. N] /\ \A k \in 1 .. M : s.pages[f[k]].id = v[k]
    BY <1>1, <2>2, IndexOfPage
  <2> HIDE DEF f
  <2>4. IsFiniteSet(1 .. M) /\ IsFiniteSet(1 .. N) /\ Cardinality(1 .. N) < Cardinality(1 .. M)
    <3>1. 1 \in Int /\ M \in Int /\ N \in Int
      BY <1>1
    <3>2. Cardinality(1 .. N) = N /\ Cardinality(1 .. M) = M /\ IsFiniteSet(1 .. M) /\ IsFiniteSet(1 .. N)
      BY <1>1, <3>1, FS_Interval
    <3> QED BY <1>1, <3>2
  <2>5. \E a, b \in 1 .. M : a # b /\ f[a] = f[b]
    <3> DEFINE A == 1 .. M
               B == 1 .. N
    <3>1. IsFiniteSet(A) /\ IsFiniteSet(B) /\ Cardinality(B) < Cardinality(A) /\ f \in [A -> B]
      BY <2>3, <2>4
    <3> HIDE DEF A, B
    <3>2. \E a, b \in A : a # b /\ f[a] = f[b]
      BY <3>1, FS_PigeonHole
    <3> QED BY <3>2 DEF A
  <2> QED BY <2>1, <2>2, <2>3, <2>5 DEF IsInjective
<1> QED BY <1>5, <1>6 DEF N, w

\* The pages visited are those that the actions say.
LEMMA WalksAsDeclared == IsSpec(declared) => WalkFollowsActions
<1> SUFFICES ASSUME IsSpec(declared) PROVE WalkFollowsActions
  OBVIOUS
<1> DEFINE s == declared
           data == ActionData(s, payload)
           w == Walk(s, data)
           v == [k \in DOMAIN w.visited |-> PageIndex(s, w.visited[k])]
           end == Len(s.pages) + 1
           Go(i, j) == Sends(s, data, i, j)
           Ends(i) == IF w.cycle THEN \E j \in Range(v) : Go(i, j) ELSE Go(i, end)
<1> SUFFICES ASSUME Publishable(s)
             PROVE  /\ v # <<>> /\ Head(v) = 1 /\ IsInjective(v)
                    /\ \A k \in 1 .. Len(v) - 1 : Go(v[k], v[k + 1])
                    /\ Ends(Last(v))
  BY Zenon DEF WalkFollowsActions, Sends, ActionApplies
<1>1. ~RepeatedPage(s) /\ ~UnknownPageRef(s)
  BY DEF Publishable
<1>2. /\ w \in WalkState(s) /\ w.ended
      /\ WalksTo(s, data, w.visited, w.at)
      /\ IF w.cycle THEN w.at \in DOMAIN s.pages /\ s.pages[w.at].id \in Range(w.visited)
         ELSE w.at = end
  BY <1>1, WalkEnds DEF WalkInv
<1> HIDE DEF s, data, w
<1> DEFINE q == w.visited
           L == Len(q)
<1>3. /\ w.at \in 1 .. end /\ q \in Seq(PageIds(s))
      /\ L \in Nat /\ DOMAIN q = 1 .. L /\ \A k \in 1 .. L : q[k] \in PageIds(s)
  BY <1>2 DEF WalkState
<1>4. Len(s.pages) \in Nat \ {0} /\ DOMAIN s.pages = 1 .. Len(s.pages)
  BY <1>1, IndexOfPage DEF s
<1>5. \A k \in 1 .. L : PageIndex(s, q[k]) \in DOMAIN s.pages /\ s.pages[PageIndex(s, q[k])].id = q[k]
  BY <1>1, <1>3, IndexOfPage DEF s
<1>6. v \in Seq(Nat) /\ Len(v) = L /\ DOMAIN v = 1 .. L /\ \A k \in 1 .. L : v[k] = PageIndex(s, q[k])
  BY <1>3, <1>4, <1>5
<1>7. q # <<>>
  <2> SUFFICES ASSUME q = <<>> PROVE FALSE
    OBVIOUS
  <2>1. w.at = 1 /\ Range(q) = {}
    BY <1>2 DEF WalksTo, Range
  <2>2. w.at = end
    BY <1>2, <2>1
  <2> QED BY <1>4, <2>1, <2>2
<1> HIDE DEF v, L, end
<1>8. L \in 1 .. L /\ 1 \in 1 .. L
  BY <1>3, <1>7 DEF L
<1>9. v # <<>> /\ Head(v) = 1
  <2>1. PageIndex(s, q[1]) = 1
    BY <1>2, <1>7 DEF WalksTo
  <2>2. v # <<>> /\ Head(v) = v[1]
    BY <1>6, <1>8
  <2> QED BY <1>6, <1>8, <2>1, <2>2
<1>10. IsInjective(v)
  <2>1. \A a, b \in 1 .. L : q[a] = q[b] => a = b
    BY <1>2, <1>3 DEF WalksTo, IsInjective
  <2>2. \A a, b \in 1 .. L : v[a] = v[b] => q[a] = q[b]
    BY <1>5, <1>6
  <2> QED BY <1>6, <2>1, <2>2 DEF IsInjective
<1>11. ASSUME NEW k \in 1 .. Len(v) - 1 PROVE Go(v[k], v[k + 1])
  <2>1. k \in 1 .. L /\ k + 1 \in 1 .. L /\ k \in 1 .. Len(q) - 1
    BY <1>3, <1>6 DEF L
  <2>2. Sends(s, data, PageIndex(s, q[k]), PageIndex(s, q[k + 1]))
    BY <1>2, <2>1 DEF WalksTo
  <2> QED BY <1>6, <2>1, <2>2
<1>12. Ends(Last(v))
  <2>1. Last(v) = PageIndex(s, q[L])
    BY <1>6, <1>8 DEF Last
  <2>2. Go(Last(v), w.at)
    BY <1>2, <1>7, <2>1 DEF WalksTo, L
  <2>3. CASE w.cycle
    <3>1. w.at \in DOMAIN s.pages /\ s.pages[w.at].id \in Range(q)
      BY <1>2, <2>3
    <3>2. PICK k \in 1 .. L : q[k] = s.pages[w.at].id
      BY <1>3, <3>1 DEF Range
    <3>3. PageIndex(s, q[k]) = w.at
      BY <1>1, <3>1, <3>2, IndexOfPage DEF s
    <3>4. w.at \in Range(v)
      BY <1>6, <3>2, <3>3 DEF Range
    <3> QED BY <2>2, <2>3, <3>4
  <2>4. CASE ~w.cycle
    BY <1>2, <2>2, <2>4
  <2> QED BY <2>3, <2>4
<1> QED BY <1>9, <1>10, <1>11, <1>12

\* The pages visited of a published form are those its actions say: from the first,
\* none twice, to the end or back to one that was visited.
THEOREM WalkFollowsActionsHolds == Spec => []WalkFollowsActions
<1> QED BY InputsAreSpecs, WalksAsDeclared, PTL

=============================================================================
