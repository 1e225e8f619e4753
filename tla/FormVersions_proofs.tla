------------------------- MODULE FormVersions_proofs -------------------------
(***************************************************************************)
(* Proofs about FormVersions, for any number of requests and versions.     *)
(*                                                                         *)
(* VersionsContiguous is not inductive by itself: a publish writes a       *)
(* number that it computed from a counter read some steps earlier.  What   *)
(* saves it is that the number read was published then, and that a         *)
(* published number stays published (TargetFollows); and that the counter  *)
(* shows a published number (CurrentPublished).                            *)
(***************************************************************************)
EXTENDS FormVersions, TLAPS

CurrentPublished ==
    /\ current \in published \cup {0}
    /\ current = 0 => published = {}

TargetFollows ==
    \A a \in Admins :
        /\ tx[a].step = "checked" => tx[a].kind = "publish"
        /\ tx[a].kind = "publish" /\ tx[a].step \in {"read", "matched"} =>
              /\ tx[a].target \in Version
              /\ tx[a].target - 1 \in published \cup {0}
        /\ tx[a].kind = "set" => tx[a].target \in published

Inv == VersionsTypeOK /\ CurrentIsMarked /\ VersionsContiguous /\ CurrentPublished /\ TargetFollows

\* A request that has ended, or not begun, has the type of one.
LEMMA IdleTyped == Idle \in Transaction
  BY MaxVersionAssumption DEF MaxVersionAssumption, Idle, Transaction, Version

\* The number a publish commits is one higher than all that there are.
LEMMA NextIsHighest ==
    ASSUME Inv, NEW a \in Admins, CommitPublish(a)
    PROVE  /\ tx[a].target \in Version
           /\ tx[a].target - 1 \in published \cup {0}
           /\ \A v \in published : v < tx[a].target
           /\ \A w \in 1 .. tx[a].target - 1 : w \in published
<1> USE MaxVersionAssumption DEF MaxVersionAssumption
<1>1. /\ tx[a].target \in Version
      /\ tx[a].target - 1 \in published \cup {0}
      /\ tx[a].target \notin published
  BY DEF Inv, TargetFollows, CommitPublish
<1>2. ASSUME NEW v \in published PROVE v < tx[a].target
  <2>1. v \in Version
    BY DEF Inv, VersionsTypeOK
  <2>2. CASE v >= tx[a].target
    <3>1. tx[a].target \in 1 .. v
      BY <1>1, <2>1, <2>2 DEF Version
    <3> QED BY <1>1, <3>1 DEF Inv, VersionsContiguous
  <2> QED BY <1>1, <2>1, <2>2 DEF Version
<1>3. ASSUME NEW w \in 1 .. tx[a].target - 1 PROVE w \in published
  BY <1>1, <1>3 DEF Inv, VersionsContiguous, Version
<1> QED BY <1>1, <1>2, <1>3

\* A new form, empty or with version 1, satisfies the invariant.
LEMMA InitInv == VersionsInit => Inv
<1> SUFFICES ASSUME VersionsInit PROVE Inv OBVIOUS
<1> USE MaxVersionAssumption DEF VersionsInit
<1>1. VersionsTypeOK
  <2>1. 1 \in Version /\ {1} \subseteq Version
    BY DEF Version
  <2>2. current \in 0 .. MaxVersion /\ published \subseteq Version /\ marked \subseteq published
    BY <2>1 DEF Version
  <2>3. tx \in [Admins -> Transaction]
    BY IdleTyped
  <2> QED BY <2>2, <2>3 DEF VersionsTypeOK
<1>2. CurrentIsMarked /\ CurrentPublished
  BY DEF CurrentIsMarked, CurrentPublished
<1>3. VersionsContiguous
  BY DEF VersionsContiguous
<1>4. TargetFollows
  BY DEF TargetFollows, Idle
<1> QED BY <1>1, <1>2, <1>3, <1>4 DEF Inv

\* Each statement, commit and rollback of a version request keeps the invariant.
LEMMA NextInv == Inv /\ [VersionsNext]_versionVars => Inv'
<1> SUFFICES ASSUME Inv, [VersionsNext]_versionVars PROVE Inv'
  OBVIOUS
<1> USE MaxVersionAssumption DEF MaxVersionAssumption
<1> USE DEF Inv
<1>1. ASSUME NEW a \in Admins, CheckArchived(a) PROVE Inv'
  <2>1. [Idle EXCEPT !.kind = "publish", !.step = "checked"] \in Transaction
    BY IdleTyped DEF Transaction
  <2>2. VersionsTypeOK'
    BY <1>1, <2>1 DEF VersionsTypeOK, CheckArchived
  <2>3. TargetFollows'
    BY <1>1 DEF VersionsTypeOK, TargetFollows, CheckArchived, Idle, Transaction
  <2> QED BY <1>1, <2>2, <2>3 DEF CheckArchived, CurrentIsMarked, VersionsContiguous, CurrentPublished
<1>2. ASSUME NEW a \in Admins, ReadCurrent(a) PROVE Inv'
  <2>1. NextVersion \in Version /\ NextVersion - 1 \in published \cup {0}
    BY <1>2 DEF ReadCurrent, NextVersion, Version, VersionsTypeOK, CurrentPublished
  <2>2. VersionsTypeOK'
    <3>1. NextVersion \in 0 .. MaxVersion
      BY <2>1 DEF Version
    <3>2. [tx[a] EXCEPT !.step = "read", !.target = NextVersion] \in Transaction
      BY <3>1 DEF VersionsTypeOK, Transaction
    <3>3. tx' \in [Admins -> Transaction]
      BY <1>2, <3>2 DEF VersionsTypeOK, ReadCurrent
    <3> QED BY <1>2, <3>3 DEF VersionsTypeOK, ReadCurrent
  <2>3. TargetFollows'
    <3> SUFFICES ASSUME NEW b \in Admins
                 PROVE  /\ tx'[b].step = "checked" => tx'[b].kind = "publish"
                        /\ tx'[b].kind = "publish" /\ tx'[b].step \in {"read", "matched"} =>
                              /\ tx'[b].target \in Version
                              /\ tx'[b].target - 1 \in published \cup {0}
                        /\ tx'[b].kind = "set" => tx'[b].target \in published
      BY <1>2 DEF TargetFollows, ReadCurrent
    <3>1. CASE b = a
      <4>1. tx[a].kind # "set"
        BY <1>2 DEF TargetFollows, ReadCurrent
      <4> QED BY <1>2, <2>1, <3>1, <4>1 DEF ReadCurrent, VersionsTypeOK
    <3>2. CASE b # a
      BY <1>2, <3>2 DEF ReadCurrent, VersionsTypeOK, TargetFollows
    <3> QED BY <3>1, <3>2
  <2> QED BY <1>2, <2>2, <2>3 DEF ReadCurrent, CurrentIsMarked, VersionsContiguous, CurrentPublished
<1>3. ASSUME NEW a \in Admins, NEW v \in Version, FindTarget(a, v) PROVE Inv'
  <2>1. VersionsTypeOK'
    BY <1>3 DEF VersionsTypeOK, FindTarget, Transaction, Version
  <2>2. TargetFollows'
    BY <1>3 DEF VersionsTypeOK, TargetFollows, FindTarget
  <2> QED BY <1>3, <2>1, <2>2 DEF FindTarget, CurrentIsMarked, VersionsContiguous, CurrentPublished
<1>4. ASSUME NEW a \in Admins, MatchMarked(a) PROVE Inv'
  <2>1. VersionsTypeOK'
    <3>1. tx' = [tx EXCEPT ![a] = [tx[a] EXCEPT !.step = "matched", !.matches = marked]]
      BY <1>4 DEF VersionsTypeOK, MatchMarked
    <3>2. [tx[a] EXCEPT !.step = "matched", !.matches = marked] \in Transaction
      BY DEF VersionsTypeOK, Transaction
    <3> QED BY <1>4, <3>1, <3>2 DEF VersionsTypeOK, MatchMarked
  <2>2. TargetFollows'
    BY <1>4 DEF VersionsTypeOK, TargetFollows, MatchMarked
  <2> QED BY <1>4, <2>1, <2>2 DEF MatchMarked, CurrentIsMarked, VersionsContiguous, CurrentPublished
<1>5. ASSUME NEW a \in Admins, CommitPublish(a) PROVE Inv'
  <2>1. /\ tx[a].target \in Version
        /\ \A w \in 1 .. tx[a].target - 1 : w \in published
    BY <1>5, NextIsHighest
  <2>2. VersionsTypeOK'
    <3>1. tx[a].target \in Version /\ tx[a].target \in published'
      BY <1>5, <2>1 DEF VersionsTypeOK, CommitPublish
    <3>2. published' \subseteq Version /\ marked' \subseteq published'
      BY <1>5, <3>1 DEF VersionsTypeOK, CommitPublish, Flipped
    <3>3. current' \in 0 .. MaxVersion
      BY <1>5, <3>1 DEF CommitPublish, Version
    <3>4. tx' \in [Admins -> Transaction]
      BY <1>5, IdleTyped DEF VersionsTypeOK, CommitPublish
    <3> QED BY <1>5, <3>2, <3>3, <3>4 DEF VersionsTypeOK, CommitPublish
  <2>3. CurrentIsMarked' /\ CurrentPublished'
    BY <1>5, <2>1 DEF CurrentIsMarked, CurrentPublished, CommitPublish, Flipped, Version
  <2>4. VersionsContiguous'
    <3> SUFFICES ASSUME NEW v \in published', NEW w \in 1 .. v PROVE w \in published'
      BY DEF VersionsContiguous
    <3>1. CASE v \in published
      BY <1>5, <3>1 DEF VersionsContiguous, CommitPublish
    <3>2. CASE v = tx[a].target
      BY <1>5, <2>1, <3>2 DEF CommitPublish, Version
    <3> QED BY <1>5, <3>1, <3>2 DEF CommitPublish
  <2>5. TargetFollows'
    BY <1>5 DEF VersionsTypeOK, TargetFollows, CommitPublish, Idle
  <2> QED BY <2>2, <2>3, <2>4, <2>5
<1>6. ASSUME NEW a \in Admins, CommitSetCurrent(a) PROVE Inv'
  <2>1. tx[a].target \in published
    BY <1>6 DEF TargetFollows, CommitSetCurrent
  <2>2. VersionsTypeOK'
    <3>1. tx[a].target \in Version /\ tx[a].target \in published'
      BY <1>6, <2>1 DEF VersionsTypeOK, CommitSetCurrent
    <3>2. published' \subseteq Version /\ marked' \subseteq published'
      BY <1>6, <3>1 DEF VersionsTypeOK, CommitSetCurrent, Flipped
    <3>3. current' \in 0 .. MaxVersion
      BY <1>6, <3>1 DEF CommitSetCurrent, Version
    <3>4. tx' \in [Admins -> Transaction]
      BY <1>6, IdleTyped DEF VersionsTypeOK, CommitSetCurrent
    <3> QED BY <1>6, <3>2, <3>3, <3>4 DEF VersionsTypeOK, CommitSetCurrent
  <2>3. CurrentIsMarked' /\ CurrentPublished'
    BY <1>6, <2>1 DEF VersionsTypeOK, CurrentIsMarked, CurrentPublished, CommitSetCurrent, Flipped, Version
  <2>4. TargetFollows'
    BY <1>6 DEF VersionsTypeOK, TargetFollows, CommitSetCurrent, Idle
  <2> QED BY <1>6, <2>2, <2>3, <2>4 DEF CommitSetCurrent, VersionsContiguous
<1>7. ASSUME NEW a \in Admins, AbortTx(a) PROVE Inv'
  <2>1. VersionsTypeOK'
    BY <1>7, IdleTyped DEF VersionsTypeOK, AbortTx
  <2>2. TargetFollows'
    BY <1>7 DEF VersionsTypeOK, TargetFollows, AbortTx, Idle
  <2> QED BY <1>7, <2>1, <2>2 DEF AbortTx, CurrentIsMarked, VersionsContiguous, CurrentPublished
<1>8. ASSUME NEW to \in BOOLEAN, SetArchived(to) PROVE Inv'
  BY <1>8 DEF SetArchived, VersionsTypeOK, CurrentIsMarked, VersionsContiguous, CurrentPublished, TargetFollows
<1>9. CASE UNCHANGED versionVars
  BY <1>9 DEF versionVars, VersionsTypeOK, CurrentIsMarked, VersionsContiguous, CurrentPublished, TargetFollows
<1> QED
  BY <1>1, <1>2, <1>3, <1>4, <1>5, <1>6, <1>7, <1>8, <1>9 DEF VersionsNext, AdminStep

\* Every invariant of the module, with what makes them inductive.
THEOREM InvHolds == VersionsSpec => []Inv
<1> QED BY InitInv, NextInv, PTL DEF VersionsSpec

\* The counter, the rows and their marks stay well-typed: what is marked exists.
THEOREM TypeHolds == VersionsSpec => []VersionsTypeOK
<1>1. Inv => VersionsTypeOK
  BY DEF Inv
<1> QED BY <1>1, InvHolds, PTL

\* However publishes, rollbacks and promotions overlap, the version counted as
\* current is marked: the public routes find a version.
THEOREM CurrentMarkedHolds == VersionsSpec => []CurrentIsMarked
<1>1. Inv => CurrentIsMarked
  BY DEF Inv
<1> QED BY <1>1, InvHolds, PTL

\* However they overlap, and wherever the counter is moved back to, the
\* version numbers have no gap.
THEOREM ContiguousHolds == VersionsSpec => []VersionsContiguous
<1>1. Inv => VersionsContiguous
  BY DEF Inv
<1> QED BY <1>1, InvHolds, PTL

\* The service implements the register of versions: a commit of a publish is
\* an Append, one of a set-current a Serve, and nothing else is seen.
THEOREM Refinement == VersionsSpec => RegisterImplemented
<1> USE MaxVersionAssumption DEF MaxVersionAssumption
<1>1. VersionsInit => Register!RegisterInit
  BY DEF VersionsInit, Register!RegisterInit
<1>2. Inv /\ [VersionsNext]_versionVars =>
         [Register!Append \/ Register!Serve]_<<published, current>>
  <2> SUFFICES ASSUME Inv, [VersionsNext]_versionVars,
                      ~ UNCHANGED <<published, current>>
               PROVE  Register!Append \/ Register!Serve
    OBVIOUS
  <2>1. ASSUME NEW a \in Admins, CommitPublish(a) PROVE Register!Append
    <3>1. /\ tx[a].target \in Version
          /\ tx[a].target - 1 \in published \cup {0}
          /\ \A v \in published : v < tx[a].target
      BY <2>1, NextIsHighest
    <3>2. Register!IsNext(tx[a].target)
      BY <2>1, <3>1 DEF Register!IsNext, Version, CommitPublish
    <3> QED BY <2>1, <3>2 DEF Register!Append, CommitPublish
  <2>2. ASSUME NEW a \in Admins, CommitSetCurrent(a) PROVE Register!Serve
    BY <2>2 DEF Inv, TargetFollows, CommitSetCurrent, Register!Serve
  <2> QED
    BY <2>1, <2>2 DEF VersionsNext, AdminStep, versionVars, CheckArchived, ReadCurrent,
       FindTarget, MatchMarked, AbortTx, SetArchived
<1> QED
  BY <1>1, <1>2, InvHolds, PTL DEF VersionsSpec, RegisterImplemented, Register!RegisterSpec

=============================================================================
