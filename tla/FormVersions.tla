---------------------------- MODULE FormVersions ----------------------------
(***************************************************************************)
(* The versions of one form: publishVersion and setCurrentVersion of       *)
(* core/forms/version.service.ts, the promotion at the end of              *)
(* stopExperimentWithWinner (core/experiments/experiment.service.ts), and  *)
(* the archiving of the form that a publish asks about first.              *)
(*                                                                         *)
(* Each of the three runs one transaction of several statements, at the    *)
(* database's default isolation, READ COMMITTED: a statement works on what *)
(* was committed when it began, so a transaction has a step per statement  *)
(* that reads, and one, its commit, for all that it writes.  The flip of   *)
(* the marks, an updateMany of the rows with isCurrent, has both: the rows *)
(* matched are those marked when it begins, and a row that another         *)
(* transaction holds is looked at again once that one has committed.       *)
(***************************************************************************)
EXTENDS Naturals

CONSTANTS
    Admins,      \* requests in flight that write the form's versions
    MaxVersion   \* bound: the highest version number published

ASSUME MaxVersionAssumption == MaxVersion \in Nat \ {0}

VARIABLES
    current,    \* form_definitions.current_version, 0 before the first
    published,  \* the numbers in form_versions, unique per form
    marked,     \* those of them with is_current
    archived,   \* archived_at is set
    tx          \* the request of each admin

versionVars == <<current, published, marked, archived, tx>>

-----------------------------------------------------------------------------
Version == 1 .. MaxVersion

\* kind "set" is setCurrentVersion or the promotion of a winner.
Transaction == [kind : {"none", "publish", "set"},
                step : {"idle", "checked", "read", "matched"},
                target : 0 .. MaxVersion,
                matches : SUBSET Version]

Idle == [kind |-> "none", step |-> "idle", target |-> 0, matches |-> {}]

VersionsTypeOK ==
    /\ current \in 0 .. MaxVersion
    /\ published \subseteq Version
    /\ marked \subseteq published
    /\ archived \in BOOLEAN
    /\ tx \in [Admins -> Transaction]

-----------------------------------------------------------------------------
\* The publish route loads the form: the guard refuses an archived one.
CheckArchived(a) ==
    /\ tx[a].step = "idle"
    /\ ~archived
    /\ tx' = [tx EXCEPT ![a] = [Idle EXCEPT !.kind = "publish", !.step = "checked"]]
    /\ UNCHANGED <<current, published, marked, archived>>

\* Mutant: the counter is incremented twice.
NextVersionMutant == current + 2

\* nextVersion = form.currentVersion + 1.
NextVersion == current + 1

ReadCurrent(a) ==
    /\ tx[a].step = "checked"
    /\ NextVersion <= MaxVersion
    /\ tx' = [tx EXCEPT ![a].step = "read", ![a].target = NextVersion]
    /\ UNCHANGED <<current, published, marked, archived>>

\* The target of setCurrentVersion is found, or the winner's version is
\* (a variant refers to a version of the form).
FindTarget(a, v) ==
    /\ tx[a].step = "idle"
    /\ v \in published
    /\ tx' = [tx EXCEPT ![a] = [kind |-> "set", step |-> "read",
                                target |-> v, matches |-> {}]]
    /\ UNCHANGED <<current, published, marked, archived>>

\* The updateMany begins.
MatchMarked(a) ==
    /\ tx[a].step = "read"
    /\ tx' = [tx EXCEPT ![a].step = "matched", ![a].matches = marked]
    /\ UNCHANGED <<current, published, marked, archived>>

\* Mutant: the target is marked first, then the rows matched are flipped.
FlippedMarkFirst(a) == (marked \cup {tx[a].target}) \ tx[a].matches

\* The marks once the rows matched are flipped to false, the target to true.
Flipped(a) == (marked \ tx[a].matches) \cup {tx[a].target}

CommitPublish(a) ==
    /\ tx[a].kind = "publish" /\ tx[a].step = "matched"
    /\ tx[a].target \notin published
    /\ published' = published \cup {tx[a].target}
    /\ marked' = Flipped(a)
    /\ current' = tx[a].target
    /\ tx' = [tx EXCEPT ![a] = Idle]
    /\ UNCHANGED archived

CommitSetCurrent(a) ==
    /\ tx[a].kind = "set" /\ tx[a].step = "matched"
    /\ marked' = Flipped(a)
    /\ current' = tx[a].target
    /\ tx' = [tx EXCEPT ![a] = Idle]
    /\ UNCHANGED <<published, archived>>

\* Mutant: without a transaction, a failure leaves the counter moved.
AbortTxMutant(a) ==
    /\ tx[a].step # "idle"
    /\ tx' = [tx EXCEPT ![a] = Idle]
    /\ current' = IF tx[a].step = "matched" THEN tx[a].target ELSE current
    /\ UNCHANGED <<published, marked, archived>>

\* A statement fails, on the unique (form_id, version) or for any other
\* reason, or the process dies: the transaction rolls back.
AbortTx(a) ==
    /\ tx[a].step # "idle"
    /\ tx' = [tx EXCEPT ![a] = Idle]
    /\ UNCHANGED <<current, published, marked, archived>>

\* archiveForm, unarchiveForm, and archived in the body of PUT /admin/forms/:id.
SetArchived(to) ==
    /\ archived' = to
    /\ UNCHANGED <<current, published, marked, tx>>

-----------------------------------------------------------------------------
\* createForm makes a form without a version, duplicateForm and a clone of a
\* template one that has version 1.
VersionsInit ==
    /\ \/ current = 0 /\ published = {} /\ marked = {}
       \/ current = 1 /\ published = {1} /\ marked = {1}
    /\ archived = FALSE
    /\ tx = [a \in Admins |-> Idle]

AdminStep(a) ==
    \/ CheckArchived(a) \/ ReadCurrent(a)
    \/ \E v \in Version : FindTarget(a, v)
    \/ MatchMarked(a) \/ CommitPublish(a) \/ CommitSetCurrent(a) \/ AbortTx(a)

VersionsNext ==
    \/ \E a \in Admins : AdminStep(a)
    \/ \E to \in BOOLEAN : SetArchived(to)

VersionsSpec == VersionsInit /\ [][VersionsNext]_versionVars

-----------------------------------------------------------------------------
\* Properties

\* The version the form counts as current carries the mark that the public
\* routes look it up by, though the counter and the marks are written by
\* statements of their own and by transactions that overlap.
CurrentIsMarked == current # 0 => current \in marked

\* The history has no gap: a publish takes its number from a counter that
\* setCurrentVersion moves back and forth, and only the unique index on the
\* number keeps it from reusing one.
VersionsContiguous == \A v \in published : \A w \in 1 .. v : w \in published

\* Seen from outside, the two writers together are a register of versions.
Register == INSTANCE VersionRegister WITH numbers <- published, served <- current

RegisterImplemented == Register!RegisterSpec

\* One version at most carries the mark: setCurrentVersion is "Atomic: flips
\* the old current to false, new one to true, updates form counter".
AtMostOneCurrent == \A v, w \in marked : v = w

\* A publish that no other request interferes with finds its number free: it
\* reads the form "to get next version number", and a rollback to an older
\* version is "without data loss".
PublishFindsFreeNumber ==
    \A a \in Admins : tx[a].kind = "publish" /\ tx[a].step = "matched"
                        => tx[a].target \notin published

=============================================================================
