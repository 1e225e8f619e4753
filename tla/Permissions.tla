---------------------------- MODULE Permissions ----------------------------
(***************************************************************************)
(* What a session may do: getAbility of core/auth/rbac.ts, from the roles  *)
(* of the session and the rows of form_permission.  It is pure but for the *)
(* database, which may be out of reach.                                    *)
(*                                                                         *)
(* A rule is a pair of an action and a subject, "manage" and "all" stand   *)
(* for any.  Of the rules that match a question the last one answers it,   *)
(* which is how @casl/ability reads them (external).                       *)
(***************************************************************************)
EXTENDS Sequences, SequencesExt

CONSTANTS
    RoleLists,  \* the roles of a session, in the order of its token
    RowSets     \* form_permission: what each role has rows for

ASSUME PermissionsAssumption == \A roles \in RoleLists : roles \in Seq(Range(roles))

VARIABLE grant  \* the session's roles, and the rows

-----------------------------------------------------------------------------
Actions == {"create", "read", "update", "delete", "publish", "manage"}

Subjects == {"Form", "FormVersion", "FormTemplate", "Submission", "FormEvent", "Webhook",
             "ApiToken", "Role", "Permission", "AuditLog", "all"}

\* The cases of buildStaticAbility; a custom role has none.
Can(role) ==
    CASE role = "super-admin" -> {<<"manage", "all">>}
      [] role = "editor" ->
            ({"create", "read", "update", "delete", "publish"} \X {"Form", "FormVersion"})
              \cup {<<"read", "Submission">>, <<"delete", "Submission">>, <<"read", "AuditLog">>}
              \cup ({"manage"} \X {"FormEvent", "Webhook", "FormTemplate"})
      [] role = "viewer" -> {"read"} \X {"Form", "FormVersion", "FormTemplate", "Submission"}
      [] OTHER -> {}

Cannot(role) ==
    IF role = "editor" THEN {"manage"} \X {"ApiToken", "Role", "Permission"} ELSE {}

Match(rules, a, s) == \E r \in rules : r[1] \in {a, "manage"} /\ r[2] \in {s, "all"}

\* Mutant: the last role alone counts.
StaticAllowsMutant(roles, a, s) ==
    roles # <<>> /\ Match(Can(Last(roles)), a, s)

\* buildStaticAbility: the last role with a rule for it decides.
StaticAllows(roles, a, s) ==
    LET k == SelectLastInSeq(roles, LAMBDA r : Match(Can(r) \cup Cannot(r), a, s))
    IN  k # 0 /\ ~Match(Cannot(roles[k]), a, s)

\* Mutant: the rows stand for the roles.
RowsAllowMutant(roles, rows, a, s) == Match(UNION {rows[r] : r \in Range(roles)}, a, s)

\* The rows are added to what the roles can; what they cannot is not.
RowsAllow(roles, rows, a, s) ==
    Match(UNION {Can(r) \cup rows[r] : r \in Range(roles)}, a, s)

\* buildAbilityWithDbPermissions: roles without a row are left as they are.
DbAllows(roles, rows, a, s) ==
    IF \A r \in Range(roles) : rows[r] = {} THEN StaticAllows(roles, a, s)
    ELSE RowsAllow(roles, rows, a, s)

\* getAbility: without the database the static rules hold.
Allows(roles, rows, reachable, a, s) ==
    IF reachable THEN DbAllows(roles, rows, a, s) ELSE StaticAllows(roles, a, s)

-----------------------------------------------------------------------------
PermissionsInit == \E roles \in RoleLists, rows \in RowSets :
                       grant = [roles |-> roles, rows |-> rows]

-----------------------------------------------------------------------------
\* Properties

\* An outage of the database never opens a door: what a session with a role may
\* do then, by the static rules alone, it may do with the database too.
OutageOpensNothing ==
    grant.roles # <<>> => \A a \in Actions, s \in Subjects :
        Allows(grant.roles, grant.rows, FALSE, a, s) => Allows(grant.roles, grant.rows, TRUE, a, s)

\* Where roles contradict each other, and the later one decides, it decides
\* about what the editor is denied only, and only among static rules.
OnlyDenialsDependOnOrder ==
    grant.roles # <<>> => \A reachable \in BOOLEAN, a \in Actions, s \in Subjects :
        LET here == Allows(grant.roles, grant.rows, reachable, a, s)
            turned == Allows(Reverse(grant.roles), grant.rows, reachable, a, s)
        IN  here # turned => /\ s \in {"ApiToken", "Role", "Permission"}
                             /\ {"super-admin", "editor"} \subseteq Range(grant.roles)
                             /\ ~reachable \/ \A r \in Range(grant.roles) : grant.rows[r] = {}

=============================================================================
