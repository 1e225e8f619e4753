-------------------------------- MODULE Access --------------------------------
(***************************************************************************)
(* Roles, their permissions and grants, and the sessions of one account:   *)
(* RoleService of core/rbac/role.service.ts and core/auth/session.ts,      *)
(* behind the session and role routes.                                     *)
(*                                                                         *)
(* A permission list is abstracted to the edit that wrote it: perms[r] is  *)
(* the set of edits of which r has rows.  An editor is a createRole or     *)
(* updateRole in the middle of its statements, a client a login or a       *)
(* refresh; what an administrator does in one statement is one action.     *)
(***************************************************************************)
EXTENDS Naturals, FiniteSets

CONSTANTS
    SystemRoles,  \* seeded, is_system
    CustomRoles,  \* rows that createRole may insert
    Editors, Edits,
    Clients,      \* login and refresh requests that overlap
    Tokens,       \* refresh tokens: ids of form_session
    NoToken

ASSUME AccessAssumption ==
    /\ "super-admin" \in SystemRoles
    /\ SystemRoles \cap CustomRoles = {}
    /\ "seed" \notin Edits
    /\ NoToken \notin Tokens
    /\ IsFiniteSet(Tokens)

VARIABLES
    role,       \* form_role, by id
    perms,      \* form_permission, by role id
    mixed,      \* edits that another one was committed beside
    editor,     \* what each edit is doing
    held,       \* form_account_role of the account
    bootstrap,  \* FORMS_BOOTSTRAP_ADMIN_SUB is the account
    session,    \* form_session
    overlaps,   \* by login: refreshes of a token that was no longer live
    logouts,    \* by login: live tokens revoked by a logout
    client      \* what each request is doing

roleVars == <<role, perms, mixed, editor>>
sessionVars == <<bootstrap, session, overlaps, logouts, client>>
accessVars == <<role, perms, mixed, editor, held, bootstrap, session, overlaps,
                logouts, client>>

-----------------------------------------------------------------------------
RoleIds == SystemRoles \cup CustomRoles

Editor == [step : {"idle", "created", "found", "deleted"},
           role : RoleIds, seen : SUBSET (Edits \cup {"seed"})]

Session == [state : {"none", "live", "expired", "revoked"},
            login : Tokens \cup {NoToken}]

Client == [step : {"idle", "issue", "grant", "rotate", "create"},
           token : Tokens \cup {NoToken}, roles : SUBSET RoleIds,
           during : SUBSET RoleIds]

AccessTypeOK ==
    /\ role \in [RoleIds -> {"none", "there", "gone"}]
    /\ perms \in [RoleIds -> SUBSET (Edits \cup {"seed"})]
    /\ \A r \in RoleIds : role[r] # "there" => perms[r] = {} /\ r \notin held
    /\ mixed \subseteq Edits \cup {"seed"}
    /\ editor \in [Editors -> Editor]
    /\ held \subseteq RoleIds
    /\ bootstrap \in BOOLEAN
    /\ session \in [Tokens -> Session]
    /\ overlaps \in [Tokens -> Nat] /\ logouts \in [Tokens -> Nat]
    /\ client \in [Clients -> Client]

IdleEditor == [step |-> "idle", role |-> "super-admin", seen |-> {}]

IdleClient == [step |-> "idle", token |-> NoToken, roles |-> {}, during |-> {}]

-----------------------------------------------------------------------------
\* Permissions

\* Every edit writes a list of its own.
Fresh(b) == \A r \in RoleIds : b \notin perms[r]

EndEdit(e) == editor' = [editor EXCEPT ![e] = IdleEditor]

CreateRole(e, r) ==
    /\ editor[e].step = "idle"
    /\ role[r] = "none"
    /\ role' = [role EXCEPT ![r] = "there"]
    /\ editor' = [editor EXCEPT ![e] = [step |-> "created", role |-> r, seen |-> {}]]
    /\ UNCHANGED <<perms, mixed>>

\* updateRole with a permission list
FindRole(e, r) ==
    /\ editor[e].step = "idle"
    /\ role[r] = "there" /\ r \notin SystemRoles
    /\ editor' = [editor EXCEPT ![e] = [step |-> "found", role |-> r, seen |-> {}]]
    /\ UNCHANGED <<role, perms, mixed>>

\* deleteMany sees the rows that are committed when it begins.
DeletePermissions(e) ==
    /\ editor[e].step = "found"
    /\ editor' = [editor EXCEPT ![e].step = "deleted", ![e].seen = perms[editor[e].role]]
    /\ UNCHANGED <<role, perms, mixed>>

\* Mutant: the old permissions are left.
WritePermissionsMutant(e, b) ==
    LET r == editor[e].role
    IN  /\ editor[e].step \in {"created", "deleted"}
        /\ role[r] = "there"
        /\ Fresh(b)
        /\ perms' = [perms EXCEPT ![r] = @ \cup {b}]
        /\ mixed' = IF perms[r] = editor[e].seen THEN mixed ELSE mixed \cup {b}
        /\ EndEdit(e)
        /\ UNCHANGED role

\* createMany, and with it the transaction of updateRole: rows that were
\* committed since the deletion stay.
WritePermissions(e, b) ==
    LET r == editor[e].role
        left == perms[r] \ editor[e].seen
    IN  /\ editor[e].step \in {"created", "deleted"}
        /\ role[r] = "there"
        /\ Fresh(b)
        /\ perms' = [perms EXCEPT ![r] = left \cup {b}]
        /\ mixed' = IF perms[r] = editor[e].seen THEN mixed ELSE mixed \cup {b}
        /\ EndEdit(e)
        /\ UNCHANGED role

\* The role is gone, or parseKey throws; what was created stays.
EditFails(e) ==
    /\ editor[e].step \in {"created", "found", "deleted"}
    /\ EndEdit(e)
    /\ UNCHANGED <<role, perms, mixed>>

DeleteRole(r) ==
    /\ role[r] = "there" /\ r \notin SystemRoles
    /\ role' = [role EXCEPT ![r] = "gone"]
    /\ perms' = [perms EXCEPT ![r] = {}]
    /\ held' = held \ {r}
    /\ UNCHANGED <<mixed, editor>>

-----------------------------------------------------------------------------
\* Grants

\* held is now h: every request in progress has seen it.
During(c, h) == IF c.step = "idle" THEN c ELSE [c EXCEPT !.during = @ \cup h]

GrantRole(r) ==
    /\ role[r] = "there"
    /\ held' = held \cup {r}
    /\ client' = [c \in Clients |-> During(client[c], held')]
    /\ UNCHANGED <<bootstrap, session, overlaps, logouts>>

RevokeRole(r) ==
    /\ r \in held
    /\ held' = held \ {r}
    /\ UNCHANGED sessionVars

-----------------------------------------------------------------------------
\* Login

Free(c) == client[c].step = "idle"

StartCall(c, step, t, roles) ==
    client' = [client EXCEPT ![c] = [step |-> step, token |-> t, roles |-> roles,
                                     during |-> held]]

DropCall(c) == client' = [client EXCEPT ![c] = IdleClient]

\* lookupOrBootstrapRoles: without a role only the configured account goes on.
LookupRoles(c) ==
    /\ Free(c)
    /\ IF held # {} THEN StartCall(c, "issue", NoToken, held)
       ELSE IF bootstrap THEN StartCall(c, "grant", NoToken, {})
       ELSE DropCall(c)
    /\ UNCHANGED <<held, bootstrap, session, overlaps, logouts>>

\* Mutant: an error of the grant is ignored.
BootstrapMutant(c) ==
    /\ client[c].step = "grant"
    /\ client' = [client EXCEPT ![c].step = "issue", ![c].roles = {"super-admin"}]
    /\ UNCHANGED <<held, bootstrap, session, overlaps, logouts>>

\* The grant is unique per account and role: a second one is an error.
Bootstrap(c) ==
    /\ client[c].step = "grant"
    /\ IF "super-admin" \in held THEN DropCall(c) /\ UNCHANGED held
       ELSE /\ held' = held \cup {"super-admin"}
            /\ client' = [d \in Clients |->
                            IF d = c THEN [client[c] EXCEPT
                                             !.step = "issue", !.roles = {"super-admin"},
                                             !.during = @ \cup held']
                            ELSE During(client[d], held')]
    /\ UNCHANGED <<bootstrap, session, overlaps, logouts>>

\* A login on the public side carries no role.
PublicLogin(c) ==
    /\ Free(c)
    /\ StartCall(c, "issue", NoToken, {})
    /\ UNCHANGED <<held, bootstrap, session, overlaps, logouts>>

\* The access token carries client[c].roles, the refresh token is t.
HandOut(c, t) ==
    /\ session[t].state = "none"
    /\ DropCall(c)
    /\ UNCHANGED <<held, bootstrap>>

IssueSession(c, t) ==
    /\ client[c].step = "issue"
    /\ HandOut(c, t)
    /\ session' = [session EXCEPT ![t] = [state |-> "live", login |-> t]]
    /\ UNCHANGED <<overlaps, logouts>>

-----------------------------------------------------------------------------
\* Refresh: one transaction, whose check is not repeated by its update

ReadToken(c, t) ==
    /\ Free(c)
    /\ session[t].state = "live"
    /\ StartCall(c, "rotate", t, {})
    /\ UNCHANGED <<held, bootstrap, session, overlaps, logouts>>

\* The update holds the row until the commit.
Locked(t) == \E d \in Clients : client[d].step = "create" /\ client[d].token = t

RevokeAndReadRoles(c) ==
    /\ client[c].step = "rotate"
    /\ ~Locked(client[c].token)
    /\ client' = [client EXCEPT ![c].step = "create", ![c].roles = held]
    /\ UNCHANGED <<held, bootstrap, session, overlaps, logouts>>

\* Mutant: the old token is not revoked.
CommitRotationMutant(c, t) ==
    LET old == client[c].token
        login == session[old].login
    IN  /\ client[c].step = "create"
        /\ HandOut(c, t)
        /\ session' = [session EXCEPT ![t] = [state |-> "live", login |-> login]]
        /\ overlaps' = IF session[old].state = "live" THEN overlaps
                       ELSE [overlaps EXCEPT ![login] = @ + 1]
        /\ UNCHANGED logouts

CommitRotation(c, t) ==
    LET old == client[c].token
        login == session[old].login
    IN  /\ client[c].step = "create"
        /\ HandOut(c, t)
        /\ session' = [session EXCEPT ![old].state = "revoked",
                                      ![t] = [state |-> "live", login |-> login]]
        /\ overlaps' = IF session[old].state = "live" THEN overlaps
                       ELSE [overlaps EXCEPT ![login] = @ + 1]
        /\ UNCHANGED logouts

\* An error of the database: a transaction rolls back, a login ends.
CallFails(c) ==
    /\ ~Free(c)
    /\ DropCall(c)
    /\ UNCHANGED <<held, bootstrap, session, overlaps, logouts>>

Logout(t) ==
    /\ session[t].state \in {"live", "expired"}
    /\ ~Locked(t)
    /\ session' = [session EXCEPT ![t].state = "revoked"]
    /\ logouts' = IF session[t].state = "live"
                  THEN [logouts EXCEPT ![session[t].login] = @ + 1] ELSE logouts
    /\ UNCHANGED <<held, bootstrap, overlaps, client>>

ExpireToken(t) ==
    /\ session[t].state = "live"
    /\ session' = [session EXCEPT ![t].state = "expired"]
    /\ UNCHANGED <<held, bootstrap, overlaps, logouts, client>>

-----------------------------------------------------------------------------
AccessInit ==
    /\ role = [r \in RoleIds |-> IF r \in SystemRoles THEN "there" ELSE "none"]
    /\ perms = [r \in RoleIds |-> IF r \in SystemRoles THEN {"seed"} ELSE {}]
    /\ mixed = {}
    /\ editor = [e \in Editors |-> IdleEditor]
    /\ held = {}
    /\ bootstrap \in BOOLEAN
    /\ session = [t \in Tokens |-> [state |-> "none", login |-> NoToken]]
    /\ overlaps = [t \in Tokens |-> 0]
    /\ logouts = [t \in Tokens |-> 0]
    /\ client = [c \in Clients |-> IdleClient]

\* Permissions are read per request, never by a session.
PermissionStep ==
    /\ \/ \E e \in Editors : \/ DeletePermissions(e) \/ EditFails(e)
                             \/ \E r \in CustomRoles : CreateRole(e, r)
                             \/ \E r \in RoleIds : FindRole(e, r)
                             \/ \E b \in Edits : WritePermissions(e, b)
    /\ UNCHANGED <<held, bootstrap, session, overlaps, logouts, client>>

RoleStep == PermissionStep \/ \E r \in RoleIds : DeleteRole(r) /\ UNCHANGED sessionVars

SessionStep ==
    /\ \/ \E r \in RoleIds : GrantRole(r) \/ RevokeRole(r)
       \/ \E c \in Clients :
            \/ LookupRoles(c) \/ Bootstrap(c) \/ PublicLogin(c)
            \/ RevokeAndReadRoles(c) \/ CallFails(c)
            \/ \E t \in Tokens : \/ IssueSession(c, t) \/ ReadToken(c, t)
                                 \/ CommitRotation(c, t)
       \/ \E t \in Tokens : Logout(t) \/ ExpireToken(t)
    /\ UNCHANGED roleVars

AccessNext == RoleStep \/ SessionStep

AccessSpec == AccessInit /\ [][AccessNext]_accessVars

-----------------------------------------------------------------------------
\* A role has the permissions of one edit, and more only as many as were
\* committed beside another edit of it.
PermissionsOfOneEdit == \A r \in RoleIds : Cardinality(perms[r] \ mixed) <= 1

\* Whatever is created, edited and deleted, the seeded roles are there with
\* the seeded permissions, which the guards of the routes rely on.
SystemRolesIntact == \A r \in SystemRoles : role[r] = "there" /\ perms[r] = {"seed"}

LiveOf(login) == {t \in Tokens : session[t].state = "live" /\ session[t].login = login}

\* One login is one live refresh token, however it is rotated; a logout of it
\* leaves none.  Only a rotation that read a token before another request
\* revoked it leaves one more.
SessionsConserved ==
    \A t \in Tokens : session[t].state # "none" =>
        Cardinality(LiveOf(t)) + logouts[t] <= 1 + overlaps[t]

\* An access token never carries a role that the account has not held while
\* the request that made it ran.
RolesHeldMeanwhile == \A c \in Clients : client[c].roles \subseteq client[c].during

=============================================================================
