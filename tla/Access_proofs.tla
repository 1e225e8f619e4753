----------------------------- MODULE Access_proofs -----------------------------
(***************************************************************************)
(* Proofs about Access, for any number of roles, editors, requests and     *)
(* refresh tokens, and about Permissions, for any lists of roles and any   *)
(* rows.                                                                   *)
(*                                                                         *)
(* EditorsInv: who edits a role edits a custom one, and a role has rows of *)
(* one edit besides the mixed.  ClientsInv: a request has seen all that is *)
(* held, and carries no more than it has seen.  TokensInv: a token comes   *)
(* from a login, and of a login the live tokens are counted.               *)
(***************************************************************************)
EXTENDS MCAdministration, FiniteSetTheorems, SequenceTheorems, WellFoundedInduction, TLAPS

OneEdit(r) == \A x, y \in perms[r] \ mixed : x = y

EditorsInv ==
    /\ SystemRolesIntact
    /\ \A e \in Editors : editor[e].step # "idle" => editor[e].role \in CustomRoles
    /\ \A r \in RoleIds : OneEdit(r)

ClientInv(c) ==
    /\ client[c].roles \subseteq client[c].during
    /\ client[c].step # "idle" => held \subseteq client[c].during
    /\ client[c].step \in {"rotate", "create"} =>
          client[c].token \in Tokens /\ session[client[c].token].state # "none"

ClientsInv == \A c \in Clients : ClientInv(c)

Conserved(t) == Cardinality(LiveOf(t)) + logouts[t] <= 1 + overlaps[t]

TokenInv(t) ==
    IF session[t].state = "none" THEN overlaps[t] = 0 /\ logouts[t] = 0
    ELSE /\ session[t].login \in Tokens /\ session[session[t].login].state # "none"
         /\ Conserved(t)

TokensInv == \A t \in Tokens : TokenInv(t)

AccessInv == AccessTypeOK /\ EditorsInv /\ ClientsInv /\ TokensInv

-----------------------------------------------------------------------------
\* The seeded roles and an account without roles and sessions satisfy it.
LEMMA InitAccessInv == AccessInit => AccessInv
<1> SUFFICES ASSUME AccessInit PROVE AccessInv
  OBVIOUS
<1> USE AccessAssumption
<1>1. AccessTypeOK
  BY DEF AccessInit, AccessTypeOK, RoleIds, Editor, Session, Client, IdleEditor, IdleClient
<1>2. EditorsInv
  BY DEF AccessInit, EditorsInv, SystemRolesIntact, OneEdit, RoleIds, IdleEditor
<1>3. ClientsInv
  BY DEF AccessInit, ClientsInv, ClientInv, IdleClient
<1>4. TokensInv
  BY DEF AccessInit, TokensInv, TokenInv
<1> QED BY <1>1, <1>2, <1>3, <1>4 DEF AccessInv

-----------------------------------------------------------------------------
\* Roles and their permissions

\* The statements of an edit keep the type invariant.
LEMMA PermissionTypes ==
    ASSUME AccessInv, PermissionStep
    PROVE  AccessTypeOK'
<1> USE AccessAssumption
<1>1. \A e \in Editors : editor[e] \in Editor
  BY DEF AccessInv, AccessTypeOK
<1>2. IdleEditor \in Editor
  BY DEF IdleEditor, Editor, RoleIds
<1>3. UNCHANGED <<held, bootstrap, session, overlaps, logouts, client>>
  BY DEF PermissionStep
<1>4. /\ role' \in [RoleIds -> {"none", "there", "gone"}]
      /\ perms' \in [RoleIds -> SUBSET (Edits \cup {"seed"})]
      /\ \A r \in RoleIds : role'[r] # "there" => perms'[r] = {} /\ r \notin held
      /\ mixed' \subseteq Edits \cup {"seed"}
      /\ editor' \in [Editors -> Editor]
  <2>1. ASSUME NEW e \in Editors, NEW r \in CustomRoles, CreateRole(e, r) PROVE <1>4
    BY <2>1 DEF CreateRole, AccessInv, AccessTypeOK, RoleIds, Editor
  <2>2. ASSUME NEW e \in Editors, NEW r \in RoleIds, FindRole(e, r) PROVE <1>4
    BY <2>2 DEF FindRole, AccessInv, AccessTypeOK, Editor
  <2>3. ASSUME NEW e \in Editors, DeletePermissions(e) PROVE <1>4
    <3>1. perms[editor[e].role] \subseteq Edits \cup {"seed"}
      BY <1>1 DEF AccessInv, AccessTypeOK, Editor
    <3>2. [editor[e] EXCEPT !.step = "deleted", !.seen = perms[editor[e].role]] \in Editor
      BY <1>1, <3>1 DEF Editor
    <3> QED BY <2>3, <3>2 DEF DeletePermissions, AccessInv, AccessTypeOK
  <2>4. ASSUME NEW e \in Editors, NEW b \in Edits, WritePermissions(e, b) PROVE <1>4
    <3>1. editor[e].role \in RoleIds
      BY <1>1 DEF Editor
    <3>2. role' = role /\ role[editor[e].role] = "there"
      BY <2>4 DEF WritePermissions
    <3>3. perms' \in [RoleIds -> SUBSET (Edits \cup {"seed"})]
      BY <2>4, <3>1 DEF WritePermissions, AccessInv, AccessTypeOK
    <3>4. mixed' \subseteq Edits \cup {"seed"}
      BY <2>4 DEF WritePermissions, AccessInv, AccessTypeOK
    <3>5. editor' \in [Editors -> Editor]
      BY <2>4, <1>2 DEF WritePermissions, EndEdit, AccessInv, AccessTypeOK
    <3>6. \A r \in RoleIds : role'[r] # "there" => perms'[r] = {} /\ r \notin held
      BY <2>4, <3>1, <3>2 DEF WritePermissions, AccessInv, AccessTypeOK
    <3> QED BY <3>2, <3>3, <3>4, <3>5, <3>6 DEF AccessInv, AccessTypeOK
  <2>5. ASSUME NEW e \in Editors, EditFails(e) PROVE <1>4
    BY <2>5, <1>2 DEF EditFails, EndEdit, AccessInv, AccessTypeOK
  <2> QED BY <2>1, <2>2, <2>3, <2>4, <2>5 DEF PermissionStep
<1> QED BY <1>3, <1>4 DEF AccessInv, AccessTypeOK

\* They leave the seeded roles alone, and mix lists only beside each other.
LEMMA PermissionKeeps ==
    ASSUME AccessInv, PermissionStep
    PROVE  EditorsInv'
<1> USE AccessAssumption
<1>0. /\ role \in [RoleIds -> {"none", "there", "gone"}]
      /\ perms \in [RoleIds -> SUBSET (Edits \cup {"seed"})]
      /\ editor \in [Editors -> Editor]
  BY DEF AccessInv, AccessTypeOK
<1>1. ASSUME NEW e \in Editors, NEW r \in CustomRoles, CreateRole(e, r) PROVE EditorsInv'
  BY <1>0, <1>1 DEF CreateRole, AccessInv, EditorsInv, SystemRolesIntact, OneEdit, RoleIds
<1>2. ASSUME NEW e \in Editors, NEW r \in RoleIds, FindRole(e, r) PROVE EditorsInv'
  BY <1>0, <1>2 DEF FindRole, AccessInv, EditorsInv, SystemRolesIntact, OneEdit, RoleIds
<1>3. ASSUME NEW e \in Editors, DeletePermissions(e) PROVE EditorsInv'
  <2>1. \A f \in Editors : editor'[f].role = editor[f].role
                           /\ (editor'[f].step # "idle" => editor[f].step # "idle")
    BY <1>0, <1>3 DEF DeletePermissions, Editor
  <2>2. UNCHANGED <<role, perms, mixed>>
    BY <1>3 DEF DeletePermissions
  <2>3. SystemRolesIntact'
    BY <2>2 DEF AccessInv, EditorsInv, SystemRolesIntact
  <2>4. \A f \in Editors : editor'[f].step # "idle" => editor'[f].role \in CustomRoles
    BY <2>1 DEF AccessInv, EditorsInv
  <2>5. \A r \in RoleIds : OneEdit(r)'
    BY <2>2 DEF AccessInv, EditorsInv, OneEdit
  <2> QED BY <2>3, <2>4, <2>5 DEF EditorsInv
<1>4. ASSUME NEW e \in Editors, NEW b \in Edits, WritePermissions(e, b) PROVE EditorsInv'
  <2> DEFINE q == editor[e].role
  <2>1. q \in CustomRoles
    BY <1>4 DEF WritePermissions, AccessInv, EditorsInv
  <2>2. /\ role' = role
        /\ perms' = [perms EXCEPT ![q] = (perms[q] \ editor[e].seen) \cup {b}]
        /\ mixed' = IF perms[q] = editor[e].seen THEN mixed ELSE mixed \cup {b}
        /\ editor' = [editor EXCEPT ![e] = IdleEditor]
    BY <1>4 DEF WritePermissions, EndEdit
  <2>3. SystemRolesIntact'
    BY <1>0, <2>1, <2>2 DEF AccessInv, EditorsInv, SystemRolesIntact, RoleIds
  <2>4. \A f \in Editors : editor'[f].step # "idle" => editor'[f].role \in CustomRoles
    BY <1>0, <2>2 DEF AccessInv, EditorsInv, IdleEditor
  <2>5. ASSUME NEW r \in RoleIds PROVE OneEdit(r)'
    <3>1. CASE r = q /\ perms[q] = editor[e].seen
      <4>1. perms'[r] = {b}
        BY <1>0, <2>2, <3>1
      <4> QED BY <4>1 DEF OneEdit
    <3>2. CASE r = q /\ perms[q] # editor[e].seen
      <4>1. perms'[r] \ mixed' \subseteq perms[r] \ mixed
        BY <1>0, <2>2, <3>2
      <4> QED BY <4>1, <2>5 DEF OneEdit, AccessInv, EditorsInv
    <3>3. CASE r # q
      <4>1. perms'[r] \ mixed' \subseteq perms[r] \ mixed
        BY <1>0, <2>2, <3>3
      <4> QED BY <4>1, <2>5 DEF OneEdit, AccessInv, EditorsInv
    <3> QED BY <3>1, <3>2, <3>3
  <2> QED BY <2>3, <2>4, <2>5 DEF EditorsInv
<1>5. ASSUME NEW e \in Editors, EditFails(e) PROVE EditorsInv'
  BY <1>0, <1>5 DEF EditFails, EndEdit, IdleEditor, AccessInv, EditorsInv, SystemRolesIntact, OneEdit
<1> QED BY <1>1, <1>2, <1>3, <1>4, <1>5 DEF PermissionStep

\* Deleting a role takes its rows and its grants along.
LEMMA DeleteRoleKeeps ==
    ASSUME AccessInv, NEW r \in RoleIds, DeleteRole(r), UNCHANGED sessionVars
    PROVE  AccessInv'
<1>1. AccessTypeOK'
  BY DEF DeleteRole, sessionVars, AccessInv, AccessTypeOK
<1>2. EditorsInv'
  BY DEF DeleteRole, AccessInv, AccessTypeOK, EditorsInv, SystemRolesIntact, OneEdit
<1>3. ClientsInv'
  BY DEF DeleteRole, sessionVars, AccessInv, ClientsInv, ClientInv
<1>4. TokensInv'
  BY DEF sessionVars, AccessInv, TokensInv, TokenInv, Conserved, LiveOf
<1> QED BY <1>1, <1>2, <1>3, <1>4 DEF AccessInv

\* What is done to roles keeps the invariant.
LEMMA RoleStepKeeps == AccessInv /\ RoleStep => AccessInv'
<1>1. ASSUME AccessInv, PermissionStep PROVE AccessInv'
  <2>1. ClientsInv' /\ TokensInv'
    BY <1>1 DEF PermissionStep, AccessInv, ClientsInv, ClientInv, TokensInv, TokenInv,
       Conserved, LiveOf
  <2> QED BY <1>1, <2>1, PermissionTypes, PermissionKeeps DEF AccessInv
<1> QED BY <1>1, DeleteRoleKeeps DEF RoleStep

-----------------------------------------------------------------------------
\* Sessions

\* A step that leaves the sessions alone keeps what is counted of them.
LEMMA SameSessions ==
    ASSUME AccessInv, UNCHANGED <<session, overlaps, logouts>>
    PROVE  TokensInv'
BY DEF AccessInv, TokensInv, TokenInv, Conserved, LiveOf

\* Grants and revocations keep the invariant.
LEMMA GrantKeeps ==
    ASSUME AccessInv, NEW r \in RoleIds, GrantRole(r) \/ RevokeRole(r), UNCHANGED roleVars
    PROVE  AccessInv'
<1>0. client \in [Clients -> Client] /\ held \subseteq RoleIds
  BY DEF AccessInv, AccessTypeOK
<1>1. ASSUME GrantRole(r) PROVE AccessTypeOK' /\ ClientsInv'
  <2>1. held' \subseteq RoleIds
    BY <1>0, <1>1 DEF GrantRole
  <2>2. \A c \in Clients : client'[c] \in Client
    BY <1>0, <1>1, <2>1 DEF GrantRole, During, Client
  <2>3. client' = [c \in Clients |-> client'[c]]
    BY <1>1 DEF GrantRole
  <2>4. AccessTypeOK'
    BY <1>1, <2>1, <2>2, <2>3 DEF GrantRole, roleVars, AccessInv, AccessTypeOK
  <2>5. ASSUME NEW c \in Clients PROVE ClientInv(c)'
    <3>1. /\ client'[c] = During(client[c], held')
          /\ client[c] \in Client
          /\ session' = session
      BY <1>0, <1>1 DEF GrantRole
    <3> QED BY <1>1, <3>1 DEF GrantRole, During, Client, AccessInv, ClientsInv, ClientInv
  <2> QED BY <2>4, <2>5 DEF ClientsInv
<1>2. ASSUME RevokeRole(r) PROVE AccessTypeOK' /\ ClientsInv'
  <2>1. AccessTypeOK'
    BY <1>2 DEF RevokeRole, roleVars, sessionVars, AccessInv, AccessTypeOK
  <2>2. ClientsInv'
    BY <1>2 DEF RevokeRole, sessionVars, AccessInv, ClientsInv, ClientInv
  <2> QED BY <2>1, <2>2
<1>3. EditorsInv'
  BY DEF roleVars, AccessInv, EditorsInv, SystemRolesIntact, OneEdit
<1>4. TokensInv'
  BY SameSessions DEF GrantRole, RevokeRole, sessionVars
<1> QED BY <1>1, <1>2, <1>3, <1>4 DEF AccessInv

\* A request that ends has seen nothing, and carries nothing.
LEMMA IdleIsRight == IdleClient \in Client /\ IdleClient.step = "idle"
                       /\ IdleClient.roles = {} /\ IdleClient.during = {}
BY DEF IdleClient, Client

\* One request moves to k, which is right; roles and sessions stay.
LEMMA OneClientMoves ==
    ASSUME AccessInv, NEW c \in Clients, NEW k \in Client,
           client' = [client EXCEPT ![c] = k],
           UNCHANGED <<role, perms, mixed, editor, held, bootstrap, session, overlaps, logouts>>,
           k.roles \subseteq k.during,
           k.step # "idle" => held \subseteq k.during,
           k.step \in {"rotate", "create"} => k.token \in Tokens /\ session[k.token].state # "none"
    PROVE  AccessInv'
<1>1. AccessTypeOK'
  BY DEF AccessInv, AccessTypeOK
<1>2. EditorsInv'
  BY DEF AccessInv, EditorsInv, SystemRolesIntact, OneEdit
<1>3. ASSUME NEW d \in Clients PROVE ClientInv(d)'
  <2>1. client'[d] = IF d = c THEN k ELSE client[d]
    BY DEF AccessInv, AccessTypeOK
  <2> QED BY <2>1 DEF AccessInv, ClientsInv, ClientInv
<1> QED BY <1>1, <1>2, <1>3, SameSessions DEF AccessInv, ClientsInv

\* Logins up to the session keep the invariant.
LEMMA LoginKeeps ==
    ASSUME AccessInv, NEW c \in Clients, UNCHANGED roleVars,
           LookupRoles(c) \/ PublicLogin(c) \/ CallFails(c)
    PROVE  AccessInv'
<1>0. held \subseteq RoleIds
  BY DEF AccessInv, AccessTypeOK
<1>1. ASSUME NEW roles \in SUBSET held, NEW step \in {"issue", "grant"},
             StartCall(c, step, NoToken, roles),
             UNCHANGED <<held, bootstrap, session, overlaps, logouts>>
      PROVE  AccessInv'
  <2> DEFINE k == [step |-> step, token |-> NoToken, roles |-> roles, during |-> held]
  <2>1. k \in Client
    BY <1>0 DEF Client
  <2>2. client' = [client EXCEPT ![c] = k]
    BY <1>1 DEF StartCall
  <2> QED BY <1>1, <2>1, <2>2, OneClientMoves DEF roleVars
<1>2. ASSUME DropCall(c), UNCHANGED <<held, bootstrap, session, overlaps, logouts>>
      PROVE  AccessInv'
  BY <1>2, IdleIsRight, OneClientMoves DEF DropCall, roleVars
<1>3. CASE LookupRoles(c)
  BY <1>1, <1>2, <1>3 DEF LookupRoles
<1>4. CASE PublicLogin(c)
  BY <1>1, <1>4 DEF PublicLogin
<1>5. CASE CallFails(c)
  BY <1>2, <1>5 DEF CallFails
<1> QED BY <1>3, <1>4, <1>5

\* The bootstrap keeps it: all that run have seen the new grant.
LEMMA BootstrapKeeps ==
    ASSUME AccessInv, NEW c \in Clients, UNCHANGED roleVars, Bootstrap(c)
    PROVE  AccessInv'
<1>1. CASE "super-admin" \in held
  BY <1>1, IdleIsRight, OneClientMoves DEF Bootstrap, DropCall, roleVars
<1>2. CASE "super-admin" \notin held
  <2>0. client \in [Clients -> Client] /\ held \subseteq RoleIds /\ "super-admin" \in RoleIds
    BY AccessAssumption DEF AccessInv, AccessTypeOK, RoleIds
  <2>1. held' = held \cup {"super-admin"} /\ held' \subseteq RoleIds
    BY <1>2, <2>0 DEF Bootstrap
  <2>2. /\ client' = [d \in Clients |-> client'[d]]
        /\ client'[c] = [client[c] EXCEPT !.step = "issue", !.roles = {"super-admin"},
                                          !.during = @ \cup held']
        /\ \A d \in Clients \ {c} : client'[d] = During(client[d], held')
    BY <1>2 DEF Bootstrap
  <2>3. ASSUME NEW d \in Clients PROVE client'[d] \in Client /\ ClientInv(d)'
    <3>1. session' = session /\ client[d] \in Client /\ ClientInv(d)
      BY <1>2, <2>0 DEF Bootstrap, AccessInv, ClientsInv
    <3>2. CASE d = c
      <4>1. /\ client'[d] \in Client
            /\ client'[d].step = "issue" /\ client'[d].roles = {"super-admin"}
            /\ client'[d].during = client[d].during \cup held'
        <5>1. client'[d] = [step |-> "issue", token |-> client[d].token,
                            roles |-> {"super-admin"}, during |-> client[d].during \cup held']
          BY <2>2, <3>1, <3>2 DEF Client
        <5>2. /\ client[d].token \in Tokens \cup {NoToken}
              /\ client[d].during \cup held' \subseteq RoleIds
              /\ {"super-admin"} \subseteq RoleIds
          BY <2>0, <2>1, <3>1 DEF Client
        <5> QED BY <5>1, <5>2 DEF Client
      <4> QED BY <2>1, <4>1 DEF ClientInv
    <3>3. CASE d # c
      <4>1. client'[d] = During(client[d], held')
        BY <2>2, <3>3
      <4>2. CASE client[d].step = "idle"
        BY <3>1, <4>1, <4>2 DEF During, ClientInv
      <4>3. CASE client[d].step # "idle"
        <5>1. client'[d] = [client[d] EXCEPT !.during = @ \cup held']
          BY <4>1, <4>3 DEF During
        <5> QED BY <2>1, <3>1, <4>3, <5>1 DEF Client, ClientInv
      <4> QED BY <4>2, <4>3
    <3> QED BY <3>2, <3>3
  <2>4. role["super-admin"] = "there"
    BY AccessAssumption DEF AccessInv, EditorsInv, SystemRolesIntact
  <2>5. AccessTypeOK'
    BY <1>2, <2>1, <2>2, <2>3, <2>4 DEF Bootstrap, roleVars, AccessInv, AccessTypeOK
  <2>6. EditorsInv'
    BY DEF roleVars, AccessInv, EditorsInv, SystemRolesIntact, OneEdit
  <2>7. TokensInv'
    BY SameSessions DEF Bootstrap
  <2> QED BY <2>3, <2>5, <2>6, <2>7 DEF AccessInv, ClientsInv
<1> QED BY <1>1, <1>2

\* Reading a token, and the update that holds its row, keep it.
LEMMA RefreshKeeps ==
    ASSUME AccessInv, NEW c \in Clients, UNCHANGED roleVars,
           RevokeAndReadRoles(c) \/ \E t \in Tokens : ReadToken(c, t)
    PROVE  AccessInv'
<1>0. held \subseteq RoleIds /\ client[c] \in Client /\ client \in [Clients -> Client]
  BY DEF AccessInv, AccessTypeOK
<1>1. ASSUME NEW t \in Tokens, ReadToken(c, t) PROVE AccessInv'
  <2> DEFINE k == [step |-> "rotate", token |-> t, roles |-> {}, during |-> held]
  <2>1. k \in Client
    BY <1>0 DEF Client
  <2>2. client' = [client EXCEPT ![c] = k] /\ session[t].state # "none"
    BY <1>1 DEF ReadToken, StartCall
  <2> QED BY <1>1, <2>1, <2>2, OneClientMoves DEF ReadToken, roleVars
<1>2. CASE RevokeAndReadRoles(c)
  <2> DEFINE k == [client[c] EXCEPT !.step = "create", !.roles = held]
  <2>1. k \in Client /\ k.roles = held /\ k.during = client[c].during /\ k.token = client[c].token
    BY <1>0 DEF Client
  <2>2. client' = [client EXCEPT ![c] = k] /\ client[c].step = "rotate"
    BY <1>0, <1>2 DEF RevokeAndReadRoles
  <2>3. ClientInv(c)
    BY DEF AccessInv, ClientsInv
  <2> QED BY <1>2, <2>1, <2>2, <2>3, OneClientMoves DEF RevokeAndReadRoles, roleVars, ClientInv
<1> QED BY <1>1, <1>2

\* The live tokens of a login are finitely many.
LEMMA LiveIsFinite ==
    ASSUME NEW t \in Tokens
    PROVE  IsFiniteSet(LiveOf(t)) /\ Cardinality(LiveOf(t)) \in Nat
<1>1. LiveOf(t) \subseteq Tokens
  BY DEF LiveOf
<1>2. IsFiniteSet(Tokens)
  BY AccessAssumption DEF AccessAssumption
<1> QED BY <1>1, <1>2, FS_Subset, FS_CardinalityType

\* A new session, and a request that ends: types, roles and requests.
LEMMA SessionEnds ==
    ASSUME AccessInv, NEW c \in Clients, NEW t \in Tokens, UNCHANGED roleVars,
           HandOut(c, t), session' \in [Tokens -> Session],
           overlaps' \in [Tokens -> Nat], UNCHANGED logouts,
           \A u \in Tokens : session[u].state # "none" => session'[u].state # "none"
    PROVE  AccessTypeOK' /\ EditorsInv' /\ ClientsInv'
<1>1. client' = [client EXCEPT ![c] = IdleClient] /\ UNCHANGED <<held, bootstrap>>
  BY DEF HandOut, DropCall
<1>2. AccessTypeOK'
  BY <1>1, IdleIsRight DEF roleVars, AccessInv, AccessTypeOK
<1>3. EditorsInv'
  BY DEF roleVars, AccessInv, EditorsInv, SystemRolesIntact, OneEdit
<1>4. ASSUME NEW d \in Clients PROVE ClientInv(d)'
  <2>1. client'[d] = IF d = c THEN IdleClient ELSE client[d]
    BY <1>1 DEF AccessInv, AccessTypeOK
  <2> QED BY <1>1, <2>1, IdleIsRight DEF AccessInv, ClientsInv, ClientInv
<1> QED BY <1>2, <1>3, <1>4 DEF ClientsInv

\* A login makes one live token, of its own.
LEMMA IssueKeeps ==
    ASSUME AccessInv, NEW c \in Clients, NEW t \in Tokens, UNCHANGED roleVars,
           IssueSession(c, t)
    PROVE  AccessInv'
<1> DEFINE new == [state |-> "live", login |-> t]
<1>0. /\ session \in [Tokens -> Session]
      /\ overlaps \in [Tokens -> Nat] /\ logouts \in [Tokens -> Nat]
      /\ NoToken \notin Tokens
  BY AccessAssumption DEF AccessInv, AccessTypeOK, AccessAssumption
<1>1. /\ session[t].state = "none" /\ HandOut(c, t)
      /\ session' = [session EXCEPT ![t] = new]
      /\ overlaps' = overlaps /\ logouts' = logouts
  BY DEF IssueSession, HandOut
<1>2. session' \in [Tokens -> Session]
  BY <1>0, <1>1 DEF Session
<1>3. /\ session'[t] = new
      /\ \A u \in Tokens \ {t} : session'[u] = session[u]
  BY <1>0, <1>1
<1>4. ASSUME NEW u \in Tokens PROVE TokenInv(u)'
  <2>1. TokenInv(u)
    BY DEF AccessInv, TokensInv
  <2>2. CASE u = t
    <3>1. \A v \in Tokens : session[v].state # "none" => session[v].login # t
      BY <1>1 DEF AccessInv, TokensInv, TokenInv
    <3>2. LiveOf(t)' = {t}
      BY <1>3, <3>1 DEF LiveOf
    <3>3. Cardinality(LiveOf(t)') = 1
      BY <3>2, FS_Singleton
    <3>4. overlaps'[t] = 0 /\ logouts'[t] = 0
      BY <1>1, <2>1, <2>2 DEF TokenInv
    <3>5. Conserved(t)'
      BY <3>3, <3>4 DEF Conserved
    <3> QED BY <1>3, <2>2, <3>5 DEF TokenInv
  <2>3. CASE u # t /\ session[u].state = "none"
    BY <1>1, <1>3, <2>1, <2>3 DEF TokenInv
  <2>4. CASE u # t /\ session[u].state # "none"
    <3>1. session[u].login \in Tokens /\ session[u].login # t
      BY <1>1, <2>1, <2>4 DEF TokenInv
    <3>2. LiveOf(u)' = LiveOf(u)
      BY <1>1, <1>3, <2>4 DEF LiveOf
    <3>3. Conserved(u)'
      BY <1>1, <2>1, <2>4, <3>2 DEF Conserved, TokenInv
    <3> QED BY <1>3, <2>1, <2>4, <3>1, <3>3 DEF TokenInv
  <2> QED BY <2>2, <2>3, <2>4
<1>5. AccessTypeOK' /\ EditorsInv' /\ ClientsInv'
  BY <1>0, <1>1, <1>2, <1>3, SessionEnds
<1> QED BY <1>4, <1>5 DEF AccessInv, TokensInv

\* A rotation makes one live token of the login, and takes the old one away,
\* unless another request has: then the overlap is counted.
LEMMA RotationCounts ==
    ASSUME AccessInv, NEW t \in Tokens, NEW old \in Tokens, NEW login \in Tokens,
           session[t].state = "none", session[old].state # "none",
           session[old].login = login,
           session' = [session EXCEPT ![old].state = "revoked",
                                      ![t] = [state |-> "live", login |-> login]],
           overlaps' = IF session[old].state = "live" THEN overlaps
                       ELSE [overlaps EXCEPT ![login] = @ + 1],
           logouts' = logouts
    PROVE  TokensInv' /\ session' \in [Tokens -> Session] /\ overlaps' \in [Tokens -> Nat]
<1> DEFINE new == [state |-> "live", login |-> login]
<1>0. /\ session \in [Tokens -> Session]
      /\ overlaps \in [Tokens -> Nat] /\ logouts \in [Tokens -> Nat]
  BY DEF AccessInv, AccessTypeOK
<1>1. old # t /\ login # t /\ session[login].state # "none"
  BY DEF AccessInv, TokensInv, TokenInv
<1>2. session' \in [Tokens -> Session] /\ overlaps' \in [Tokens -> Nat]
  <2>1. new \in Session /\ [session[old] EXCEPT !.state = "revoked"] \in Session
    BY <1>0 DEF Session
  <2> QED BY <1>0, <1>1, <2>1
<1>3. /\ session'[t].state = "live" /\ session'[t].login = login
      /\ session'[old].state = "revoked" /\ session'[old].login = login
      /\ \A u \in Tokens : u # t /\ u # old => session'[u] = session[u]
  BY <1>0, <1>1 DEF Session
<1>4. \A u \in Tokens : session[u].state # "none" =>
         session'[u].state # "none" /\ session'[u].login = session[u].login
  BY <1>3
<1>5. ASSUME NEW u \in Tokens PROVE TokenInv(u)'
  <2>1. TokenInv(u) /\ u \in Tokens
    BY <1>5 DEF AccessInv, TokensInv
  <2>2. /\ logouts[u] \in Nat /\ overlaps[u] \in Nat /\ logouts'[u] = logouts[u]
        /\ overlaps'[u] = IF u = login /\ session[old].state # "live"
                          THEN overlaps[u] + 1 ELSE overlaps[u]
    BY <1>0
  <2>3. CASE u = t
    <3>1. \A v \in Tokens : session[v].state # "none" => session[v].login # t
      BY DEF AccessInv, TokensInv, TokenInv
    <3>2. \A v \in Tokens : ~(session'[v].state = "live" /\ session'[v].login = t)
      <4> SUFFICES ASSUME NEW v \in Tokens
                   PROVE  ~(session'[v].state = "live" /\ session'[v].login = t)
        OBVIOUS
      <4> QED BY <1>1, <1>3, <3>1
    <3>3. LiveOf(u)' = {}
      BY <2>3, <3>2 DEF LiveOf
    <3>4. Cardinality(LiveOf(u)') = 0
      BY <3>3, FS_EmptySet
    <3>5. Conserved(u)'
      BY <1>1, <2>1, <2>2, <2>3, <3>4 DEF Conserved, TokenInv
    <3>6. session'[login].state # "none"
      BY <1>1, <1>4
    <3> QED BY <1>3, <2>3, <3>5, <3>6 DEF TokenInv
  <2>4. CASE u # t /\ session[u].state = "none"
    <3>1. u # old /\ u # login
      BY <1>1, <2>4
    <3> QED BY <1>3, <2>1, <2>2, <2>4, <3>1 DEF TokenInv
  <2>5. CASE u # t /\ session[u].state # "none"
    <3>1. session'[u].state # "none" /\ session'[u].login \in Tokens
          /\ session'[session'[u].login].state # "none"
      BY <1>4, <2>1, <2>5 DEF TokenInv
    <3>2. Conserved(u)
      BY <2>1, <2>5 DEF TokenInv
    <3>3. IsFiniteSet(LiveOf(u)) /\ Cardinality(LiveOf(u)) \in Nat
      BY LiveIsFinite
    <3>4. ASSUME u # login PROVE Conserved(u)'
      <4>1. ASSUME NEW v \in Tokens
            PROVE  session'[v].state = "live" /\ session'[v].login = u
                   <=> session[v].state = "live" /\ session[v].login = u
        BY <1>3, <3>4
      <4>2. LiveOf(u)' = LiveOf(u)
        BY <4>1 DEF LiveOf
      <4> QED BY <2>2, <3>2, <3>4, <4>2 DEF Conserved
    <3>5. ASSUME u = login PROVE Conserved(u)'
      <4>1. ASSUME NEW v \in Tokens
            PROVE  session'[v].state = "live" /\ session'[v].login = u
                   <=> v = t \/ (v # old /\ session[v].state = "live" /\ session[v].login = u)
        BY <1>1, <1>3, <3>5
      <4>2. LiveOf(u)' = (LiveOf(u) \ {old}) \cup {t}
        BY <4>1 DEF LiveOf
      <4>3. t \notin LiveOf(u) \ {old}
        BY DEF LiveOf
      <4>4. /\ IsFiniteSet(LiveOf(u) \ {old})
            /\ Cardinality(LiveOf(u) \ {old}) = IF old \in LiveOf(u)
                 THEN Cardinality(LiveOf(u)) - 1 ELSE Cardinality(LiveOf(u))
        BY <3>3, FS_RemoveElement
      <4>5. Cardinality(LiveOf(u)') = Cardinality(LiveOf(u) \ {old}) + 1
        BY <4>2, <4>3, <4>4, FS_AddElement
      <4>6. old \in LiveOf(u) <=> session[old].state = "live"
        BY <3>5 DEF LiveOf
      <4> DEFINE n == Cardinality(LiveOf(u))
      <4> DEFINE m == Cardinality(LiveOf(u)')
      <4>7. n + logouts[u] <= 1 + overlaps[u] /\ n \in Nat
        BY <3>2, <3>3 DEF Conserved
      <4>8. m = IF session[old].state = "live" THEN n ELSE n + 1
        BY <3>3, <4>4, <4>5, <4>6
      <4> HIDE DEF n, m
      <4>9. m + logouts'[u] <= 1 + overlaps'[u]
        BY <2>2, <3>5, <4>7, <4>8
      <4> QED BY <4>9 DEF Conserved, m
    <3> QED BY <3>1, <3>4, <3>5 DEF TokenInv
  <2> QED BY <2>3, <2>4, <2>5
<1> QED BY <1>2, <1>5 DEF TokensInv

\* So a rotation keeps the invariant.
LEMMA RotationKeeps ==
    ASSUME AccessInv, NEW c \in Clients, NEW t \in Tokens, UNCHANGED roleVars,
           CommitRotation(c, t)
    PROVE  AccessInv'
<1>1. HandOut(c, t) /\ session[t].state = "none" /\ client[c].step = "create"
  BY DEF CommitRotation, HandOut
<1>2. /\ client[c].token \in Tokens /\ session[client[c].token].state # "none"
      /\ session[client[c].token].login \in Tokens
  BY <1>1 DEF AccessInv, ClientsInv, ClientInv, TokensInv, TokenInv
<1>3. logouts' = logouts
  BY DEF CommitRotation
<1>4. TokensInv' /\ session' \in [Tokens -> Session] /\ overlaps' \in [Tokens -> Nat]
  BY <1>1, <1>2, RotationCounts DEF CommitRotation
<1>5. \A u \in Tokens : session[u].state # "none" => session'[u].state # "none"
  BY <1>1, <1>2 DEF CommitRotation, AccessInv, AccessTypeOK, Session
<1>6. AccessTypeOK' /\ EditorsInv' /\ ClientsInv'
  BY <1>1, <1>3, <1>4, <1>5, SessionEnds
<1> QED BY <1>4, <1>6 DEF AccessInv

\* A live token that ends leaves one fewer, which a logout counts.
LEMMA TokenEnds ==
    ASSUME AccessInv, NEW t \in Tokens, NEW s \in {"expired", "revoked"},
           session[t].state # "none",
           session' = [session EXCEPT ![t].state = s],
           \/ logouts' = logouts
           \/ /\ session[t].state = "live"
              /\ logouts' = [logouts EXCEPT ![session[t].login] = @ + 1],
           UNCHANGED <<role, perms, mixed, editor, held, bootstrap, overlaps, client>>
    PROVE  AccessInv'
<1>0. /\ session \in [Tokens -> Session]
      /\ overlaps \in [Tokens -> Nat] /\ logouts \in [Tokens -> Nat]
  BY DEF AccessInv, AccessTypeOK
<1>1. PICK login \in Tokens : login = session[t].login
  BY DEF AccessInv, TokensInv, TokenInv
<1>2. session' \in [Tokens -> Session] /\ logouts' \in [Tokens -> Nat]
  <2>1. [session[t] EXCEPT !.state = s] \in Session
    BY <1>0 DEF Session
  <2> QED BY <1>0, <1>1, <2>1
<1>3. /\ session'[t].state = s /\ session'[t].login = login
      /\ \A u \in Tokens : u # t => session'[u] = session[u]
  BY <1>0, <1>1 DEF Session
<1>4. AccessTypeOK'
  BY <1>2 DEF AccessInv, AccessTypeOK
<1>5. EditorsInv'
  BY DEF AccessInv, EditorsInv, SystemRolesIntact, OneEdit
<1>6. ClientsInv'
  BY <1>3 DEF AccessInv, ClientsInv, ClientInv
<1>7. ASSUME NEW u \in Tokens PROVE TokenInv(u)'
  <2>1. TokenInv(u)
    BY DEF AccessInv, TokensInv
  <2>2. /\ logouts[u] \in Nat /\ overlaps[u] \in Nat /\ overlaps'[u] = overlaps[u]
        /\ \/ logouts'[u] = logouts[u]
           \/ u = login /\ session[t].state = "live" /\ logouts'[u] = logouts[u] + 1
    BY <1>0, <1>1
  <2>3. CASE session[u].state = "none"
    <3>1. u # t /\ u # login
      BY <1>1, <2>3 DEF AccessInv, TokensInv, TokenInv
    <3> QED BY <1>3, <2>1, <2>2, <2>3, <3>1 DEF TokenInv
  <2>4. CASE session[u].state # "none"
    <3>1. Conserved(u)
      BY <2>1, <2>4 DEF TokenInv
    <3>2. ASSUME NEW v \in Tokens
          PROVE  session'[v].state = "live" /\ session'[v].login = u
                 <=> v # t /\ session[v].state = "live" /\ session[v].login = u
      BY <1>3
    <3>3. LiveOf(u)' = LiveOf(u) \ {t}
      BY <3>2 DEF LiveOf
    <3>4. IsFiniteSet(LiveOf(u)) /\ Cardinality(LiveOf(u)) \in Nat
      BY LiveIsFinite
    <3> DEFINE n == Cardinality(LiveOf(u))
    <3> DEFINE m == Cardinality(LiveOf(u)')
    <3>5. m = IF t \in LiveOf(u) THEN n - 1 ELSE n
      BY <3>3, <3>4, FS_RemoveElement
    <3>6. u = login /\ session[t].state = "live" => t \in LiveOf(u)
      BY <1>1 DEF LiveOf
    <3>7. n + logouts[u] <= 1 + overlaps[u] /\ n \in Nat
      BY <3>1, <3>4 DEF Conserved
    <3> HIDE DEF n, m
    <3>8. m + logouts'[u] <= 1 + overlaps'[u]
      BY <2>2, <3>5, <3>6, <3>7
    <3>9. Conserved(u)'
      BY <3>8 DEF Conserved, m
    <3> QED BY <1>3, <2>1, <2>4, <3>9 DEF TokenInv
  <2> QED BY <2>3, <2>4
<1> QED BY <1>4, <1>5, <1>6, <1>7 DEF AccessInv, TokensInv

\* Logouts and expiries keep the invariant.
LEMMA EndKeeps ==
    ASSUME AccessInv, NEW t \in Tokens, UNCHANGED roleVars, Logout(t) \/ ExpireToken(t)
    PROVE  AccessInv'
<1>1. CASE Logout(t)
  BY <1>1, TokenEnds DEF Logout, roleVars
<1>2. CASE ExpireToken(t)
  BY <1>2, TokenEnds DEF ExpireToken, roleVars
<1> QED BY <1>1, <1>2

-----------------------------------------------------------------------------
\* Every step keeps the invariant.
LEMMA NextAccessInv == AccessInv /\ [AccessNext]_accessVars => AccessInv'
<1>1. ASSUME AccessInv, RoleStep PROVE AccessInv'
  BY <1>1, RoleStepKeeps
<1>2. ASSUME AccessInv, SessionStep PROVE AccessInv'
  BY <1>2, GrantKeeps, LoginKeeps, BootstrapKeeps, RefreshKeeps, IssueKeeps, RotationKeeps,
     EndKeeps DEF SessionStep
<1>3. ASSUME AccessInv, UNCHANGED accessVars PROVE AccessInv'
  <2>1. AccessTypeOK' /\ EditorsInv' /\ ClientsInv'
    BY <1>3 DEF accessVars, AccessInv, AccessTypeOK, EditorsInv, SystemRolesIntact, OneEdit,
       ClientsInv, ClientInv
  <2> QED BY <1>3, <2>1, SameSessions DEF accessVars, AccessInv
<1> QED BY <1>1, <1>2, <1>3 DEF AccessNext

\* The invariant the theorems below rest on holds in every state.
THEOREM AccessInvHolds == AccessSpec => []AccessInv
<1> QED BY InitAccessInv, NextAccessInv, PTL DEF AccessSpec

\* The types of roles, edits, grants, sessions and requests; who is deleted
\* has no rows and no grants (role.service.ts).
THEOREM AccessTypeHolds == AccessSpec => []AccessTypeOK
<1>1. AccessInv => AccessTypeOK
  BY DEF AccessInv
<1> QED BY <1>1, AccessInvHolds, PTL

\* The seeded roles keep their seeded permissions, whatever is edited and
\* deleted at once (role.service.ts: the guards on is_system).
THEOREM SystemRolesHold == AccessSpec => []SystemRolesIntact
<1>1. AccessInv => SystemRolesIntact
  BY DEF AccessInv, EditorsInv
<1> QED BY <1>1, AccessInvHolds, PTL

\* A role has the permissions of one edit and of those committed beside
\* another (updateRole: the list is deleted and written in one transaction).
THEOREM PermissionsOfOneEditHolds == AccessSpec => []PermissionsOfOneEdit
<1>1. ASSUME AccessInv, NEW r \in RoleIds PROVE Cardinality(perms[r] \ mixed) <= 1
  <2>1. OneEdit(r)
    BY <1>1 DEF AccessInv, EditorsInv
  <2>2. CASE perms[r] \ mixed = {}
    BY <2>2, FS_EmptySet
  <2>3. CASE perms[r] \ mixed # {}
    <3>1. PICK x \in perms[r] \ mixed : TRUE
      BY <2>3
    <3>2. perms[r] \ mixed = {x}
      BY <2>1, <3>1 DEF OneEdit
    <3>3. Cardinality({x}) = 1
      BY FS_Singleton
    <3> QED BY <3>2, <3>3
  <2> QED BY <2>2, <2>3
<1>2. AccessInv => PermissionsOfOneEdit
  BY <1>1 DEF PermissionsOfOneEdit
<1> QED BY <1>2, AccessInvHolds, PTL

\* However refreshes, logouts and logins overlap, a login has one live
\* refresh token and one more per overlap (session.ts: rotateSession).
THEOREM SessionsConservedHolds == AccessSpec => []SessionsConserved
<1>1. AccessInv => SessionsConserved
  BY DEF AccessInv, TokensInv, TokenInv, Conserved, SessionsConserved
<1> QED BY <1>1, AccessInvHolds, PTL

\* A token carries only roles held while its request ran (session.ts: the
\* roles are read before or inside what writes the session).
THEOREM RolesHeldMeanwhileHolds == AccessSpec => []RolesHeldMeanwhile
<1>1. AccessInv => RolesHeldMeanwhile
  BY DEF AccessInv, ClientsInv, ClientInv, RolesHeldMeanwhile
<1> QED BY <1>1, AccessInvHolds, PTL

-----------------------------------------------------------------------------
\* Permissions

\* The last of some places in a list is one of them.
LEMMA LastPlace ==
    ASSUME NEW n \in Nat, NEW K, K \subseteq 1 .. n, K # {}
    PROVE  Max(K) \in K
<1> DEFINE Behind == {m \in Nat : \E k \in K : m = n - k}
<1>1. Behind \subseteq Nat /\ Behind # {}
  <2>1. PICK k \in K : TRUE
    OBVIOUS
  <2>2. n - k \in Nat
    BY <2>1
  <2> QED BY <2>1, <2>2
<1> HIDE DEF Behind
<1>2. \E m \in Behind : \A j \in Behind : ~(<<j, m>> \in OpToRel(<, Nat))
  BY <1>1, WFMin, NatLessThanWellFounded, Zenon
<1>3. PICK m \in Behind : \A j \in Behind : ~(<<j, m>> \in OpToRel(<, Nat))
  BY <1>2
<1>4. \A j \in Behind : m <= j
  <2>1. \A j \in Behind : ~(j < m)
    BY <1>1, <1>3 DEF OpToRel
  <2> QED BY <1>1, <2>1
<1>5. PICK k \in K : m = n - k
  BY <1>3 DEF Behind
<1>6. ASSUME NEW j \in K PROVE k >= j
  <2>1. n - j \in Nat /\ n - j \in Behind
    BY DEF Behind
  <2>2. m <= n - j /\ m = n - k /\ k \in Nat /\ j \in Nat
    BY <1>4, <1>5, <2>1
  <2> QED BY <2>2
<1> QED BY <1>6 DEF Max

\* Two sets of rules match what one of them matches.
LEMMA MatchOfUnion ==
    ASSUME NEW A, NEW B, NEW a, NEW s
    PROVE  Match(A \cup B, a, s) <=> Match(A, a, s) \/ Match(B, a, s)
<1> QED BY DEF Match

\* By the static rules a session may do what one of its roles can, unless
\* another one denies it.
LEMMA StaticDecides ==
    ASSUME NEW roles, roles \in Seq(Range(roles)), NEW a, NEW s
    PROVE  /\ StaticAllows(roles, a, s) =>
                 \E p \in Range(roles) : Match(Can(p), a, s)
           /\ ~StaticAllows(roles, a, s) =>
                 \/ \A p \in Range(roles) : ~Match(Can(p), a, s)
                 \/ \E p \in Range(roles) : Match(Cannot(p), a, s)
<1> DEFINE K == {i \in 1 .. Len(roles) : Match(Can(roles[i]) \cup Cannot(roles[i]), a, s)}
<1>1. Len(roles) \in Nat /\ DOMAIN roles = 1 .. Len(roles)
  OBVIOUS
<1>2. Range(roles) = {roles[i] : i \in 1 .. Len(roles)}
  BY <1>1 DEF Range
<1>3. StaticAllows(roles, a, s) <=>
         LET k == IF K # {} THEN Max(K) ELSE 0 IN k # 0 /\ ~Match(Cannot(roles[k]), a, s)
  BY Zenon DEF StaticAllows, SelectLastInSeq
<1>4. K \subseteq 1 .. Len(roles)
  OBVIOUS
<1>5. ASSUME NEW i \in K
      PROVE  roles[i] \in Range(roles)
             /\ (Match(Can(roles[i]), a, s) \/ Match(Cannot(roles[i]), a, s))
  BY <1>2, <1>5, MatchOfUnion
<1>6. ASSUME NEW p \in Range(roles), Match(Can(p), a, s) PROVE K # {}
  <2>1. PICK i \in 1 .. Len(roles) : roles[i] = p
    BY <1>2
  <2>2. i \in K
    BY <1>6, <2>1, MatchOfUnion
  <2> QED BY <2>2
<1> HIDE DEF K
<1>7. CASE K = {}
  BY <1>3, <1>6, <1>7
<1>8. CASE K # {}
  <2>1. PICK k \in K : k = Max(K)
    BY <1>1, <1>4, <1>8, LastPlace
  <2>2. k # 0
    BY <1>1, <1>4
  <2>3. StaticAllows(roles, a, s) <=> ~Match(Cannot(roles[k]), a, s)
    BY <1>3, <1>8, <2>1, <2>2
  <2> QED BY <1>5, <2>3
<1> QED BY <1>7, <1>8

\* The other way round a list has the same roles.
LEMMA TurnedRoles ==
    ASSUME NEW roles, roles \in Seq(Range(roles))
    PROVE  Range(Reverse(roles)) = Range(roles) /\ Reverse(roles) \in Seq(Range(Reverse(roles)))
<1> DEFINE n == Len(roles)
<1>1. n \in Nat /\ DOMAIN roles = 1 .. n
  OBVIOUS
<1>2. Reverse(roles) = [i \in 1 .. n |-> roles[(n - i) + 1]]
  BY Zenon DEF Reverse
<1>3. \A i \in 1 .. n : (n - i) + 1 \in 1 .. n /\ (n - ((n - i) + 1)) + 1 = i
  BY <1>1
<1> HIDE DEF n
<1>4. DOMAIN Reverse(roles) = 1 .. n /\ \A i \in 1 .. n : Reverse(roles)[i] = roles[(n - i) + 1]
  BY <1>2
<1>5. ASSUME NEW p \in Range(Reverse(roles)) PROVE p \in Range(roles)
  BY <1>1, <1>3, <1>4 DEF Range
<1>6. ASSUME NEW p \in Range(roles) PROVE p \in Range(Reverse(roles))
  <2>1. PICK i \in 1 .. n : p = roles[i]
    BY <1>1 DEF Range
  <2>2. Reverse(roles)[(n - i) + 1] = roles[i] /\ (n - i) + 1 \in 1 .. n
    BY <1>3, <1>4
  <2> QED BY <1>4, <2>1, <2>2 DEF Range
<1>7. Range(Reverse(roles)) = Range(roles)
  BY <1>5, <1>6
<1>8. Reverse(roles) \in [1 .. n -> Range(roles)]
  <2>1. \A i \in 1 .. n : roles[(n - i) + 1] \in Range(roles)
    BY <1>1, <1>3 DEF Range
  <2> QED BY <1>2, <2>1
<1>9. Reverse(roles) \in Seq(Range(roles))
  BY <1>1, <1>8
<1> QED BY <1>7, <1>9

\* What is denied is denied to an editor, and concerns tokens, roles or
\* permissions; of the static roles only a super-admin can do it.
LEMMA DeniedSubjects ==
    ASSUME NEW p, NEW a \in Actions, NEW s \in Subjects, Match(Cannot(p), a, s)
    PROVE  p = "editor" /\ s \in {"ApiToken", "Role", "Permission"}
<1>1. p = "editor" /\ Cannot(p) = {"manage"} \X {"ApiToken", "Role", "Permission"}
  BY DEF Match, Cannot
<1>2. PICK r \in {"manage"} \X {"ApiToken", "Role", "Permission"} : r[2] \in {s, "all"}
  BY <1>1 DEF Match
<1>3. r[2] \in {"ApiToken", "Role", "Permission"}
  BY <1>2
<1> QED BY <1>1, <1>2, <1>3

LEMMA OnlySuperAdmin ==
    ASSUME NEW p, NEW a \in Actions, NEW s \in {"ApiToken", "Role", "Permission"},
           Match(Can(p), a, s)
    PROVE  p = "super-admin"
<1>1. PICK r \in Can(p) : r[2] \in {s, "all"}
  BY DEF Match
<1>2. p = "editor" => r[2] \in {"Form", "FormVersion", "Submission", "AuditLog", "FormEvent",
                                "Webhook", "FormTemplate"}
  <2> SUFFICES ASSUME p = "editor"
               PROVE  r[2] \in {"Form", "FormVersion", "Submission", "AuditLog", "FormEvent",
                                "Webhook", "FormTemplate"}
    OBVIOUS
  <2>1. r \in ({"create", "read", "update", "delete", "publish"} \X {"Form", "FormVersion"})
              \cup {<<"read", "Submission">>, <<"delete", "Submission">>, <<"read", "AuditLog">>}
              \cup ({"manage"} \X {"FormEvent", "Webhook", "FormTemplate"})
    BY <1>1 DEF Can
  <2> QED BY <2>1
<1>3. p = "viewer" => r[2] \in {"Form", "FormVersion", "FormTemplate", "Submission"}
  <2> SUFFICES ASSUME p = "viewer"
               PROVE  r[2] \in {"Form", "FormVersion", "FormTemplate", "Submission"}
    OBVIOUS
  <2>1. r \in {"read"} \X {"Form", "FormVersion", "FormTemplate", "Submission"}
    BY <1>1 DEF Can
  <2> QED BY <2>1
<1>4. p \in {"super-admin", "editor", "viewer"}
  BY <1>1 DEF Can
<1> QED BY <1>1, <1>2, <1>3, <1>4

\* What the roles may do without the database they may do with it, whatever
\* rows it has.
LEMMA WithDatabaseToo ==
    ASSUME NEW roles, roles \in Seq(Range(roles)), NEW rows, NEW a, NEW s,
           Allows(roles, rows, FALSE, a, s)
    PROVE  Allows(roles, rows, TRUE, a, s)
<1>1. StaticAllows(roles, a, s)
  BY DEF Allows
<1>2. PICK p \in Range(roles) : Match(Can(p), a, s)
  BY <1>1, StaticDecides
<1>3. RowsAllow(roles, rows, a, s)
  BY <1>2 DEF RowsAllow, Match
<1> QED BY <1>1, <1>3 DEF Allows, DbAllows

\* When the order of the roles makes a difference, the static rules have been
\* asked for what an editor is denied and a super-admin can do.
LEMMA OrderOfDenials ==
    ASSUME NEW roles, roles \in Seq(Range(roles)), NEW rows, NEW reachable \in BOOLEAN,
           NEW a \in Actions, NEW s \in Subjects,
           Allows(roles, rows, reachable, a, s) # Allows(Reverse(roles), rows, reachable, a, s)
    PROVE  /\ s \in {"ApiToken", "Role", "Permission"}
           /\ {"super-admin", "editor"} \subseteq Range(roles)
           /\ ~reachable \/ \A r \in Range(roles) : rows[r] = {}
<1>1. PICK turned : turned = Reverse(roles)
  OBVIOUS
<1>2. Range(turned) = Range(roles) /\ turned \in Seq(Range(turned))
  BY <1>1, TurnedRoles
<1>3. RowsAllow(roles, rows, a, s) <=> RowsAllow(turned, rows, a, s)
  BY <1>2 DEF RowsAllow
<1>4. ~reachable \/ \A r \in Range(roles) : rows[r] = {}
  <2> SUFFICES ASSUME reachable, ~\A r \in Range(roles) : rows[r] = {}
               PROVE  FALSE
    OBVIOUS
  <2>1. Allows(roles, rows, reachable, a, s) = RowsAllow(roles, rows, a, s)
    BY DEF Allows, DbAllows
  <2>2. Allows(turned, rows, reachable, a, s) = RowsAllow(turned, rows, a, s)
    BY <1>2 DEF Allows, DbAllows
  <2>3. RowsAllow(roles, rows, a, s) = RowsAllow(turned, rows, a, s)
    BY <1>2 DEF RowsAllow
  <2> QED BY <1>1, <2>1, <2>2, <2>3
<1>5. ~(StaticAllows(roles, a, s) <=> StaticAllows(turned, a, s))
  <2>1. Allows(roles, rows, reachable, a, s) = StaticAllows(roles, a, s)
    BY <1>4 DEF Allows, DbAllows
  <2>2. Allows(turned, rows, reachable, a, s) = StaticAllows(turned, a, s)
    BY <1>2, <1>4 DEF Allows, DbAllows
  <2>3. StaticAllows(roles, a, s) \in BOOLEAN /\ StaticAllows(turned, a, s) \in BOOLEAN
    BY DEF StaticAllows
  <2> QED BY <1>1, <2>1, <2>2, <2>3
<1>6. \E p, q \in Range(roles) : Match(Can(p), a, s) /\ Match(Cannot(q), a, s)
  <2>1. CASE StaticAllows(roles, a, s)
    <3>1. \E p \in Range(roles) : Match(Can(p), a, s)
      BY <2>1, StaticDecides
    <3>2. \/ \A p \in Range(turned) : ~Match(Can(p), a, s)
          \/ \E p \in Range(turned) : Match(Cannot(p), a, s)
      BY <1>2, <1>5, <2>1, StaticDecides
    <3> QED BY <1>2, <3>1, <3>2
  <2>2. CASE StaticAllows(turned, a, s)
    <3>1. \E p \in Range(turned) : Match(Can(p), a, s)
      BY <1>2, <2>2, StaticDecides
    <3>2. \/ \A p \in Range(roles) : ~Match(Can(p), a, s)
          \/ \E p \in Range(roles) : Match(Cannot(p), a, s)
      BY <1>5, <2>2, StaticDecides
    <3> QED BY <1>2, <3>1, <3>2
  <2> QED BY <1>5, <2>1, <2>2
<1>7. PICK p \in Range(roles), q \in Range(roles) : Match(Can(p), a, s) /\ Match(Cannot(q), a, s)
  BY <1>6
<1>8. q = "editor" /\ s \in {"ApiToken", "Role", "Permission"}
  BY <1>7, DeniedSubjects
<1>9. p = "super-admin"
  BY <1>7, <1>8, OnlySuperAdmin
<1> QED BY <1>4, <1>7, <1>8, <1>9

\* A session without roles, or one of the lists.
RolesAreLists == grant.roles \in Seq(Range(grant.roles))

LEMMA RolesAreListsHolds == Spec => []RolesAreLists
<1>1. Init => RolesAreLists
  <2>1. <<>> \in Seq(Range(<<>>))
    OBVIOUS
  <2>2. NoGrant.roles = <<>>
    BY DEF NoGrant
  <2>3. PermissionsInit => RolesAreLists
    BY PermissionsAssumption DEF PermissionsInit, PermissionsAssumption, RolesAreLists
  <2>4. grant = NoGrant => RolesAreLists
    BY <2>1, <2>2 DEF RolesAreLists
  <2> QED BY <2>3, <2>4 DEF Init
<1>2. RolesAreLists /\ [Next]_adminVars => RolesAreLists'
  BY DEF Next, adminVars, RolesAreLists
<1> QED BY <1>1, <1>2, PTL DEF Spec

\* While the database is out of reach a session may do no more than otherwise,
\* whichever its roles and their rows (rbac.ts: getAbility falls back to the
\* static rules, and the rows only add to them).
THEOREM OutageOpensNothingHolds == Spec => []OutageOpensNothing
<1>1. RolesAreLists => OutageOpensNothing
  BY WithDatabaseToo DEF RolesAreLists, OutageOpensNothing
<1> QED BY <1>1, RolesAreListsHolds, PTL

\* The order of a session's roles matters to what an editor is denied and a
\* super-admin can do, and only where no role has rows (rbac.ts:
\* buildStaticAbility, buildAbilityWithDbPermissions).
THEOREM OnlyDenialsDependOnOrderHolds == Spec => []OnlyDenialsDependOnOrder
<1>1. RolesAreLists => OnlyDenialsDependOnOrder
  BY OrderOfDenials DEF RolesAreLists, OnlyDenialsDependOnOrder
<1> QED BY <1>1, RolesAreListsHolds, PTL

=============================================================================
