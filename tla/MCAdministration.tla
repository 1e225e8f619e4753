--------------------------- MODULE MCAdministration ---------------------------
(***************************************************************************)
(* What admins do, for TLC: the members of a workspace, its plan, the      *)
(* roles and the sessions, and the versions of a form.  No code couples    *)
(* them, so a behaviour moves one of them, the one that subject names;     *)
(* checking them in one run is checking each.  Accounts are                *)
(* interchangeable.                                                        *)
(***************************************************************************)
EXTENDS Workspaces, Billing, Access, Permissions, FormVersions, TLC

VARIABLE subject

adminVars == <<wsVars, billVars, accessVars, versionVars, grant, subject>>

-----------------------------------------------------------------------------
\* Sessions with up to three roles, and rows for each of them or none.
SessionRoles == {"super-admin", "editor", "viewer", "custom"}

MCRoleLists == {l \in UNION {[1 .. n -> SessionRoles] : n \in 0 .. 3} : IsInjective(l)}

MCRowSets == [SessionRoles -> {{}, {<<"update", "Role">>}, {<<"manage", "Form">>}}]

NoGrant == [roles |-> <<>>, rows |-> [r \in SessionRoles |-> {}]]

-----------------------------------------------------------------------------

Init ==
    /\ subject \in {"members", "plan", "roles", "sessions", "permissions", "versions"}
    /\ WsInit /\ BillInit /\ AccessInit /\ VersionsInit
    /\ bootstrap => subject = "sessions"
    /\ current # 0 => subject = "versions"
    /\ IF subject = "permissions" THEN PermissionsInit ELSE grant = NoGrant

Next ==
    /\ \/ /\ subject = "members" /\ WsNext
          /\ UNCHANGED <<billVars, accessVars, versionVars>>
       \/ /\ subject = "plan" /\ BillNext
          /\ UNCHANGED <<wsVars, accessVars, versionVars>>
       \/ /\ subject = "roles" /\ RoleStep
          /\ UNCHANGED <<wsVars, billVars, versionVars>>
       \/ /\ subject = "sessions" /\ SessionStep
          /\ UNCHANGED <<wsVars, billVars, versionVars>>
       \/ /\ subject = "versions" /\ VersionsNext
          /\ UNCHANGED <<wsVars, billVars, accessVars>>
    /\ UNCHANGED <<grant, subject>>

Spec == Init /\ [][Next]_adminVars

AdminSymmetry == Permutations(Accounts)

\* Ids that nothing tells apart are used in their order.
UsedInOrder(ids, used) == \A i, j \in ids : i < j /\ j \in used => i \in used

InOrder ==
    /\ UsedInOrder(Tokens, {t \in Tokens : session[t].state # "none"})
    /\ UsedInOrder(Customers, minted)

=============================================================================
