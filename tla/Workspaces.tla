----------------------------- MODULE Workspaces -----------------------------
(***************************************************************************)
(* Membership of one workspace: WorkspaceService of                        *)
(* core/workspaces/workspace.service.ts.                                   *)
(*                                                                         *)
(* Every operation but addMember first reads, decides, and then writes in  *)
(* statements that no transaction joins to the reads.  A caller is a       *)
(* request in the middle of such an operation; it remembers what it read.  *)
(* stale says whether somebody else has committed since, and is known to   *)
(* the properties only.                                                    *)
(***************************************************************************)
EXTENDS Naturals, FiniteSets

CONSTANTS
    Accounts,     \* account subs
    Roles,        \* WorkspaceRole: owner, admin, editor, viewer
    Invitations,  \* tokens that createInvitation may hand out
    Callers,      \* requests that overlap
    NoAccount, NoInvitation

ASSUME WorkspaceAssumption ==
    /\ {"owner", "admin"} \subseteq Roles
    /\ "none" \notin Roles
    /\ NoAccount \notin Accounts
    /\ NoInvitation \notin Invitations

VARIABLES
    workspace,   \* the row: none, active or archived
    member,      \* workspace_members, by account (primary key)
    invitation,  \* workspace_invitations, by token hash (unique)
    call,        \* what each caller is in the middle of
    admitted     \* whom an invitation has let in

wsVars == <<workspace, member, invitation, call, admitted>>

-----------------------------------------------------------------------------
\* last is what count said: at most one owner; owners is what findMany found.
Call == [step : {"idle", "create", "counted", "remove", "transfer", "accept"},
         who : Accounts \cup {NoAccount}, last : BOOLEAN,
         owners : SUBSET Accounts, token : Invitations \cup {NoInvitation},
         stale : BOOLEAN]

NoCall == [step |-> "idle", who |-> NoAccount, last |-> FALSE, owners |-> {},
           token |-> NoInvitation, stale |-> FALSE]

Invitation == [state : {"none", "open", "expired", "accepted"}, role : Roles]

\* Rows are what the schema and the service can write.
WsTypeOK ==
    /\ workspace \in {"none", "active", "archived"}
    /\ member \in [Accounts -> Roles \cup {"none"}]
    /\ invitation \in [Invitations -> Invitation]
    /\ call \in [Callers -> Call]
    /\ admitted \in [Invitations -> SUBSET Accounts]
    /\ \A i \in Invitations : admitted[i] # {} => invitation[i].state = "accepted"

Owners == {a \in Accounts : member[a] = "owner"}

CallAt(c, step) == call[c].step = step

Begin(c, r) == call' = [call EXCEPT ![c] = r]

\* c is through; what the others have read is stale if it has written.
End(c) == call' = [call EXCEPT ![c] = NoCall]

EndWriting(c) ==
    call' = [d \in Callers |->
                IF d = c \/ CallAt(d, "idle") THEN NoCall
                ELSE [call[d] EXCEPT !.stale = TRUE]]

WriteStale ==
    call' = [d \in Callers |->
                IF CallAt(d, "idle") THEN call[d] ELSE [call[d] EXCEPT !.stale = TRUE]]

-----------------------------------------------------------------------------
\* createWorkspace: the slug is free, and then its row and the first owner.
ReadSlug(c, a) ==
    /\ CallAt(c, "idle") /\ workspace = "none"
    /\ Begin(c, [NoCall EXCEPT !.step = "create", !.who = a])
    /\ UNCHANGED <<workspace, member, invitation, admitted>>

CreateWorkspace(c) ==
    /\ CallAt(c, "create")
    /\ workspace = "none"
    /\ workspace' = "active"
    /\ member' = [member EXCEPT ![call[c].who] = "owner"]
    /\ EndWriting(c)
    /\ UNCHANGED <<invitation, admitted>>

\* The unique index on the slug refuses the second.
SlugTaken(c) ==
    /\ CallAt(c, "create")
    /\ workspace # "none"
    /\ End(c)
    /\ UNCHANGED <<workspace, member, invitation, admitted>>

AddMember(a, r) ==
    /\ workspace # "none"
    /\ member' = [member EXCEPT ![a] = r]
    /\ WriteStale
    /\ UNCHANGED <<workspace, invitation, admitted>>

\* Mutant: the count is compared with 0.
CountOwnersMutant(c, a) ==
    /\ CallAt(c, "idle") /\ workspace # "none"
    /\ Begin(c, [NoCall EXCEPT !.step = "counted", !.who = a,
                               !.last = Cardinality(Owners) <= 0])
    /\ UNCHANGED <<workspace, member, invitation, admitted>>

\* removeMember: the owners are counted, the member is read, the row deleted.
CountOwners(c, a) ==
    /\ CallAt(c, "idle") /\ workspace # "none"
    /\ Begin(c, [NoCall EXCEPT !.step = "counted", !.who = a,
                               !.last = Cardinality(Owners) <= 1])
    /\ UNCHANGED <<workspace, member, invitation, admitted>>

MayRemove(c) ==
    /\ member[call[c].who] # "none"
    /\ ~(member[call[c].who] = "owner" /\ call[c].last)

CheckMember(c) ==
    /\ CallAt(c, "counted")
    /\ IF MayRemove(c) THEN call' = [call EXCEPT ![c].step = "remove"] ELSE End(c)
    /\ UNCHANGED <<workspace, member, invitation, admitted>>

RemoveMember(c) ==
    /\ CallAt(c, "remove")
    /\ IF member[call[c].who] = "none" THEN End(c) ELSE EndWriting(c)
    /\ member' = [member EXCEPT ![call[c].who] = "none"]
    /\ UNCHANGED <<workspace, invitation, admitted>>

\* transferOwnership: the owners and the new one are read, and then updated
\* in one transaction, which a row that is gone rolls back.
ReadOwners(c, a) ==
    /\ CallAt(c, "idle") /\ workspace # "none"
    /\ member[a] # "none"
    /\ Begin(c, [NoCall EXCEPT !.step = "transfer", !.who = a, !.owners = Owners])
    /\ UNCHANGED <<workspace, member, invitation, admitted>>

TransferOwnership(c) ==
    LET new == call[c].who
        rows == call[c].owners \cup {new}
    IN  /\ CallAt(c, "transfer")
        /\ \A a \in rows : member[a] # "none"
        /\ member' = [a \in Accounts |-> IF a = new THEN "owner"
                                         ELSE IF a \in rows THEN "admin" ELSE member[a]]
        /\ EndWriting(c)
        /\ UNCHANGED <<workspace, invitation, admitted>>

TransferRollsBack(c) ==
    /\ CallAt(c, "transfer")
    /\ \E a \in call[c].owners \cup {call[c].who} : member[a] = "none"
    /\ End(c)
    /\ UNCHANGED <<workspace, member, invitation, admitted>>

ArchiveWorkspace ==
    /\ workspace # "none"
    /\ workspace' = "archived"
    /\ UNCHANGED <<member, invitation, call, admitted>>

-----------------------------------------------------------------------------
\* Invitations

CreateInvitation(i, r) ==
    /\ workspace # "none"
    /\ invitation[i].state = "none"
    /\ invitation' = [invitation EXCEPT ![i] = [state |-> "open", role |-> r]]
    /\ UNCHANGED <<workspace, member, call, admitted>>

\* Seven days pass.
Expire(i) ==
    /\ invitation[i].state = "open"
    /\ invitation' = [invitation EXCEPT ![i].state = "expired"]
    /\ UNCHANGED <<workspace, member, call, admitted>>

\* Mutant: acceptedAt is not looked at.
ReadInvitationMutant(c, i, a) ==
    /\ CallAt(c, "idle")
    /\ invitation[i].state \in {"open", "accepted"}
    /\ Begin(c, [NoCall EXCEPT !.step = "accept", !.who = a, !.token = i])
    /\ UNCHANGED <<workspace, member, invitation, admitted>>

ReadInvitation(c, i, a) ==
    /\ CallAt(c, "idle")
    /\ invitation[i].state = "open"
    /\ Begin(c, [NoCall EXCEPT !.step = "accept", !.who = a, !.token = i])
    /\ UNCHANGED <<workspace, member, invitation, admitted>>

AcceptInvitation(c) ==
    LET i == call[c].token IN
    /\ CallAt(c, "accept")
    /\ member' = [member EXCEPT ![call[c].who] = invitation[i].role]
    /\ invitation' = [invitation EXCEPT ![i].state = "accepted"]
    /\ admitted' = [admitted EXCEPT ![i] = @ \cup {call[c].who}]
    /\ EndWriting(c)
    /\ UNCHANGED workspace

-----------------------------------------------------------------------------
WsInit ==
    /\ workspace = "none"
    /\ member = [a \in Accounts |-> "none"]
    /\ invitation = [i \in Invitations |-> [state |-> "none", role |-> "admin"]]
    /\ call = [c \in Callers |-> NoCall]
    /\ admitted = [i \in Invitations |-> {}]

WsNext ==
    \/ \E c \in Callers, a \in Accounts :
         \/ ReadSlug(c, a) \/ CountOwners(c, a) \/ ReadOwners(c, a)
         \/ \E i \in Invitations : ReadInvitation(c, i, a)
    \/ \E c \in Callers :
         \/ CreateWorkspace(c) \/ SlugTaken(c) \/ CheckMember(c) \/ RemoveMember(c)
         \/ TransferOwnership(c) \/ TransferRollsBack(c) \/ AcceptInvitation(c)
    \/ \E a \in Accounts, r \in Roles : AddMember(a, r)
    \/ \E i \in Invitations : Expire(i) \/ \E r \in Roles : CreateInvitation(i, r)
    \/ ArchiveWorkspace

WsSpec == WsInit /\ [][WsNext]_wsVars

-----------------------------------------------------------------------------
\* A removal or a transfer that nobody has written beside leaves an owner, and
\* a transfer no other than the new one: the checks are right, and only their
\* distance from the write can lose the last owner, or keep an old one.
OwnerRemains ==
    [][\A c \in Callers : ~call[c].stale =>
          /\ RemoveMember(c) /\ Owners # {} => Owners' # {}
          /\ TransferOwnership(c) => Owners' = {call[c].who}]_wsVars

\* An acceptance that nobody has written beside is the first of its invitation.
InvitationUsedOnce ==
    [][\A c \in Callers :
          AcceptInvitation(c) /\ ~call[c].stale => admitted[call[c].token] = {}]_wsVars

=============================================================================
