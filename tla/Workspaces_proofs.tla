--------------------------- MODULE Workspaces_proofs ---------------------------
(***************************************************************************)
(* Proofs about Workspaces, for any number of accounts, invitations and    *)
(* overlapping requests.                                                   *)
(*                                                                         *)
(* The properties speak of requests that nobody has written beside.        *)
(* FreshReads says what such a request still knows when it writes: the     *)
(* owners it counted or found are the owners, the member it has checked    *)
(* may be removed, the invitation it read has let nobody in.               *)
(***************************************************************************)
EXTENDS Workspaces, FiniteSetTheorems, TLAPS

FreshRead(c) ==
    ~call[c].stale =>
        /\ call[c].step \in {"counted", "remove"} => call[c].last = (Cardinality(Owners) <= 1)
        /\ call[c].step = "remove" => MayRemove(c)
        /\ call[c].step = "transfer" => call[c].owners = Owners
        /\ call[c].step = "accept" => admitted[call[c].token] = {}

FreshReads == \A c \in Callers : FreshRead(c)

\* What a request has in its hands at each of its steps.
InHand(c) ==
    /\ call[c].step # "idle" => call[c].who \in Accounts
    /\ call[c].step = "accept" => call[c].token \in Invitations

InHands == \A c \in Callers : InHand(c)

WsInv == WsTypeOK /\ InHands /\ FreshReads

-----------------------------------------------------------------------------
\* An idle request is typed, and has nothing in its hands.
LEMMA NoCallTyped == NoCall \in Call
BY WorkspaceAssumption DEF NoCall, Call

\* A step that only begins, continues or ends one request, and leaves the
\* tables alone, keeps the invariant if that request is right afterwards.
LEMMA OneCallMoves ==
    ASSUME WsInv, NEW c \in Callers, NEW k \in Call,
           call' = [call EXCEPT ![c] = k],
           UNCHANGED <<workspace, member, invitation, admitted>>,
           InHand(c)', FreshRead(c)'
    PROVE  WsInv'
<1>1. call' \in [Callers -> Call] /\ \A d \in Callers \ {c} : call'[d] = call[d]
  BY DEF WsInv, WsTypeOK
<1>2. WsTypeOK'
  BY <1>1 DEF WsInv, WsTypeOK
<1>3. ASSUME NEW d \in Callers \ {c} PROVE InHand(d)' /\ FreshRead(d)'
  BY <1>1, <1>3 DEF WsInv, InHands, InHand, FreshReads, FreshRead, MayRemove, Owners
<1> QED BY <1>2, <1>3 DEF WsInv, InHands, FreshReads

\* A request that ends has nothing to be right about.
LEMMA EndKeeps ==
    ASSUME WsInv, NEW c \in Callers, End(c),
           UNCHANGED <<workspace, member, invitation, admitted>>
    PROVE  WsInv'
<1>1. call'[c] = NoCall
  BY DEF End, WsInv, WsTypeOK
<1>2. InHand(c)' /\ FreshRead(c)'
  BY <1>1 DEF InHand, FreshRead, NoCall
<1> QED BY <1>2, NoCallTyped, OneCallMoves DEF End

\* After a write every request in progress is stale, and has in its hands
\* what it had.
LEMMA WriteKeeps ==
    ASSUME WsInv, WsTypeOK',
           \A d \in Callers : \/ call'[d] = NoCall
                              \/ call'[d] = [call[d] EXCEPT !.stale = TRUE]
    PROVE  WsInv'
<1>1. ASSUME NEW d \in Callers PROVE InHand(d)' /\ FreshRead(d)'
  <2>1. CASE call'[d] = NoCall
    BY <2>1 DEF InHand, FreshRead, NoCall
  <2>2. CASE call'[d] = [call[d] EXCEPT !.stale = TRUE]
    <3>1. call[d] \in Call
      BY DEF WsInv, WsTypeOK
    <3> QED BY <2>2, <3>1 DEF WsInv, InHands, InHand, FreshRead, Call
  <2> QED BY <1>1, <2>1, <2>2
<1> QED BY <1>1 DEF WsInv, InHands, FreshReads

\* How the calls look after a write.
LEMMA WritersAreTyped ==
    ASSUME WsTypeOK, \/ \E c \in Callers : EndWriting(c)
                     \/ WriteStale
    PROVE  /\ call' \in [Callers -> Call]
           /\ \A d \in Callers : \/ call'[d] = NoCall
                                 \/ call[d].step # "idle"
                                    /\ call'[d] = [call[d] EXCEPT !.stale = TRUE]
                                 \/ call[d].step = "idle" /\ call'[d] = call[d]
<1>1. \A d \in Callers : call[d] \in Call /\ [call[d] EXCEPT !.stale = TRUE] \in Call
  BY DEF WsTypeOK, Call
<1> QED BY <1>1, NoCallTyped DEF EndWriting, WriteStale, CallAt

-----------------------------------------------------------------------------
\* An empty database satisfies the invariant.
LEMMA InitWsInv == WsInit => WsInv
<1> SUFFICES ASSUME WsInit PROVE WsInv
  OBVIOUS
<1>1. WsTypeOK
  BY NoCallTyped, WorkspaceAssumption DEF WsInit, WsTypeOK, Invitation
<1>2. \A c \in Callers : InHand(c) /\ FreshRead(c)
  BY DEF WsInit, InHand, FreshRead, NoCall
<1> QED BY <1>1, <1>2 DEF WsInv, InHands, FreshReads

\* Creating a workspace keeps it.
LEMMA CreateKeeps ==
    ASSUME WsInv, NEW c \in Callers,
           \/ \E a \in Accounts : ReadSlug(c, a)
           \/ CreateWorkspace(c) \/ SlugTaken(c)
    PROVE  WsInv'
<1>1. ASSUME NEW a \in Accounts, ReadSlug(c, a) PROVE WsInv'
  <2> DEFINE k == [NoCall EXCEPT !.step = "create", !.who = a]
  <2>1. k \in Call /\ k.step = "create" /\ k.who = a
    BY NoCallTyped DEF Call, NoCall
  <2>2. call' = [call EXCEPT ![c] = k] /\ call'[c] = k
    BY <1>1 DEF ReadSlug, Begin, WsInv, WsTypeOK
  <2>3. InHand(c)' /\ FreshRead(c)'
    BY <2>1, <2>2 DEF InHand, FreshRead
  <2> QED BY <1>1, <2>1, <2>2, <2>3, OneCallMoves DEF ReadSlug
<1>2. CASE CreateWorkspace(c)
  <2>1. call[c].who \in Accounts
    BY <1>2 DEF CreateWorkspace, CallAt, WsInv, InHands, InHand
  <2>2. WsTypeOK'
    BY <1>2, <2>1, WritersAreTyped, WorkspaceAssumption
    DEF CreateWorkspace, WsInv, WsTypeOK
  <2>3. \A d \in Callers : \/ call'[d] = NoCall
                           \/ call'[d] = [call[d] EXCEPT !.stale = TRUE]
    BY <1>2 DEF CreateWorkspace, EndWriting
  <2> QED BY <2>2, <2>3, WriteKeeps
<1>3. CASE SlugTaken(c)
  BY <1>3, EndKeeps DEF SlugTaken
<1> QED BY <1>1, <1>2, <1>3

\* Adding a member keeps it: what others have read is stale then.
LEMMA AddKeeps ==
    ASSUME WsInv, NEW a \in Accounts, NEW r \in Roles, AddMember(a, r)
    PROVE  WsInv'
<1>1. WsTypeOK'
  BY WritersAreTyped DEF AddMember, WsInv, WsTypeOK
<1>2. ASSUME NEW d \in Callers PROVE InHand(d)' /\ FreshRead(d)'
  <2>1. CASE call[d].step = "idle"
    BY <2>1 DEF AddMember, WriteStale, CallAt, InHand, FreshRead
  <2>2. CASE call[d].step # "idle"
    <3>1. call'[d] = [call[d] EXCEPT !.stale = TRUE] /\ call[d] \in Call
      BY <2>2 DEF AddMember, WriteStale, CallAt, WsInv, WsTypeOK
    <3> QED BY <3>1 DEF WsInv, InHands, InHand, FreshRead, Call
  <2> QED BY <2>1, <2>2
<1> QED BY <1>1, <1>2 DEF WsInv, InHands, FreshReads

\* A removal keeps it: the check is right until somebody writes.
LEMMA RemoveKeeps ==
    ASSUME WsInv, NEW c \in Callers,
           \/ \E a \in Accounts : CountOwners(c, a)
           \/ CheckMember(c) \/ RemoveMember(c)
    PROVE  WsInv'
<1>1. ASSUME NEW a \in Accounts, CountOwners(c, a) PROVE WsInv'
  <2> DEFINE last == Cardinality(Owners) <= 1
             k == [NoCall EXCEPT !.step = "counted", !.who = a, !.last = last]
  <2>1. k \in Call /\ k.step = "counted" /\ k.who = a /\ k.last = last
    <3> HIDE DEF last
    <3>1. last \in BOOLEAN
      BY DEF last
    <3> QED BY <3>1, NoCallTyped DEF Call, NoCall
  <2>2. call' = [call EXCEPT ![c] = k] /\ call'[c] = k
    BY <1>1 DEF CountOwners, Begin, WsInv, WsTypeOK
  <2>3. Owners' = Owners
    BY <1>1 DEF CountOwners, Owners
  <2>4. InHand(c)' /\ FreshRead(c)'
    BY <2>1, <2>2, <2>3 DEF InHand, FreshRead
  <2> QED BY <1>1, <2>1, <2>2, <2>4, OneCallMoves DEF CountOwners
<1>2. CASE CheckMember(c)
  <2>1. CASE MayRemove(c)
    <3> DEFINE k == [call[c] EXCEPT !.step = "remove"]
    <3>1. call[c] \in Call /\ call[c].step = "counted"
      BY <1>2 DEF CheckMember, CallAt, WsInv, WsTypeOK
    <3>2. /\ k \in Call /\ k.step = "remove" /\ k.who = call[c].who
          /\ k.last = call[c].last /\ k.stale = call[c].stale
      BY <3>1 DEF Call
    <3>3. call' = [call EXCEPT ![c] = k] /\ call'[c] = k
      BY <1>2, <2>1 DEF CheckMember, WsInv, WsTypeOK
    <3>4. Owners' = Owners /\ MayRemove(c)'
      BY <1>2, <2>1, <3>2, <3>3 DEF CheckMember, Owners, MayRemove
    <3>5. InHand(c)' /\ FreshRead(c)'
      BY <3>1, <3>2, <3>3, <3>4 DEF InHand, FreshRead, WsInv, InHands, FreshReads
    <3> QED BY <1>2, <3>2, <3>3, <3>5, OneCallMoves DEF CheckMember
  <2>2. CASE ~MayRemove(c)
    BY <1>2, <2>2, EndKeeps DEF CheckMember
  <2> QED BY <2>1, <2>2
<1>3. CASE RemoveMember(c)
  <2>1. call[c].who \in Accounts
    BY <1>3 DEF RemoveMember, CallAt, WsInv, InHands, InHand
  <2>2. CASE member[call[c].who] = "none"
    <3>1. member' = member
      BY <1>3, <2>1, <2>2 DEF RemoveMember, WsInv, WsTypeOK
    <3> QED BY <1>3, <2>2, <3>1, EndKeeps DEF RemoveMember
  <2>3. CASE member[call[c].who] # "none"
    <3>1. EndWriting(c)
      BY <1>3, <2>3 DEF RemoveMember
    <3>2. WsTypeOK'
      BY <1>3, <2>1, <3>1, WritersAreTyped DEF RemoveMember, WsInv, WsTypeOK
    <3>3. \A d \in Callers : \/ call'[d] = NoCall
                             \/ call'[d] = [call[d] EXCEPT !.stale = TRUE]
      BY <3>1 DEF EndWriting
    <3> QED BY <3>2, <3>3, WriteKeeps
  <2> QED BY <2>2, <2>3
<1> QED BY <1>1, <1>2, <1>3

\* A transfer keeps it.
LEMMA TransferKeeps ==
    ASSUME WsInv, NEW c \in Callers,
           \/ \E a \in Accounts : ReadOwners(c, a)
           \/ TransferOwnership(c) \/ TransferRollsBack(c)
    PROVE  WsInv'
<1>1. ASSUME NEW a \in Accounts, ReadOwners(c, a) PROVE WsInv'
  <2> DEFINE k == [NoCall EXCEPT !.step = "transfer", !.who = a, !.owners = Owners]
  <2>1. k \in Call /\ k.step = "transfer" /\ k.who = a /\ k.owners = Owners
    <3>1. Owners \subseteq Accounts
      BY DEF Owners
    <3> QED BY <3>1, NoCallTyped DEF Call, NoCall
  <2>2. call' = [call EXCEPT ![c] = k] /\ call'[c] = k
    BY <1>1 DEF ReadOwners, Begin, WsInv, WsTypeOK
  <2>3. Owners' = Owners
    BY <1>1 DEF ReadOwners, Owners
  <2>4. InHand(c)' /\ FreshRead(c)'
    BY <2>1, <2>2, <2>3 DEF InHand, FreshRead
  <2> QED BY <1>1, <2>1, <2>2, <2>4, OneCallMoves DEF ReadOwners
<1>2. CASE TransferOwnership(c)
  <2>1. WsTypeOK'
    BY <1>2, WritersAreTyped, WorkspaceAssumption DEF TransferOwnership, WsInv, WsTypeOK
  <2>2. \A d \in Callers : \/ call'[d] = NoCall
                           \/ call'[d] = [call[d] EXCEPT !.stale = TRUE]
    BY <1>2 DEF TransferOwnership, EndWriting
  <2> QED BY <2>1, <2>2, WriteKeeps
<1>3. CASE TransferRollsBack(c)
  BY <1>3, EndKeeps DEF TransferRollsBack
<1> QED BY <1>1, <1>2, <1>3

\* An acceptance keeps it: only accepted invitations have let somebody in.
LEMMA AcceptKeeps ==
    ASSUME WsInv, NEW c \in Callers,
           \/ \E i \in Invitations, a \in Accounts : ReadInvitation(c, i, a)
           \/ AcceptInvitation(c)
    PROVE  WsInv'
<1>1. ASSUME NEW i \in Invitations, NEW a \in Accounts, ReadInvitation(c, i, a)
      PROVE  WsInv'
  <2> DEFINE k == [NoCall EXCEPT !.step = "accept", !.who = a, !.token = i]
  <2>1. k \in Call /\ k.step = "accept" /\ k.who = a /\ k.token = i
    BY NoCallTyped DEF Call, NoCall
  <2>2. call' = [call EXCEPT ![c] = k] /\ call'[c] = k
    BY <1>1 DEF ReadInvitation, Begin, WsInv, WsTypeOK
  <2>3. admitted'[i] = {}
    BY <1>1 DEF ReadInvitation, WsInv, WsTypeOK
  <2>4. InHand(c)' /\ FreshRead(c)'
    BY <2>1, <2>2, <2>3 DEF InHand, FreshRead
  <2> QED BY <1>1, <2>1, <2>2, <2>4, OneCallMoves DEF ReadInvitation
<1>2. CASE AcceptInvitation(c)
  <2>1. call[c].who \in Accounts /\ call[c].token \in Invitations
    BY <1>2 DEF AcceptInvitation, CallAt, WsInv, InHands, InHand
  <2>2. WsTypeOK'
    BY <1>2, <2>1, WritersAreTyped DEF AcceptInvitation, WsInv, WsTypeOK, Invitation
  <2>3. \A d \in Callers : \/ call'[d] = NoCall
                           \/ call'[d] = [call[d] EXCEPT !.stale = TRUE]
    BY <1>2 DEF AcceptInvitation, EndWriting
  <2> QED BY <2>2, <2>3, WriteKeeps
<1> QED BY <1>1, <1>2

\* Creating and expiring invitations, and archiving, keep it: nobody has read
\* what they change.
LEMMA OthersKeep ==
    ASSUME WsInv, \/ \E i \in Invitations : Expire(i) \/ \E r \in Roles : CreateInvitation(i, r)
                  \/ ArchiveWorkspace \/ UNCHANGED wsVars
    PROVE  WsInv'
<1>1. WsTypeOK'
  BY DEF Expire, CreateInvitation, ArchiveWorkspace, wsVars, WsInv, WsTypeOK, Invitation
<1>2. UNCHANGED <<member, call, admitted>>
  BY DEF Expire, CreateInvitation, ArchiveWorkspace, wsVars
<1>3. \A c \in Callers : InHand(c)' /\ FreshRead(c)'
  BY <1>2 DEF WsInv, InHands, InHand, FreshReads, FreshRead, MayRemove, Owners
<1> QED BY <1>1, <1>3 DEF WsInv, InHands, FreshReads

\* Every operation of the service keeps the invariant.
LEMMA NextWsInv == WsInv /\ [WsNext]_wsVars => WsInv'
BY CreateKeeps, AddKeeps, RemoveKeeps, TransferKeeps, AcceptKeeps, OthersKeep DEF WsNext

-----------------------------------------------------------------------------
\* The type invariant, with what makes the properties inductive.
THEOREM WsInvHolds == WsSpec => []WsInv
<1> QED BY InitWsInv, NextWsInv, PTL DEF WsSpec

\* Workspaces, members, invitations and requests stay well-typed, and who an
\* invitation has let in is known by its being accepted.
THEOREM WsTypeHolds == WsSpec => []WsTypeOK
<1>1. WsInv => WsTypeOK
  BY DEF WsInv
<1> QED BY <1>1, WsInvHolds, PTL

\* A removal or a transfer that nobody has written beside leaves an owner, and
\* a transfer the new one alone.
THEOREM OwnerRemainsHolds == WsSpec => OwnerRemains
<1>1. ASSUME WsInv, NEW c \in Callers, ~call[c].stale, RemoveMember(c), Owners # {}
      PROVE  Owners' # {}
  <2> DEFINE a == call[c].who
  <2>1. /\ a \in Accounts /\ MayRemove(c)
        /\ call[c].last = (Cardinality(Owners) <= 1)
        /\ member' = [member EXCEPT ![a] = "none"]
    BY <1>1 DEF RemoveMember, CallAt, WsInv, InHands, InHand, FreshReads, FreshRead
  <2>2. CASE a \notin Owners
    BY <1>1, <2>1, <2>2 DEF Owners, WsInv, WsTypeOK
  <2>3. CASE a \in Owners
    <3>1. ~(Cardinality(Owners) <= 1)
      BY <2>1, <2>3 DEF MayRemove, Owners
    <3>2. Owners # {a}
      BY <3>1, FS_Singleton
    <3>3. PICK b \in Owners : b # a
      BY <2>3, <3>2
    <3> QED BY <2>1, <3>3 DEF Owners, WsInv, WsTypeOK
  <2> QED BY <2>2, <2>3
<1>2. ASSUME WsInv, NEW c \in Callers, ~call[c].stale, TransferOwnership(c)
      PROVE  Owners' = {call[c].who}
  <2>1. call[c].who \in Accounts /\ call[c].owners = Owners
    BY <1>2 DEF TransferOwnership, CallAt, WsInv, InHands, InHand, FreshReads, FreshRead
  <2> QED BY <1>2, <2>1 DEF TransferOwnership, Owners
<1>3. WsInv /\ [WsNext]_wsVars =>
        [\A c \in Callers : ~call[c].stale =>
          /\ RemoveMember(c) /\ Owners # {} => Owners' # {}
          /\ TransferOwnership(c) => Owners' = {call[c].who}]_wsVars
  BY <1>1, <1>2
<1> QED BY <1>3, WsInvHolds, PTL DEF WsSpec, OwnerRemains

\* An acceptance that nobody has written beside is the first of its
\* invitation.
THEOREM UsedOnceHolds == WsSpec => InvitationUsedOnce
<1>1. WsInv /\ [WsNext]_wsVars =>
        [\A c \in Callers :
           AcceptInvitation(c) /\ ~call[c].stale => admitted[call[c].token] = {}]_wsVars
  BY DEF AcceptInvitation, CallAt, WsInv, FreshReads, FreshRead
<1> QED BY <1>1, WsInvHolds, PTL DEF WsSpec, InvitationUsedOnce

=============================================================================
