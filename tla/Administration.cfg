SPECIFICATION Spec
CONSTANTS
    Accounts = {a1, a2, a3}
    Roles = {"owner", "admin"}
    Invitations = {i1}
    Callers = {c1, c2}
    NoAccount = NoAccount
    NoInvitation = NoInvitation
    PaidPlans = {"pro"}
    Customers = {1, 2}
    NoCustomer = NoCustomer
    Checkouts = {k1, k2}
    Deliverers = {d1, d2}
    MaxEvents = 3
    SystemRoles = {"super-admin"}
    CustomRoles = {"custom"}
    Editors = {e1, e2}
    Edits = {b1, b2, b3}
    Clients = {l1, l2}
    Tokens = {1, 2, 3}
    NoToken = NoToken
    Admins = {m1, m2, m3}
    MaxVersion = 3
    RoleLists <- MCRoleLists
    RowSets <- MCRowSets
SYMMETRY AdminSymmetry
CONSTRAINT InOrder
INVARIANTS
    EventAppliesOnce
    PlanFollowsSubscription
    PaidPlanWasSold
    CustomerIsKnown
    PermissionsOfOneEdit
    SessionsConserved
    RolesHeldMeanwhile
    OutageOpensNothing
    OnlyDenialsDependOnOrder
    CurrentIsMarked
    VersionsContiguous
PROPERTIES
    OwnerRemains
    InvitationUsedOnce
    RegisterImplemented
CHECK_DEADLOCK FALSE
