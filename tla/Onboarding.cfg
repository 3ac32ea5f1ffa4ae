SPECIFICATION Spec
CONSTANTS
    a = a
    b = b
    i1 = i1
    i2 = i2
    i3 = i3
    r1 = r1
    r2 = r2
    NoInvite = NoInvite
    Emails = {a, b}
    Invites = {i1, i2, i3}
    EmailOf <- MCEmailOf
    RoleOf <- MCRoleOf
    Requests = {r1, r2}
    Limits = {1, 2}
    FreeSeats = 1
    Window = 1
    InviteTtl = 1
    GraceDays = 1
    MaxFaults = 1
SYMMETRY RequestSymmetry
INVARIANTS
    OpenInviteIsUsable
    TenantHasAdmin
PROPERTIES
    SeatsWithinLimit
    ImplementsAdmission
