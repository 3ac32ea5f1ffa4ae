SPECIFICATION Spec
CONSTANTS
    u1 = u1
    MaxTokens = 3
    Users = {u1}
    UserOf <- OneUser
    r1 = r1
    r2 = r2
    Requests = {r1, r2}
    Ttl = 2
    Keep = 1
    MaxFaults = 1
SYMMETRY RequestSymmetry
INVARIANTS
    RotatesOnce
    LogoutEndsSession
    SignedInUntilEnded
PROPERTIES
    ImplementsChain
