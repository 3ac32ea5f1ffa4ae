SPECIFICATION FairSpec
CONSTANTS
    e1 = e1
    e2 = e2
    t1 = t1
    t2 = t2
    w1 = w1
    w2 = w2
    NoEvent = NoEvent
    Events = {e1, e2}
    Tenants = {t1}
    TenantOf <- OneTenant
    Workers = {w1}
    MaxAttempts = 2
    CircuitThreshold = 2
    OpenFor = 2
    Waits = {1}
    BatchSize = 1
    MaxRequeues = 1
    MaxFaults = 1
    MaxPosts = 6
INVARIANTS
    OpenDeadLettersAreFailed
    PostsAreAccounted
PROPERTIES
    ImplementsOutbox
    EventuallySettled
