SPECIFICATION FairBreakerSpec
CONSTANTS
    e1 = e1
    e2 = e2
    t1 = t1
    t2 = t2
    w1 = w1
    w2 = w2
    NoEvent = NoEvent
    Events = {e1}
    Tenants = {t1}
    TenantOf <- OneTenant
    Workers = {w1, w2}
    MaxAttempts = 2
    CircuitThreshold = 2
    OpenFor = 2
    Waits = {1}
    BatchSize = 2
    MaxRequeues = 1
    MaxFaults = 1
    MaxPosts = 12
INVARIANTS
    DeliveredWasAccepted
    AttemptsWereSent
    DeadLettersAreExhausted
    RetryBudget
    OpenCircuitHolds
    FailuresOpenCircuit
PROPERTIES
    EventuallySettled
