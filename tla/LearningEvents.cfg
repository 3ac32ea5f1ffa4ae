SPECIFICATION Spec
CONSTANTS
    r1 = r1
    r2 = r2
    r3 = r3
    Unset = Unset
    Requests = {r1, r2, r3}
    Payloads <- MCPayloads
    MaxTime = 2
SYMMETRY Symmetry
INVARIANTS
    EventsHappened
    HighestReported
    CompletionsReported
    ReportCountsCompletions
CHECK_DEADLOCK FALSE
