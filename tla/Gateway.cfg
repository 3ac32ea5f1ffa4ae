SPECIFICATION MCSpec
CONSTANTS
    r1 = r1
    r2 = r2
    authOrg = authOrg
    course = course
    t1 = t1
    t2 = t2
    p1 = p1
    p2 = p2
    Requests = {r1, r2}
    Services = {authOrg, course}
    Summarizers = {authOrg}
    Threshold = 50
    Tenants = {t1, t2}
    Nobody = Nobody
    NotText = NotText
    Prices = {p1, p2}
    MaxLines = 3
    MaxQuantity = 2
    MaxTime = 8
    MaxWindow = 4
    MaxRows = 8
    MaxLimit = 4
INVARIANTS
    TypeOK
    
    OutageIsNoticed
    RequestsActForOwnTenant
    RoutesOpenAsMeant
    CatalogHonoured
    SeatsAgree
    ListingsSkipOnlyCursors
PROPERTIES
    ReadinessEnds
CHECK_DEADLOCK FALSE
