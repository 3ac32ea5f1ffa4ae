SPECIFICATION Spec
CONSTANTS
    t1 = t1
    t2 = t2
    u1 = u1
    u2 = u2
    r1 = r1
    r2 = r2
    c1 = c1
    c2 = c2
    c3 = c3
    l1 = l1
    n1 = n1
    n2 = n2
    FREE = FREE
    ENTERPRISE = ENTERPRISE
    NoLimit = NoLimit
    Unused = Unused
    Deleted = Deleted
    None = None
    Staff = Staff
    Tenants = {t1, t2}
    Users = {u1, u2}
    Requests = {r1, r2}
    Courses = {c1, c2, c3}
    Lessons = {l1}
    Enrollments = {n1, n2}
    Tiers = {FREE, ENTERPRISE}
    Limit <- MCLimit
SYMMETRY Symmetry
INVARIANTS
    RowsConsistent
    WrittenByTheirOwn
    OverrunIsBounded
