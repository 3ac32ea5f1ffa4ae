SPECIFICATION Spec
CONSTANTS
    t1 = t1
    s1 = s1
    s2 = s2
    c1 = c1
    c2 = c2
    d1 = d1
    d2 = d2
    NoSub = NoSub
    NoCustomer = NoCustomer
    Tenants = {t1}
    Subs = {s1}
    TenantOf <- MCTenantOf
    CustomerOf <- MCCustomerOf
    Deliveries = {d1, d2}
    Ordered = FALSE
    MaxEvents = 3
    MaxFaults = 1
PROPERTIES
    ReplayHasNoEffect
