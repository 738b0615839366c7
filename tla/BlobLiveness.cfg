SPECIFICATION FairSpec
CONSTANTS
    a = a
    b = b
    c = c
    x1 = x1
    x2 = x2
    r1 = r1
    r2 = r2
    t1 = t1
    t2 = t2
    NoOne = NoOne
    Exports = {a, b}
    Executors = {x1}
    Requests = {r1}
    Tenants = {t1, t2}
    Digests = {1, 2, 3}
    Refs <- TwoEntryRefs
    Owner <- TwoTenantOwner
    RequestTenant <- OneTenantRequests
    RawRef <- OneTenantRaw
    PartRefs <- TwoEntryParts
    DigestOf <- MCDigestOf
    SessionLoss = TRUE
    MaxFaults = 1
CHECK_DEADLOCK FALSE
INVARIANTS
    UnerasedBlobsAreAccounted
PROPERTIES
    PurgingConverges
    RegistrationEnds
