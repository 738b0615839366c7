SPECIFICATION Spec
CONSTANTS
    a = a
    b = b
    c = c
    x1 = x1
    x2 = x2
    r1 = r1
    r2 = r2
    t1 = t1
    t2 = t2
    NoOne = NoOne
    Exports = {a, b}
    Executors = {x1, x2}
    Requests = {r1, r2}
    Tenants = {t1, t2}
    Digests = {1, 2}
    Refs <- OneTenantRefs
    Owner <- OneTenantOwner
    RequestTenant <- OneTenantRequests
    RawRef <- OneTenantRaw
    PartRefs <- OneTenantParts
    DigestOf <- MCDigestOf
    SessionLoss = FALSE
    MaxFaults = 1
SYMMETRY Symmetry
CHECK_DEADLOCK FALSE
INVARIANTS
    TypeOK
    NoRowReferencesMissingBlob
    UnerasedBlobsAreAccounted
