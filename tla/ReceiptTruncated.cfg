SPECIFICATION Spec
CONSTANTS
    p = p
    q = q
    s = s
    t1 = t1
    t2 = t2
    o1 = o1
    o2 = o2
    NoDigest = NoDigest
    NoOp = NoOp
    NoRun = NoRun
    Runs = {p}
    Tenants = {t1, t2}
    Ops = {o1, o2}
    Digests <- AllDigests
    RunTenant <- OneTenant
    Body <- SameBody
    CutOf <- MCCutOf
    Expected <- Declared
    OpOf <- TwoOps
    MaxFaults = 1
CHECK_DEADLOCK FALSE
INVARIANT ExportsAreWholeUploads
