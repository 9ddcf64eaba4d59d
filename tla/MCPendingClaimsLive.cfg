SPECIFICATION FairSpec
CONSTANTS
    p1 = p1
    p2 = p2
    w1 = w1
    t1 = t1
    t2 = t2
    a1 = a1
    a2 = a2
    r1 = r1
    None = None
    Pids = {p1}
    Autos = {w1}
    Paths = {a1}
    Refs = {r1}
    PathOf <- OneEach
    RefOf <- OneEachRef
    Threads = {t1, t2}
    Cap = 0
    MaxClaims = 2
    MaxFaults = 2
PROPERTIES
    CommittedClaimCloses
    RejectedPathFreed
    AutoLockFreed
    FailedClaimReturns
