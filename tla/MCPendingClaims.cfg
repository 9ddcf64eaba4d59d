SPECIFICATION Spec
CONSTANTS
    p1 = p1
    p2 = p2
    w1 = w1
    t1 = t1
    t2 = t2
    a1 = a1
    a2 = a2
    r1 = r1
    None = None
    Pids = {p1, p2}
    Autos = {w1}
    Paths = {a1, a2}
    Refs = {r1}
    PathOf <- TwoPaths
    RefOf <- OneRef
    Threads = {t1, t2}
    Cap = 0
    MaxClaims = 3
    MaxFaults = 2
SYMMETRY Symmetry
INVARIANTS
    AtMostOneCommit
    CommittedNeverReoffered
    RejectedStaysRejected
    PathProtected
    EvidenceKept
PROPERTIES
    AutoNeverClobbers
    ImplementsPathGate
