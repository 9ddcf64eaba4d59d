SPECIFICATION FairSpec
CONSTANTS
    w1 = w1
    w2 = w2
    x1 = x1
    x2 = x2
    f1 = f1
    s1 = s1
    sc = sc
    a1 = a1
    a2 = a2
    Nil = Nil
    Writes = {w1, w2}
    Foreign = {f1}
    Approval <- Approve12
    Sessions = {s1, sc}
    PushConflict = sc
    SessionOf <- Together
    Paths = {a1, a2}
    PathOf <- FilesTwoWrites
    MaxAttempts = 1
    DemoteAfter = 1
    MaxFaults = 1
INVARIANTS
    NoWriteForgottenUnlessTorn

    
CHECK_DEADLOCK FALSE
