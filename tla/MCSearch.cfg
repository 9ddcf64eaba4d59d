SPECIFICATION Spec
CONSTANTS
    fa = fa
    fb = fb
    fc = fc
    da = da
    db1 = db1
    dc = dc
    r1 = r1
    r2 = r2
    Nil = Nil
    Paths = {fa, fb, fc}
    Ids = {da, db1, dc}
    Corpora <- SmallCorpora
    Autofill = TRUE
    Writable = FALSE
    RecentDays = 1
    SoonDays = 1
    MaxTrunk = 2
    MaxDay = 1
    MaxFaults = 1
    Readers = {r1, r2}
    Queries <- MCQueries
    Limit = 2
    CandidateLimit = 2
    DenseLimit = 1
    TrigramThreshold = 1
    ReviewAfter = 1
SYMMETRY Symmetry
INVARIANTS
    AnswersTheQuery
    RanksWithCurrentVectors
    ReviewCuesAgree
PROPERTIES
    HealthSnapshotCurrent
CHECK_DEADLOCK FALSE
